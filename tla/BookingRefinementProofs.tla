------------------------ MODULE BookingRefinementProofs ------------------------
(***************************************************************************)
(* BookingService implements BookingLifecycle, BookingColumns and           *)
(* BookingFeed, for every value of the constants.  A step that changes the  *)
(* tables is one operation on the current row (NextTableStep); seen through *)
(* the milestones of the row it is one step of the lifecycle, and every     *)
(* other step is a stutter.  A step that changes the topic is one event of  *)
(* a call that has committed, and changes no table.                         *)
(***************************************************************************)
EXTENDS BookingServiceRefines, BookingEventsProofs

\* The stage read off the milestones of a row is the one its status names.
LEMMA StageOfStatus ==
  ASSUME NEW bk \in BookingRows, MilestonesAgree(bk)
  PROVE  StageOf(bk) =
           CASE bk.status = StatusRequested  -> "open"
             [] bk.status = StatusAccepted   -> "taken"
             [] bk.status = StatusInProgress -> "moving"
             [] bk.status = StatusDelivered  -> "arrived"
             [] bk.status = StatusCompleted  -> "settled"
             [] bk.status = StatusCancelled  -> "abandoned"
<1>1. /\ bk # NoRow /\ bk.status \in Statuses /\ bk.estimatedPrice # NoPrice
      /\ bk.pickedUp \in BOOLEAN /\ bk.delivered \in BOOLEAN /\ bk.cancelled \in BOOLEAN
  BY NoRowAssumption, NoPriceAssumption DEF BookingRows
<1>2. QED BY <1>1 DEF StageOf, MilestonesAgree, Statuses, StatusRequested, StatusAccepted,
                      StatusInProgress, StatusDelivered, StatusCompleted, StatusCancelled

\* The creation of a booking posts the job.
LEMMA CreatePosts ==
  ASSUME IInv, NEW b \in Bookings, CreateStep(b)
  PROVE  Life!Post(b)
<1>1. PICK n \in Numbers, o \in Owners, p \in Prices :
        /\ bookings[b] = NoRow
        /\ bookings' = [bookings EXCEPT ![b] = NewBooking(n, o, p)]
        /\ UNCHANGED declineReasons
  BY DEF CreateStep, CommitRow
<1> DEFINE bk == NewBooking(n, o, p)
<1>2. bk # NoRow
  BY NewBookingType, NoRowAssumption
<1>3. StageOf(bk) = "open" /\ CarrierOf(bk) = NoRunner
  BY <1>2 DEF StageOf, CarrierOf, NewBooking
<1>4. StageOf(NoRow) = "unposted" /\ CarrierOf(NoRow) = NoRunner
  BY DEF StageOf, CarrierOf
<1> HIDE DEF bk
<1>5. /\ bookings'[b] = bk
      /\ \A a \in Bookings \ {b} : bookings'[a] = bookings[a]
  BY <1>1 DEF IInv, TInv, TypeOK, bk
<1>6. [a \in Bookings |-> StageOf(bookings[a])]' =
        [[a \in Bookings |-> StageOf(bookings[a])] EXCEPT ![b] = "open"]
  BY <1>3, <1>5
<1>7. [a \in Bookings |-> CarrierOf(bookings[a])]' = [a \in Bookings |-> CarrierOf(bookings[a])]
  BY <1>1, <1>3, <1>4, <1>5
<1>8. QED BY <1>1, <1>4, <1>6, <1>7 DEF Life!Post, Life!Advance

\* A permitted operation moves the job on, or back.
LEMMA OperationMoves ==
  ASSUME LedgerInv, NEW b \in Bookings, NEW op \in Transitions, NEW r \in Callers(op),
         OperationStep(b, op, r)
  PROVE  Life!LifecycleNext
<1> DEFINE old == bookings[b]
<1> DEFINE new == Successor(op, old, r)
<1>1. /\ old # NoRow
      /\ Refusal(op, old, r) = "ok"
      /\ bookings' = [bookings EXCEPT ![b] = new]
      /\ declineReasons' = IF op = "decline"
                             THEN [declineReasons EXCEPT ![b] = Append(@, r)]
                             ELSE declineReasons
  BY DEF OperationStep, CommitRow
<1>2. old \in BookingRows /\ MilestonesAgree(old)
  BY <1>1, RowsAgree DEF LedgerInv, IInv, TInv, TypeOK
<1>3. /\ new \in BookingRows /\ new # NoRow
      /\ new.status = Target(op)
      /\ new.runner = IF op = "accept" THEN r
                      ELSE IF op = "decline" THEN NoRunner ELSE old.runner
  BY <1>2, SuccessorFields, NoRowAssumption
<1>4. MilestonesAgree(new)
  BY <1>1, <1>2, MilestonesStay
<1>5. /\ Target(op) \in validTransitions[old.status] /\ old.status \in Statuses
      /\ op = "decline" => old.runner = r
  BY <1>1, <1>2, PermittedMeans DEF BookingRows
<1>6. /\ op = "accept"   => old.status = StatusRequested
      /\ op = "pickup"   => old.status = StatusAccepted
      /\ op = "deliver"  => old.status = StatusInProgress
      /\ op = "complete" => old.status = StatusDelivered
      /\ op = "cancel"   => old.status \in {StatusRequested, StatusAccepted, StatusInProgress}
      /\ op = "decline"  => old.status = StatusAccepted
  BY <1>5, Sources
<1> DEFINE stages == [a \in Bookings |-> StageOf(bookings[a])]
<1> DEFINE carriers == [a \in Bookings |-> CarrierOf(bookings[a])]
<1>7. /\ op = "accept"   => StageOf(old) = "open"
      /\ op = "pickup"   => StageOf(old) = "taken"
      /\ op = "deliver"  => StageOf(old) = "moving"
      /\ op = "complete" => StageOf(old) = "arrived"
      /\ op = "cancel"   => StageOf(old) \in {"open", "taken", "moving"}
      /\ op = "decline"  => StageOf(old) = "taken"
  BY <1>2, <1>6, StageOfStatus DEF StatusRequested, StatusAccepted, StatusInProgress,
       StatusDelivered, StatusCompleted, StatusCancelled
<1>8. StageOf(new) = CASE op = "accept"   -> "taken"
                       [] op = "pickup"   -> "moving"
                       [] op = "deliver"  -> "arrived"
                       [] op = "complete" -> "settled"
                       [] op = "cancel"   -> "abandoned"
                       [] op = "decline"  -> "open"
  BY <1>3, <1>4, StageOfStatus DEF Target, Transitions, StatusRequested, StatusAccepted,
       StatusInProgress, StatusDelivered, StatusCompleted, StatusCancelled
<1>9. CarrierOf(old) = old.runner /\ CarrierOf(new) = new.runner
  BY <1>1, <1>3 DEF CarrierOf
<1> HIDE DEF new
<1>10. bookings'[b] = new /\ \A a \in Bookings \ {b} : bookings'[a] = bookings[a]
  BY <1>1 DEF LedgerInv, IInv, TInv, TypeOK
<1>11. /\ stages' = [stages EXCEPT ![b] = StageOf(new)]
       /\ carriers' = [carriers EXCEPT ![b] = CarrierOf(new)]
  BY <1>10
<1>12. stages[b] = StageOf(old) /\ carriers[b] = CarrierOf(old)
  OBVIOUS
<1>13. CarrierOf(new) = CarrierOf(old) => carriers' = carriers
  BY <1>11, <1>12
<1> HIDE DEF stages, carriers, old
<1>14. CASE op = "accept"
  <2>1. r \in Runners
    BY <1>14 DEF Callers
  <2>2. Life!Take(b, r)
    BY <1>1, <1>3, <1>7, <1>8, <1>9, <1>11, <1>12, <1>14
       DEF Life!Take, Life!Advance, stages, carriers
  <2>3. QED BY <2>1, <2>2 DEF Life!LifecycleNext
<1>15. CASE op = "decline"
  <2>1. Life!GiveBack(b)
    BY <1>1, <1>3, <1>5, <1>7, <1>8, <1>9, <1>11, <1>12, <1>15
       DEF Life!GiveBack, Life!Advance, stages, carriers
  <2>2. QED BY <2>1 DEF Life!LifecycleNext
<1>16. CASE op \in {"pickup", "deliver", "complete", "cancel"}
  <2>1. carriers' = carriers /\ declineReasons' = declineReasons
    BY <1>1, <1>3, <1>9, <1>13, <1>16
  <2>2. op = "pickup" => Life!PickUp(b)
    BY <1>7, <1>8, <1>11, <1>12, <2>1 DEF Life!PickUp, Life!Advance, stages, carriers
  <2>3. op = "deliver" => Life!Deliver(b)
    BY <1>7, <1>8, <1>11, <1>12, <2>1 DEF Life!Deliver, Life!Advance, stages, carriers
  <2>4. op = "complete" => Life!Settle(b)
    BY <1>7, <1>8, <1>11, <1>12, <2>1 DEF Life!Settle, Life!Advance, stages, carriers
  <2>5. op = "cancel" => Life!Abandon(b)
    BY <1>7, <1>8, <1>11, <1>12, <2>1 DEF Life!Abandon, Life!Advance, stages, carriers
  <2>6. QED BY <1>16, <2>2, <2>3, <2>4, <2>5 DEF Life!LifecycleNext
<1>17. QED BY <1>14, <1>15, <1>16 DEF Transitions

\* LifecycleImplemented: seen through its tables, the concurrent service is
\* the atomic lifecycle.
THEOREM ImplementsLifecycle == Spec => LifecycleImplemented
<1>1. Init => Life!LifecycleInit
  BY DEF Init, Life!LifecycleInit, StageOf, CarrierOf
<1>2. LedgerInv /\ [Next]_vars => [Life!LifecycleNext]_(Life!lifecycleVars)
  <2> SUFFICES ASSUME LedgerInv, [Next]_vars
               PROVE  Life!LifecycleNext \/ UNCHANGED Life!lifecycleVars
    OBVIOUS
  <2>1. IInv /\ TableStep
    BY NextTableStep DEF LedgerInv
  <2>2. CASE UNCHANGED <<bookings, declineReasons, history>>
    BY <2>2 DEF Life!lifecycleVars
  <2>3. ASSUME NEW b \in Bookings, CreateStep(b)
        PROVE  Life!LifecycleNext
    BY <2>1, <2>3, CreatePosts DEF Life!LifecycleNext
  <2>4. ASSUME NEW b \in Bookings, NEW op \in Transitions, NEW r \in Callers(op),
               OperationStep(b, op, r)
        PROVE  Life!LifecycleNext
    BY <2>4, OperationMoves
  <2>5. QED BY <2>1, <2>2, <2>3, <2>4 DEF TableStep
<1>3. QED BY <1>1, <1>2, LedgerHolds, PTL DEF Spec, LifecycleImplemented, Life!Lifecycle

-----------------------------------------------------------------------------
LEMMA CreateInserts ==
  ASSUME IInv, NEW b \in Bookings, CreateStep(b)
  PROVE  Cols!Insert(b)
<1>1. PICK n \in Numbers, o \in Owners, p \in Prices :
        /\ bookings[b] = NoRow
        /\ bookings' = [bookings EXCEPT ![b] = NewBooking(n, o, p)]
  BY DEF CreateStep, CommitRow
<1> DEFINE bk == NewBooking(n, o, p)
<1>2. bk # NoRow
  BY NewBookingType, NoRowAssumption
<1>3. bk.owner = o /\ CarrierOf(bk) = NoRunner /\ CarrierOf(NoRow) = NoRunner
  BY <1>2 DEF CarrierOf, NewBooking
<1> HIDE DEF bk
<1>4. /\ bookings'[b] = bk
      /\ \A a \in Bookings \ {b} : bookings'[a] = bookings[a]
  BY <1>1 DEF IInv, TInv, TypeOK, bk
<1>5. OwnerColumn' = [OwnerColumn EXCEPT ![b] = {o}]
  BY <1>2, <1>3, <1>4 DEF OwnerColumn
<1>6. RunnerColumn' = RunnerColumn
  BY <1>1, <1>3, <1>4 DEF RunnerColumn
<1>7. OwnerColumn[b] = {}
  BY <1>1 DEF OwnerColumn
<1>8. QED BY <1>5, <1>6, <1>7 DEF Cols!Insert

LEMMA OperationReassigns ==
  ASSUME LedgerInv, NEW b \in Bookings, NEW op \in Transitions, NEW r \in Callers(op),
         OperationStep(b, op, r)
  PROVE  Cols!ColumnsNext \/ UNCHANGED Cols!columns
<1> DEFINE old == bookings[b]
<1> DEFINE new == Successor(op, old, r)
<1>1. /\ old # NoRow
      /\ Refusal(op, old, r) = "ok"
      /\ bookings' = [bookings EXCEPT ![b] = new]
  BY DEF OperationStep, CommitRow
<1>2. old \in BookingRows /\ MilestonesAgree(old)
  BY <1>1, RowsAgree DEF LedgerInv, IInv, TInv, TypeOK
<1>3. /\ new # NoRow /\ new.owner = old.owner
      /\ new.runner = IF op = "accept" THEN r
                      ELSE IF op = "decline" THEN NoRunner ELSE old.runner
  BY <1>2, SuccessorFields, NoRowAssumption
<1>4. /\ Target(op) \in validTransitions[old.status] /\ old.status \in Statuses
      /\ op = "decline" => old.runner = r
  BY <1>1, <1>2, PermittedMeans DEF BookingRows
<1>5. op = "accept" => old.runner = NoRunner
  <2>1. op = "accept" => old.status = StatusRequested
    BY <1>4, Sources
  <2> QED BY <1>2, <2>1 DEF MilestonesAgree, StatusRequested, StatusAccepted,
             StatusInProgress, StatusDelivered, StatusCompleted, StatusCancelled
<1>6. CarrierOf(old) = old.runner /\ CarrierOf(new) = new.runner
  BY <1>1, <1>3 DEF CarrierOf
<1> HIDE DEF new
<1>7. bookings'[b] = new /\ \A a \in Bookings \ {b} : bookings'[a] = bookings[a]
  BY <1>1 DEF LedgerInv, IInv, TInv, TypeOK
<1>8. OwnerColumn' = OwnerColumn
  BY <1>1, <1>3, <1>7 DEF OwnerColumn
<1>9. RunnerColumn[b] = IF old.runner = NoRunner THEN {} ELSE {old.runner}
  BY <1>6 DEF RunnerColumn
<1>10. RunnerColumn' = [RunnerColumn EXCEPT ![b] =
         IF new.runner = NoRunner THEN {} ELSE {new.runner}]
  BY <1>6, <1>7 DEF RunnerColumn
<1>11. OwnerColumn[b] # {}
  BY <1>1 DEF OwnerColumn
<1>12. CASE op = "accept"
  <2>1. r \in Runners /\ r # NoRunner
    BY <1>12, NoRunnerAssumption DEF Callers
  <2>2. Cols!Assign(b)
    BY <1>3, <1>5, <1>8, <1>9, <1>10, <1>11, <1>12, <2>1 DEF Cols!Assign
  <2> QED BY <2>2 DEF Cols!ColumnsNext
<1>13. CASE op = "decline"
  <2>1. old.runner # NoRunner
    BY <1>4, <1>13, NoRunnerAssumption DEF Callers
  <2>2. Cols!Release(b)
    BY <1>3, <1>8, <1>9, <1>10, <1>13, <2>1 DEF Cols!Release
  <2> QED BY <2>2 DEF Cols!ColumnsNext
<1>14. CASE op \notin {"accept", "decline"}
  <2>1. RunnerColumn' = [RunnerColumn EXCEPT ![b] = RunnerColumn[b]]
    BY <1>3, <1>9, <1>10, <1>14
  <2>2. RunnerColumn' = RunnerColumn
    BY <2>1 DEF RunnerColumn
  <2> QED BY <1>8, <2>2 DEF Cols!columns
<1> QED BY <1>12, <1>13, <1>14

\* ColumnsImplemented: what BookingPages takes the other calls to do to the
\* columns of a list is all that the concurrent service ever does to them.
THEOREM ImplementsColumns == Spec => ColumnsImplemented
<1>1. Init => Cols!ColumnsInit
  BY DEF Init, Cols!ColumnsInit, OwnerColumn, RunnerColumn, CarrierOf
<1>2. LedgerInv /\ [Next]_vars => [Cols!ColumnsNext]_(Cols!columns)
  <2> SUFFICES ASSUME LedgerInv, [Next]_vars
               PROVE  Cols!ColumnsNext \/ UNCHANGED Cols!columns
    OBVIOUS
  <2>1. IInv /\ TableStep
    BY NextTableStep DEF LedgerInv
  <2>2. CASE UNCHANGED <<bookings, declineReasons, history>>
    BY <2>2 DEF Cols!columns, OwnerColumn, RunnerColumn
  <2>3. ASSUME NEW b \in Bookings, CreateStep(b)
        PROVE  Cols!ColumnsNext
    BY <2>1, <2>3, CreateInserts DEF Cols!ColumnsNext
  <2>4. ASSUME NEW b \in Bookings, NEW op \in Transitions, NEW r \in Callers(op),
               OperationStep(b, op, r)
        PROVE  Cols!ColumnsNext \/ UNCHANGED Cols!columns
    BY <2>4, OperationReassigns
  <2>5. QED BY <2>1, <2>2, <2>3, <2>4 DEF TableStep
<1>3. QED BY <1>1, <1>2, LedgerHolds, PTL DEF Spec, ColumnsImplemented, Cols!ColumnsSpec

-----------------------------------------------------------------------------
(* The feed. *)

\* An operation is told from the others by the status it leaves behind.
LEMMA OperationOfStatus ==
  /\ OperationTo \in [Statuses -> Operations \ {"decline"}]
  /\ \A op \in Operations \ {"decline"} :
       EventStatus(op) \in Statuses /\ OperationTo[EventStatus(op)] = op
<1> USE DEF Operations, Transitions, Statuses, EventStatus, Target, StatusRequested,
            StatusAccepted, StatusInProgress, StatusDelivered, StatusCompleted,
            StatusCancelled
<1>1. \A op \in Operations \ {"decline"} : EventStatus(op) \in Statuses
  OBVIOUS
<1>2. \A s \in Statuses : \E op \in Operations \ {"decline"} : EventStatus(op) = s
  <2>1. /\ EventStatus("create") = StatusRequested
        /\ EventStatus("accept") = StatusAccepted
        /\ EventStatus("pickup") = StatusInProgress
        /\ EventStatus("deliver") = StatusDelivered
        /\ EventStatus("complete") = StatusCompleted
        /\ EventStatus("cancel") = StatusCancelled
    OBVIOUS
  <2>2. {"create", "accept", "pickup", "deliver", "complete", "cancel"}
          \subseteq Operations \ {"decline"}
    OBVIOUS
  <2> QED BY <2>1, <2>2
<1>3. \A op1, op2 \in Operations \ {"decline"} : EventStatus(op1) = EventStatus(op2) => op1 = op2
  OBVIOUS
<1> HIDE DEF Operations, Statuses, EventStatus
<1>4. ASSUME NEW s \in Statuses
      PROVE  OperationTo[s] \in Operations \ {"decline"} /\ EventStatus(OperationTo[s]) = s
  <2>1. OperationTo[s] = CHOOSE op \in Operations \ {"decline"} : EventStatus(op) = s
    BY DEF OperationTo
  <2> QED BY <1>2, <2>1
<1>5. OperationTo \in [Statuses -> Operations \ {"decline"}]
  <2>1. OperationTo = [s \in Statuses |-> OperationTo[s]]
    BY DEF OperationTo
  <2> QED BY <1>4, <2>1
<1> QED BY <1>1, <1>3, <1>4, <1>5

\* A call about to publish will give the notice that its version owes.
NoticesTrue ==
  \A q \in Requests : calls[q].pc = "publish" =>
    LET c == calls[q] IN
    /\ c.op # "decline"
    /\ NoticeOf(history[c.booking], c.bk.version) =
         [type |-> EventFor(c).type, runner |-> EventFor(c).runner]

FeedInv == EventInv /\ NoticesTrue

\* What a committed version owes stays what it is.
LEMMA NoticeStays ==
  ASSUME IInv, TableStep, NEW b \in Bookings, NEW v \in 1 .. Len(history[b])
  PROVE  NoticeOf(history'[b], v) = NoticeOf(history[b], v)
<1>1. /\ Len(history[b]) \in Nat /\ Len(history'[b]) \in Nat
      /\ Len(history[b]) <= Len(history'[b])
      /\ \A w \in 1 .. Len(history[b]) : history'[b][w] = history[b][w]
  BY HistoryStays
<1>2. v > 1 => Released(history'[b], v - 1) = Released(history[b], v - 1)
  <2> SUFFICES ASSUME v > 1 PROVE Released(history'[b], v - 1) = Released(history[b], v - 1)
    OBVIOUS
  <2>1. /\ v - 1 \in 1 .. (Len(history[b]) - 1) /\ v - 1 \in 1 .. (Len(history'[b]) - 1)
        /\ v - 1 \in 1 .. Len(history[b]) /\ (v - 1) + 1 = v
    BY <1>1
  <2>2. history'[b][v - 1] = history[b][v - 1] /\ history'[b][v] = history[b][v]
    BY <1>1, <2>1
  <2> QED BY <2>1, <2>2 DEF Released
<1>3. history'[b][v] = history[b][v]
  BY <1>1
<1> QED BY <1>2, <1>3 DEF NoticeOf

\* A call that has just written owes the notice it is about to give.
LEMMA WrittenNotice ==
  ASSUME LedgerInv, NEW q \in Requests, SaveRow(calls[q]) \/ UpdateRow(calls[q])
  PROVE  LET c == calls[q] IN
         /\ c.op # "decline"
         /\ NoticeOf(history'[c.booking], c.bk.version) =
              [type |-> EventFor(c).type, runner |-> EventFor(c).runner]
<1> DEFINE c == calls[q]
<1> DEFINE b == c.booking
<1> DEFINE v == c.bk.version
<1>1. IInv /\ TypeOK
  BY DEF LedgerInv, IInv, TInv
<1>2. /\ b \in Bookings /\ c.bk \in BookingRows
      /\ v = Len(history[b]) + 1
      /\ CommitRow(b, c.bk)
  BY <1>1, WriteFacts
<1>3. /\ history'[b][v] = c.bk /\ Len(history'[b]) = v
      /\ \A w \in 1 .. Len(history[b]) : history'[b][w] = history[b][w]
  BY <1>1, <1>2, HistoryGrows
<1>4. EventFor(c).type = c.op
      /\ EventFor(c).runner = IF c.op \in {"create", "cancel"} THEN NoRunner ELSE c.bk.runner
  BY DEF EventFor
<1>5. CASE SaveRow(c)
  <2>1. c.op = "create" /\ \E n \in Numbers, o \in Owners, p \in Prices : c.bk = NewBooking(n, o, p)
    BY <1>1, <1>5 DEF SaveRow, IInv, SavesAreFresh
  <2>2. v = 1 /\ c.bk.status = StatusRequested
    BY <2>1 DEF NewBooking
  <2>3. "create" \in Operations \ {"decline"} /\ EventStatus("create") = StatusRequested
    BY DEF Operations, Transitions, EventStatus
  <2>4. OperationTo[StatusRequested] = "create"
    BY <2>3, OperationOfStatus
  <2> QED BY <1>3, <1>4, <2>1, <2>2, <2>4 DEF NoticeOf
<1>6. CASE UpdateRow(c)
  <2>1. c.op # "decline" /\ Derived(c)
    BY <1>1, <1>6 DEF UpdateRow, IInv, CopiesAreDerived
  <2> DEFINE old == history[b][v - 1]
  <2>2. /\ c.op \in Transitions /\ c.runner \in Callers(c.op)
        /\ v - 1 \in 1 .. Len(history[b])
        /\ c.bk = Successor(c.op, old, c.runner)
    BY <2>1 DEF Derived
  <2>3. old \in BookingRows
    BY <1>1, <1>2, <2>2 DEF TypeOK
  <2>4. /\ c.bk.status = Target(c.op)
        /\ c.bk.runner = IF c.op = "accept" THEN c.runner ELSE old.runner
    BY <2>1, <2>2, <2>3, SuccessorFields
  <2>5. c.op = "accept" => c.bk.runner # NoRunner
    BY <2>2, <2>4, NoRunnerAssumption DEF Callers
  <2>6. (v - 1) + 1 = v /\ history'[b][v - 1] = old
    BY <1>2, <1>3, <2>2 DEF BookingRows
  <2>7. ~Released(history'[b], v - 1)
    BY <1>3, <2>4, <2>5, <2>6 DEF Released
  <2>8. c.op \in Operations \ {"decline"} /\ EventStatus(c.op) = Target(c.op)
    BY <2>1, <2>2 DEF Operations, Transitions, EventStatus
  <2>9. OperationTo[c.bk.status] = c.op
    BY <2>4, <2>8, OperationOfStatus
  <2>10. c.bk.status \in {StatusRequested, StatusCancelled} <=> c.op \in {"create", "cancel"}
    BY <2>1, <2>2, <2>4 DEF Transitions, Target, StatusRequested, StatusAccepted,
         StatusInProgress, StatusDelivered, StatusCompleted, StatusCancelled
  <2> HIDE DEF old
  <2> QED BY <1>3, <1>4, <2>1, <2>7, <2>9, <2>10 DEF NoticeOf
<1> QED BY <1>5, <1>6

\* The notices to be given stay true.
LEMMA NoticesStayTrue ==
  ASSUME FeedInv, [Next]_vars
  PROVE  NoticesTrue'
<1>1. LedgerInv /\ IInv /\ TypeOK
  BY DEF FeedInv, EventInv, LedgerInv, IInv, TInv
<1> SUFFICES ASSUME NEW x \in Requests, calls'[x].pc = "publish"
             PROVE  /\ calls'[x].op # "decline"
                    /\ NoticeOf(history'[calls'[x].booking], calls'[x].bk.version) =
                         [type |-> EventFor(calls'[x]).type, runner |-> EventFor(calls'[x]).runner]
  BY DEF NoticesTrue, EventFor
<1> DEFINE c == calls[x]
<1>2. CASE calls'[x] = c
  <2>1. Succeeded(c)
    BY <1>2 DEF Succeeded
  <2>2. c.booking \in Bookings /\ c.bk.version \in 1 .. Len(history[c.booking])
    BY <1>1, <2>1 DEF IInv, SuccessesTyped, RepliesAreCommitted
  <2>3. NoticeOf(history'[c.booking], c.bk.version) = NoticeOf(history[c.booking], c.bk.version)
    BY <1>1, <2>2, NextTableStep, NoticeStays
  <2> QED BY <1>2, <2>3 DEF FeedInv, NoticesTrue
<1>3. ASSUME SaveRow(c) \/ UpdateRow(c), calls'[x] = Committed(c)
      PROVE  /\ calls'[x].op # "decline"
             /\ NoticeOf(history'[calls'[x].booking], calls'[x].bk.version) =
                  [type |-> EventFor(calls'[x]).type, runner |-> EventFor(calls'[x]).runner]
  <2>1. c \in Calls
    BY <1>1 DEF TypeOK
  <2>2. /\ Committed(c).op = c.op /\ Committed(c).bk = c.bk
        /\ Committed(c).booking = c.booking
    BY <2>1 DEF Committed, Calls
  <2>3. EventFor(Committed(c)) = EventFor(c)
    BY <2>2 DEF EventFor
  <2> QED BY <1>1, <1>3, <2>2, <2>3, WrittenNotice
<1> QED BY <1>1, <1>2, <1>3, PublishSteps

\* A committed version is a change that owes its notice.
LEMMA CommitChanges ==
  ASSUME LedgerInv, TableStep, UNCHANGED topic
  PROVE  Feed!FeedNext \/ UNCHANGED Feed!feedVars
<1>1. IInv /\ TypeOK
  BY DEF LedgerInv, IInv, TInv
<1>2. NoticesGiven' = NoticesGiven
  BY DEF NoticesGiven
<1>3. CASE UNCHANGED <<bookings, declineReasons, history>>
  BY <1>2, <1>3 DEF Feed!feedVars, NoticesOwed
<1>4. ASSUME NEW b \in Bookings, NEW bk \in BookingRows, CommitRow(b, bk)
      PROVE  Feed!FeedNext
  <2> DEFINE n == Len(history[b]) + 1
  <2> DEFINE notice == NoticeOf(history'[b], n)
  <2>1. history \in [Bookings -> Seq(BookingRows)] /\ Len(history[b]) \in Nat
    BY <1>1 DEF TypeOK
  <2>2. /\ \A a \in Bookings \ {b} : history'[a] = history[a]
        /\ Len(history'[b]) = n /\ history'[b][n] = bk
    BY <1>1, <1>4, HistoryGrows
  <2>3. notice \in NoticesDue \cup {DeclineNotice}
    <3>1. bk.status \in Statuses /\ bk.runner \in Runners \cup {NoRunner}
      BY DEF BookingRows
    <3>2. OperationTo[bk.status] \in Operations \ {"decline"}
      BY <3>1, OperationOfStatus
    <3> QED BY <2>2, <3>1, <3>2 DEF NoticeOf, NoticesDue
  <2>4. NoticesOwed'[b] = Append(NoticesOwed[b], notice)
    <3> DEFINE old == [v \in 1 .. Len(history[b]) |-> NoticeOf(history[b], v)]
    <3> DEFINE new == [v \in 1 .. n |-> NoticeOf(history'[b], v)]
    <3>1. NoticesOwed[b] = old /\ NoticesOwed'[b] = new
      BY <2>2 DEF NoticesOwed
    <3>2. \A v \in 1 .. Len(history[b]) : NoticeOf(history'[b], v) = NoticeOf(history[b], v)
      BY <1>1, NoticeStays
    <3>3. Len(old) = Len(history[b])
      BY <2>1
    <3>4. Append(old, notice) = [v \in 1 .. n |-> IF v = n THEN notice ELSE old[v]]
      BY <2>1, <3>3
    <3>5. \A v \in 1 .. n : v = n \/ v \in 1 .. Len(history[b])
      BY <2>1
    <3>6. new = [v \in 1 .. n |-> IF v = n THEN notice ELSE old[v]]
      BY <2>1, <3>2, <3>5
    <3> QED BY <3>1, <3>4, <3>6
  <2>5. NoticesOwed' = [NoticesOwed EXCEPT ![b] = Append(@, notice)]
    BY <2>2, <2>4 DEF NoticesOwed
  <2> HIDE DEF notice
  <2>6. Feed!Change(b, notice)
    BY <1>2, <2>5 DEF Feed!Change
  <2> QED BY <2>3, <2>6 DEF Feed!FeedNext
<1>5. ASSUME NEW b \in Bookings, CreateStep(b)
      PROVE  Feed!FeedNext
  BY <1>4, <1>5, NewBookingType DEF CreateStep
<1>6. ASSUME NEW b \in Bookings, NEW op \in Transitions, NEW r \in Callers(op),
             OperationStep(b, op, r)
      PROVE  Feed!FeedNext
  <2>1. bookings[b] \in BookingRows
    BY <1>1, <1>6 DEF OperationStep, TypeOK
  <2> QED BY <1>4, <1>6, <2>1, SuccessorType DEF OperationStep
<1> QED BY <1>3, <1>5, <1>6 DEF TableStep

\* An event gives the notice of the version its call committed.
LEMMA PublishTells ==
  ASSUME FeedInv, NEW q \in Requests, Publish(q)
  PROVE  Feed!FeedNext
<1> DEFINE c == calls[q]
<1> DEFINE b == c.booking
<1> DEFINE v == c.bk.version
<1> DEFINE e == EventFor(c)
<1>1. IInv /\ TypeOK
  BY DEF FeedInv, EventInv, LedgerInv, IInv, TInv
<1>2. /\ c.pc = "publish" /\ Succeeded(c) /\ b \in Bookings
      /\ UNCHANGED tables
      /\ \A a \in Bookings \ {b} : topic'[a] = topic[a]
      /\ Len(topic[b]) \in Nat
      /\ Len(topic'[b]) = Len(topic[b]) + 1
      /\ topic'[b][Len(topic[b]) + 1] = e
      /\ \A i \in 1 .. Len(topic[b]) : topic'[b][i] = topic[b][i]
  BY <1>1, Published
<1>3. v \in 1 .. Len(history[b])
  BY <1>1, <1>2 DEF IInv, RepliesAreCommitted
<1>4. /\ c.op # "decline"
      /\ NoticeOf(history[b], v) = [type |-> e.type, runner |-> e.runner]
      /\ e.version = v /\ e.type = c.op
  BY <1>2 DEF FeedInv, NoticesTrue, EventFor
<1>5. \A i \in 1 .. Len(topic[b]) : topic[b][i].version # v
  BY <1>2 DEF FeedInv, EventInv, PendingUnannounced
<1> HIDE DEF c, e
<1> DEFINE entry == [change |-> v, notice |-> NoticeOf(history[b], v)]
<1>6. NoticesOwed' = NoticesOwed
  BY <1>2 DEF NoticesOwed, tables
<1>7. /\ Len(NoticesOwed[b]) = Len(history[b])
      /\ NoticesOwed[b][v] = NoticeOf(history[b], v)
  <2>1. Len(history[b]) \in Nat
    BY <1>1, <1>2 DEF TypeOK
  <2> QED BY <1>2, <1>3, <2>1 DEF NoticesOwed
<1>8. NoticesOwed[b][v] # DeclineNotice
  BY <1>4, <1>7 DEF DeclineNotice
<1>9. /\ Len(NoticesGiven[b]) = Len(topic[b])
      /\ \A i \in 1 .. Len(topic[b]) : NoticesGiven[b][i].change = topic[b][i].version
  BY <1>2 DEF NoticesGiven
<1>10. ~Feed!Told(b, v)
  BY <1>5, <1>9 DEF Feed!Told
<1>11. NoticesGiven'[b] = Append(NoticesGiven[b], entry)
  <2> DEFINE n == Len(topic[b]) + 1
  <2> DEFINE old == [i \in 1 .. Len(topic[b]) |->
                       [change |-> topic[b][i].version,
                        notice |-> [type |-> topic[b][i].type, runner |-> topic[b][i].runner]]]
  <2> DEFINE new == [i \in 1 .. n |->
                       [change |-> topic'[b][i].version,
                        notice |-> [type |-> topic'[b][i].type, runner |-> topic'[b][i].runner]]]
  <2>1. NoticesGiven[b] = old /\ NoticesGiven'[b] = new
    BY <1>2 DEF NoticesGiven
  <2>2. Append(old, entry) = [i \in 1 .. n |-> IF i = n THEN entry ELSE old[i]]
    BY <1>2
  <2>3. \A i \in 1 .. n : i = n \/ i \in 1 .. Len(topic[b])
    BY <1>2
  <2>4. new = [i \in 1 .. n |-> IF i = n THEN entry ELSE old[i]]
    BY <1>2, <1>4, <2>3
  <2> QED BY <2>1, <2>2, <2>4
<1>12. NoticesGiven' = [NoticesGiven EXCEPT ![b] = Append(@, entry)]
  BY <1>2, <1>11 DEF NoticesGiven
<1>13. Feed!Tell(b, v)
  BY <1>6, <1>7, <1>8, <1>10, <1>12 DEF Feed!Tell
<1> QED BY <1>2, <1>3, <1>7, <1>13 DEF Feed!FeedNext

\* FeedImplemented: what is on the topic is a feed of the committed changes.
THEOREM ImplementsFeed == Spec => FeedImplemented
<1>1. Init => FeedInv /\ Feed!FeedInit
  <2>1. Init => EventInv
    BY InitEventInv
  <2>2. Init => NoticesTrue
    BY DEF Init, NoticesTrue, Idle
  <2>3. Init => Feed!FeedInit
    BY DEF Init, Feed!FeedInit, NoticesOwed, NoticesGiven
  <2> QED BY <2>1, <2>2, <2>3 DEF FeedInv
<1>2. FeedInv /\ [Next]_vars => FeedInv'
  BY NextEventInv, NoticesStayTrue DEF FeedInv
<1>3. FeedInv /\ [Next]_vars => [Feed!FeedNext]_(Feed!feedVars)
  <2> SUFFICES ASSUME FeedInv, [Next]_vars
               PROVE  Feed!FeedNext \/ UNCHANGED Feed!feedVars
    OBVIOUS
  <2>1. LedgerInv /\ TableStep
    BY NextTableStep DEF FeedInv, EventInv, LedgerInv
  <2>2. CASE UNCHANGED topic
    BY <2>1, <2>2, CommitChanges
  <2>3. ASSUME NEW q \in Requests, Publish(q)
        PROVE  Feed!FeedNext
    BY <2>3, PublishTells
  <2> QED BY <2>2, <2>3, TopicSteps
<1> QED BY <1>1, <1>2, <1>3, PTL DEF Spec, FeedImplemented, Feed!Feed

=============================================================================
