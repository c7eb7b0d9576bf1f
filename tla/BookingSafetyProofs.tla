------------------------- MODULE BookingSafetyProofs -------------------------
(***************************************************************************)
(* Theorems of BookingService, for every value of the constants: any number *)
(* of bookings, users and concurrent calls, and whatever fails.  First type *)
(* correctness, then safety: the inductive invariant IInv says what a call  *)
(* in progress knows of the tables; from it every step of the concurrent    *)
(* service is shown to change the tables as one atomic operation on the     *)
(* current row (TableStep), and the properties of BookingSafety follow from *)
(* that alone.                                                              *)
(***************************************************************************)
EXTENDS BookingSafety, TLAPS

-----------------------------------------------------------------------------
(* The aggregate. *)

\* A new aggregate is a row (booking.go:59-115).
LEMMA NewBookingType ==
  ASSUME NEW n \in Numbers, NEW o \in Owners, NEW p \in Prices
  PROVE  NewBooking(n, o, p) \in BookingRows
BY DEF NewBooking, BookingRows, Statuses, StatusRequested

\* IncrementVersion keeps a row a row (booking.go:316-319).
LEMMA IncrementVersionType ==
  ASSUME NEW bk \in BookingRows
  PROVE  IncrementVersion(bk) \in BookingRows
BY DEF IncrementVersion, BookingRows

\* Every domain operation yields a row (booking.go:239-313).
LEMMA ApplyType ==
  ASSUME NEW op \in Transitions, NEW bk \in BookingRows, NEW r \in Callers(op)
  PROVE  Apply(op, bk, r) \in BookingRows
<1>1. CASE op = "accept"
  <2>1. Apply(op, bk, r) = Accept(bk, r)
    BY <1>1 DEF Apply
  <2>2. r \in Runners
    BY <1>1 DEF Callers
  <2>3. QED BY <2>1, <2>2 DEF Accept, BookingRows, Statuses, StatusAccepted
<1>2. CASE op = "pickup"
  <2>1. Apply(op, bk, r) = StartDelivery(bk)
    BY <1>2 DEF Apply
  <2>2. QED BY <2>1 DEF StartDelivery, BookingRows, Statuses, StatusInProgress
<1>3. CASE op = "deliver"
  <2>1. Apply(op, bk, r) = ConfirmDelivery(bk)
    BY <1>3 DEF Apply
  <2>2. QED BY <2>1 DEF ConfirmDelivery, BookingRows, Statuses, StatusDelivered
<1>4. CASE op = "complete"
  <2>1. Apply(op, bk, r) = Complete(bk, bk.estimatedPrice)
    BY <1>4 DEF Apply
  <2>2. QED BY <2>1 DEF Complete, BookingRows, Statuses, StatusCompleted
<1>5. CASE op = "cancel"
  <2>1. Apply(op, bk, r) = Cancel(bk)
    BY <1>5 DEF Apply
  <2>2. QED BY <2>1 DEF Cancel, BookingRows, Statuses, StatusCancelled
<1>6. CASE op = "decline"
  <2>1. Apply(op, bk, r) = Decline(bk)
    BY <1>6 DEF Apply
  <2>2. QED BY <2>1 DEF Decline, BookingRows, Statuses, StatusRequested
<1>7. QED BY <1>1, <1>2, <1>3, <1>4, <1>5, <1>6 DEF Transitions

\* No domain operation touches the version, the number or the estimated
\* price.
LEMMA ApplyVersion ==
  ASSUME NEW op \in Transitions, NEW bk \in BookingRows, NEW r
  PROVE  /\ Apply(op, bk, r).version = bk.version
         /\ Apply(op, bk, r).number = bk.number
         /\ Apply(op, bk, r).estimatedPrice = bk.estimatedPrice
BY DEF Apply, Transitions, Accept, StartDelivery, ConfirmDelivery, Complete, Cancel,
       Decline, BookingRows

\* The copy a call is about to write is a row.
LEMMA SuccessorType ==
  ASSUME NEW op \in Transitions, NEW bk \in BookingRows, NEW r \in Callers(op)
  PROVE  Successor(op, bk, r) \in BookingRows
BY ApplyType, IncrementVersionType DEF Successor

\* A refusal is one of the errors a call may answer.
LEMMA RefusalType ==
  ASSUME NEW op, NEW bk, NEW r
  PROVE  Refusal(op, bk, r) \in Refusals \cup {"ok"}
BY DEF Refusal, Refusals

\* Between two calls a goroutine holds the idle record, after a refusal the error.
LEMMA CallTypes ==
  /\ Idle \in Calls
  /\ \A reason \in Refusals : Refused(reason) \in Calls
BY DEF Idle, Calls, Refused

-----------------------------------------------------------------------------
(* The ways a call begins. *)

\* A call that arrives is refused, has changed the copy of a row as the
\* operation permits, or has built a new aggregate; it has written nothing.
LEMMA ArriveCases ==
  ASSUME TypeOK, NEW q \in Requests, Arrive(q)
  PROVE  /\ calls[q] = Idle
         /\ UNCHANGED <<tables, topic>>
         /\ \/ \E reason \in Refusals : calls' = [calls EXCEPT ![q] = Refused(reason)]
            \/ \E op \in Transitions, b \in Bookings : \E r \in Callers(op) :
                 /\ bookings[b] # NoRow
                 /\ Refusal(op, bookings[b], r) = "ok"
                 /\ calls' = [calls EXCEPT ![q] =
                               Updating(op, b, r, Successor(op, bookings[b], r))]
            \/ \E b \in Bookings, n \in Numbers, o \in Owners, p \in Prices :
                 /\ FreshId(b)
                 /\ calls' = [calls EXCEPT ![q] = Saving(b, NewBooking(n, o, p))]
<1> USE DEF Refusals
<1>1. CASE RejectRequest(q) \/ ReadFails(q)
  BY <1>1 DEF RejectRequest, ReadFails
<1>2. CASE CreateBooking(q)
  BY <1>2 DEF CreateBooking, BeginCreate
<1>3. ASSUME NEW b \in Bookings, NEW owner \in Owners, RebookBooking(q, b, owner)
      PROVE  /\ calls[q] = Idle
             /\ UNCHANGED <<tables, topic>>
             /\ \/ \E reason \in Refusals : calls' = [calls EXCEPT ![q] = Refused(reason)]
                \/ \E id \in Bookings, n \in Numbers, o \in Owners, p \in Prices :
                     /\ FreshId(id)
                     /\ calls' = [calls EXCEPT ![q] = Saving(id, NewBooking(n, o, p))]
  <2>1. CASE bookings[b] = NoRow \/ bookings[b].owner # owner
    BY <1>3, <2>1 DEF RebookBooking
  <2>2. CASE bookings[b] # NoRow /\ bookings[b].owner = owner
    <3>1. bookings[b].estimatedPrice \in Prices
      BY <2>2 DEF TypeOK, BookingRows
    <3>2. QED BY <1>3, <2>2, <3>1 DEF RebookBooking, BeginCreate
  <2>3. QED BY <2>1, <2>2
<1>4. ASSUME NEW b \in Bookings,
             \/ AcceptBooking(q, b) \/ StartBookingDelivery(q, b)
             \/ ConfirmBookingDelivery(q, b) \/ CompleteBooking(q, b)
             \/ CancelBooking(q, b) \/ DeclineBooking(q, b)
      PROVE  /\ calls[q] = Idle
             /\ UNCHANGED <<tables, topic>>
             /\ \/ \E reason \in Refusals : calls' = [calls EXCEPT ![q] = Refused(reason)]
                \/ \E op \in Transitions : \E r \in Callers(op) :
                     /\ bookings[b] # NoRow
                     /\ Refusal(op, bookings[b], r) = "ok"
                     /\ calls' = [calls EXCEPT ![q] =
                                   Updating(op, b, r, Successor(op, bookings[b], r))]
  <2>1. PICK op \in Transitions : \E r \in Callers(op) : Begin(q, op, b, r)
    BY <1>4 DEF AcceptBooking, StartBookingDelivery, ConfirmBookingDelivery,
                CompleteBooking, CancelBooking, DeclineBooking, Transitions
  <2>2. PICK r \in Callers(op) : Begin(q, op, b, r)
    BY <2>1
  <2>3. Refusal(op, bookings[b], r) # "ok" => Refusal(op, bookings[b], r) \in Refusals
    BY RefusalType
  <2>4. QED BY <2>2, <2>3 DEF Begin
<1>5. QED BY <1>1, <1>2, <1>3, <1>4 DEF Arrive, Ask

-----------------------------------------------------------------------------
(* Type correctness. *)

\* What a call in progress carries; without it a write could not be typed.
CallsCarry ==
  \A q \in Requests :
    calls[q].pc \in {"save", "update", "insert", "publish"} =>
      /\ calls[q].booking \in Bookings
      /\ calls[q].bk # NoRow
      /\ calls[q].op # "none"
      /\ calls[q].pc = "update" => calls[q].runner \in Callers(calls[q].op)
      /\ calls[q].pc = "insert" => calls[q].runner \in Runners

TInv == TypeOK /\ CallsCarry

\* The program starts with empty tables and idle goroutines.
LEMMA InitTInv == Init => TInv
BY CallTypes DEF Init, TInv, TypeOK, CallsCarry, Idle

\* A step that only moves a call on, or ends it, keeps what calls carry.
LEMMA MovedOnTInv ==
  ASSUME TInv, NEW q \in Requests, NEW c \in Calls,
         calls' = [calls EXCEPT ![q] = c],
         \/ c.pc \in {"idle", "reply"}
         \/ /\ c.pc \in {"save", "update", "insert", "publish"}
            /\ c.booking \in Bookings /\ c.bk # NoRow /\ c.op # "none"
            /\ c.pc = "update" => c.runner \in Callers(c.op)
            /\ c.pc = "insert" => c.runner \in Runners
  PROVE  calls' \in [Requests -> Calls] /\ CallsCarry'
BY DEF TInv, TypeOK, CallsCarry

\* A call that arrives has the types, and carries what it will write.
LEMMA ArriveTInv ==
  ASSUME TInv, NEW q \in Requests, Arrive(q)
  PROVE  TInv'
<1> USE DEF TInv
<1>1. UNCHANGED <<tables, topic>>
  BY ArriveCases
<1>2. CASE \E reason \in Refusals : calls' = [calls EXCEPT ![q] = Refused(reason)]
  <2>1. PICK reason \in Refusals : calls' = [calls EXCEPT ![q] = Refused(reason)]
    BY <1>2
  <2>2. Refused(reason) \in Calls /\ Refused(reason).pc = "reply"
    BY CallTypes DEF Refused, Idle
  <2>3. QED BY <1>1, <2>1, <2>2, MovedOnTInv DEF TypeOK, tables
<1>3. ASSUME NEW op \in Transitions, NEW b \in Bookings, NEW r \in Callers(op),
             bookings[b] # NoRow,
             calls' = [calls EXCEPT ![q] =
                         Updating(op, b, r, Successor(op, bookings[b], r))]
      PROVE  TInv'
  <2> DEFINE c == Updating(op, b, r, Successor(op, bookings[b], r))
  <2>1. Successor(op, bookings[b], r) \in BookingRows
    BY <1>3, SuccessorType DEF TypeOK
  <2>2. r \in Runners \cup {NoRunner} /\ op # "none" /\ op \in Operations
    BY DEF Callers, Transitions, Operations
  <2>3. c \in Calls
    BY <2>1, <2>2 DEF Updating, Calls
  <2>4. /\ c.pc = "update" /\ c.booking = b /\ c.op = op /\ c.runner = r
        /\ c.bk = Successor(op, bookings[b], r)
    BY DEF Updating
  <2>5. c.bk # NoRow
    BY <2>1, <2>4, NoRowAssumption
  <2> HIDE DEF c
  <2>6. calls' \in [Requests -> Calls] /\ CallsCarry'
    BY <1>3, <2>2, <2>3, <2>4, <2>5, MovedOnTInv DEF c
  <2>7. QED BY <1>1, <2>6 DEF TypeOK, tables
<1>4. ASSUME NEW b \in Bookings, NEW n \in Numbers, NEW o \in Owners, NEW p \in Prices,
             calls' = [calls EXCEPT ![q] = Saving(b, NewBooking(n, o, p))]
      PROVE  TInv'
  <2> DEFINE c == Saving(b, NewBooking(n, o, p))
  <2>1. NewBooking(n, o, p) \in BookingRows
    BY NewBookingType
  <2>2. c \in Calls
    BY <2>1 DEF Saving, Calls, Operations
  <2>3. /\ c.pc = "save" /\ c.booking = b /\ c.op = "create"
        /\ c.bk = NewBooking(n, o, p)
    BY DEF Saving
  <2>4. c.bk # NoRow
    BY <2>1, <2>3, NoRowAssumption
  <2> HIDE DEF c
  <2>5. calls' \in [Requests -> Calls] /\ CallsCarry'
    BY <1>4, <2>2, <2>3, <2>4, MovedOnTInv DEF c
  <2>6. QED BY <1>1, <2>5 DEF TypeOK, tables
<1>5. QED BY <1>2, <1>3, <1>4, ArriveCases

\* The writes of the database keep the types of the tables.
LEMMA WriteTypes ==
  ASSUME TInv, NEW q \in Requests,
         SaveRow(calls[q]) \/ UpdateRow(calls[q]) \/ DeclineRows(calls[q])
  PROVE  /\ bookings' \in [Bookings -> BookingRows \cup {NoRow}]
         /\ history' \in [Bookings -> Seq(BookingRows)]
         /\ declineReasons' \in [Bookings -> Seq(Runners)]
         /\ rowLock' \in [Bookings -> Requests \cup {NoRequest}]
<1> DEFINE c == calls[q]
<1> USE DEF TInv, TypeOK
<1>1. c.pc \in {"save", "update", "insert"} /\ CommitRow(c.booking, c.bk)
  BY DEF SaveRow, UpdateRow, DeclineRows
<1>2. c \in Calls /\ c.booking \in Bookings /\ c.bk # NoRow
  BY <1>1 DEF CallsCarry
<1>3. c.bk \in BookingRows
  BY <1>2 DEF Calls
<1>4. bookings' \in [Bookings -> BookingRows \cup {NoRow}]
  BY <1>1, <1>3 DEF CommitRow
<1>5. Append(history[c.booking], c.bk) \in Seq(BookingRows)
  BY <1>2, <1>3
<1>6. history' \in [Bookings -> Seq(BookingRows)]
  BY <1>1, <1>5 DEF CommitRow
<1>7. CASE SaveRow(c) \/ UpdateRow(c)
  BY <1>4, <1>6, <1>7 DEF SaveRow, UpdateRow
<1>8. CASE DeclineRows(c)
  <2>1. c.runner \in Runners
    BY <1>8 DEF DeclineRows, CallsCarry
  <2>2. Append(declineReasons[c.booking], c.runner) \in Seq(Runners)
    BY <1>2, <2>1
  <2>3. QED BY <1>4, <1>6, <1>8, <2>2 DEF DeclineRows
<1>9. QED BY <1>7, <1>8
\* A call that goes on keeps the types.
LEMMA ContinueTInv ==
  ASSUME TInv, NEW q \in Requests, Continue(q)
  PROVE  TInv'
<1> DEFINE c == calls[q]
<1> USE DEF TInv, TypeOK, tables
<1>1. c \in Calls
  OBVIOUS
<1>2. ASSUME NEW d \in Calls, d.pc \in {"idle", "reply"},
             calls' = [calls EXCEPT ![q] = d]
      PROVE  calls' \in [Requests -> Calls] /\ CallsCarry'
  BY <1>2, MovedOnTInv
<1>3. /\ \A reason \in Refusals : Refused(reason) \in Calls /\ Refused(reason).pc = "reply"
      /\ Idle \in Calls /\ Idle.pc = "idle"
      /\ Answered(c) \in Calls /\ Answered(c).pc = "reply"
  BY <1>1, CallTypes DEF Refused, Idle, Answered, Calls
<1>4. CASE Save(q) \/ Update(q)
  <2>1. calls' = [calls EXCEPT ![q] = Committed(c)]
    BY <1>4 DEF Save, Update
  <2>2. c.pc \in {"save", "update"}
    BY <1>4 DEF Save, Update, SaveRow, UpdateRow
  <2>3. Committed(c) \in Calls
    BY <1>1 DEF Committed, Calls
  <2>4. /\ Committed(c).pc = "publish" /\ Committed(c).booking \in Bookings
        /\ Committed(c).bk # NoRow /\ Committed(c).op # "none"
    BY <1>1, <2>2 DEF Committed, CallsCarry, Calls
  <2>5. calls' \in [Requests -> Calls] /\ CallsCarry'
    BY <2>1, <2>3, <2>4, MovedOnTInv
  <2>6. QED BY <1>4, <2>5, WriteTypes DEF Save, Update
<1>5. CASE NumberCollides(q)
  BY <1>5, <1>2, <1>3 DEF NumberCollides, Refusals
<1>6. CASE Conflict(q)
  BY <1>6, <1>2, <1>3 DEF Conflict, Refusals
<1>7. CASE UpdateInTransaction(q)
  <2> DEFINE d == [c EXCEPT !.pc = "insert"]
  <2>1. calls' = [calls EXCEPT ![q] = d]
    BY <1>7 DEF UpdateInTransaction
  <2>2. c.pc = "update" /\ c.op = "decline"
    BY <1>7 DEF UpdateInTransaction
  <2>3. /\ c.booking \in Bookings /\ c.bk # NoRow /\ c.runner \in Runners
    BY <2>2 DEF CallsCarry, Callers
  <2>4. d \in Calls
    BY <1>1 DEF Calls
  <2>5. d.pc = "insert" /\ d.booking \in Bookings /\ d.bk # NoRow
        /\ d.op # "none" /\ d.runner \in Runners
    BY <1>1, <2>2, <2>3 DEF Calls
  <2> HIDE DEF d
  <2>6. calls' \in [Requests -> Calls] /\ CallsCarry'
    BY <2>1, <2>4, <2>5, MovedOnTInv
  <2>7. rowLock' \in [Bookings -> Requests \cup {NoRequest}]
    BY <1>7 DEF UpdateInTransaction
  <2>8. QED BY <1>7, <2>6, <2>7 DEF UpdateInTransaction
<1>8. CASE CommitDecline(q)
  BY <1>8, <1>2, <1>3, WriteTypes DEF CommitDecline
<1>9. CASE Publish(q)
  <2>1. c.pc = "publish"
    BY <1>9 DEF Publish
  <2>2. c.booking \in Bookings /\ c.bk \in BookingRows /\ c.op \in Operations
    BY <1>1, <2>1 DEF CallsCarry, Calls
  <2>3. EventFor(c) \in Events
    BY <2>2 DEF EventFor, Events, BookingRows
  <2>4. Append(topic[c.booking], EventFor(c)) \in Seq(Events)
    BY <2>2, <2>3
  <2>5. topic' \in [Bookings -> Seq(Events)]
    BY <1>9, <2>4 DEF Publish
  <2>6. QED BY <1>9, <2>5, <1>2, <1>3 DEF Publish
<1>10. CASE StatementFails(q)
  <2>1. rowLock' \in [Bookings -> Requests \cup {NoRequest}]
    BY <1>10 DEF StatementFails, LocksWithout
  <2>2. QED BY <1>10, <2>1, <1>2, <1>3 DEF StatementFails, Refusals
<1>11. CASE CommitUnseen(q)
  BY <1>11, <1>2, <1>3, WriteTypes DEF CommitUnseen, Refusals
<1>12. CASE PublishFails(q)
  BY <1>12, <1>2, <1>3 DEF PublishFails
<1>13. CASE Respond(q)
  BY <1>13, <1>2, <1>3 DEF Respond
<1>14. QED BY <1>4, <1>5, <1>6, <1>7, <1>8, <1>9, <1>10, <1>11, <1>12, <1>13
           DEF Continue, Work, Progress, Failure

\* So does a crash, which leaves no call behind.
LEMMA CrashTInv == TInv /\ Crash => TInv'
BY CallTypes DEF TInv, TypeOK, CallsCarry, Crash, Idle

\* Every step keeps the types and what calls carry.
LEMMA NextTInv == TInv /\ [Next]_vars => TInv'
<1> SUFFICES ASSUME TInv, [Next]_vars PROVE TInv'
  OBVIOUS
<1>1. CASE UNCHANGED vars
  BY <1>1 DEF TInv, TypeOK, CallsCarry, vars
<1>2. CASE Crash
  BY <1>2, CrashTInv
<1>3. CASE \E q \in Requests : Arrive(q)
  BY <1>3, ArriveTInv
<1>4. CASE \E q \in Requests : Continue(q)
  BY <1>4, ContinueTInv
<1>5. QED BY <1>1, <1>2, <1>3, <1>4 DEF Next

LEMMA SpecTInv == Spec => []TInv
BY InitTInv, NextTInv, PTL DEF Spec

\* The tables, the calls in progress and the events always have their types.
THEOREM TypeCorrect == Spec => []TypeOK
BY SpecTInv, PTL DEF TInv

-----------------------------------------------------------------------------
(* The inductive invariant. *)

\* The row of a booking is the last version committed.
HistoryIsTable ==
  \A b \in Bookings :
    /\ bookings[b] = NoRow => history[b] = << >>
    /\ bookings[b] # NoRow =>
         /\ Len(history[b]) = bookings[b].version
         /\ history[b][Len(history[b])] = bookings[b]

\* The copy of call c is what its operation makes of the version before it,
\* which was committed, perhaps long ago, and permitted the operation.
Derived(c) ==
  LET v == c.bk.version - 1 IN
  /\ c.op \in Transitions
  /\ c.runner \in Callers(c.op)
  /\ v \in 1 .. Len(history[c.booking])
  /\ Refusal(c.op, history[c.booking][v], c.runner) = "ok"
  /\ c.bk = Successor(c.op, history[c.booking][v], c.runner)

CopiesAreDerived ==
  \A q \in Requests : calls[q].pc \in {"update", "insert"} => Derived(calls[q])

\* No two calls create the same booking, and none that exists.
SavesAreFresh ==
  \A q \in Requests : calls[q].pc = "save" =>
    /\ bookings[calls[q].booking] = NoRow
    /\ calls[q].op = "create"
    /\ \E n \in Numbers, o \in Owners, p \in Prices : calls[q].bk = NewBooking(n, o, p)
    /\ \A q2 \in Requests :
         calls[q2].pc = "save" /\ calls[q2].booking = calls[q].booking => q2 = q

\* A decline in its transaction holds the lock of its row, whose version is
\* still the one it read, and nobody else holds a lock.
LocksHeld ==
  /\ \A q \in Requests : calls[q].pc = "insert" =>
       /\ calls[q].op = "decline"
       /\ rowLock[calls[q].booking] = q
       /\ VersionMatches(calls[q].booking, calls[q].bk)
  /\ \A b \in Bookings : rowLock[b] # NoRequest =>
       calls[rowLock[b]].pc = "insert" /\ calls[rowLock[b]].booking = b

\* A call answers "ok" about a booking that exists.
SuccessesTyped ==
  \A q \in Requests : Succeeded(calls[q]) =>
    calls[q].pc \in {"publish", "reply"} /\ calls[q].booking \in Bookings

IInv ==
  /\ TInv
  /\ HistoryIsTable
  /\ CopiesAreDerived
  /\ SavesAreFresh
  /\ LocksHeld
  /\ SuccessesTyped
  /\ RepliesAreCommitted

-----------------------------------------------------------------------------
(* The writes of the database. *)

\* A write commits the copy of its call as the next version of the booking,
\* and is one atomic operation on the current row.
LEMMA WriteFacts ==
  ASSUME IInv, NEW q \in Requests,
         SaveRow(calls[q]) \/ UpdateRow(calls[q]) \/ DeclineRows(calls[q])
  PROVE  /\ calls[q].pc \in {"save", "update", "insert"}
         /\ calls[q].booking \in Bookings
         /\ calls[q].bk \in BookingRows
         /\ calls[q].bk.version = Len(history[calls[q].booking]) + 1
         /\ CommitRow(calls[q].booking, calls[q].bk)
         /\ TableStep
<1> DEFINE c == calls[q]
<1> DEFINE b == c.booking
<1> USE DEF IInv, TInv
<1>1. c.pc \in {"save", "update", "insert"} /\ CommitRow(b, c.bk)
  BY DEF SaveRow, UpdateRow, DeclineRows
<1>2. b \in Bookings /\ c.bk \in BookingRows
  BY <1>1 DEF CallsCarry, TypeOK, Calls
<1>3. history[b] \in Seq(BookingRows) /\ bookings[b] \in BookingRows \cup {NoRow}
  BY <1>2 DEF TypeOK
<1>4. CASE SaveRow(c)
  <2>1. c.pc = "save" /\ ~NumberTaken(c.bk.number) /\ UNCHANGED declineReasons
    BY <1>4 DEF SaveRow
  <2>2. bookings[b] = NoRow
    BY <2>1 DEF SavesAreFresh
  <2>3. PICK n \in Numbers, o \in Owners, p \in Prices : c.bk = NewBooking(n, o, p)
    BY <2>1 DEF SavesAreFresh
  <2>4. c.bk.number = n /\ c.bk.version = 1
    BY <2>3 DEF NewBooking
  <2>5. Len(history[b]) = 0
    BY <1>2, <2>2 DEF HistoryIsTable
  <2>6. CreateStep(b)
    BY <1>1, <2>1, <2>2, <2>3, <2>4 DEF CreateStep, NumberTaken, Exists
  <2>7. QED BY <1>1, <1>2, <2>4, <2>5, <2>6 DEF TableStep
<1>5. CASE UpdateRow(c) \/ DeclineRows(c)
  <2>1. c.pc \in {"update", "insert"} /\ VersionMatches(b, c.bk)
    BY <1>5 DEF UpdateRow, DeclineRows, LocksHeld
  <2>2. Derived(c)
    BY <2>1 DEF CopiesAreDerived
  <2>3. bookings[b] # NoRow
    BY <1>2, <2>2 DEF HistoryIsTable, Derived
  <2>4. bookings[b].version = c.bk.version - 1 /\ bookings[b] \in BookingRows
    BY <1>3, <2>1, <2>3 DEF VersionMatches
  <2>5. Len(history[b]) = c.bk.version - 1 /\ history[b][c.bk.version - 1] = bookings[b]
    BY <1>2, <2>3, <2>4 DEF HistoryIsTable
  <2>6. c.bk.version \in Nat
    BY <1>2 DEF BookingRows
  <2>7. declineReasons' = IF c.op = "decline"
                            THEN [declineReasons EXCEPT ![b] = Append(@, c.runner)]
                            ELSE declineReasons
    BY <1>5 DEF UpdateRow, DeclineRows, LocksHeld
  <2>8. OperationStep(b, c.op, c.runner)
    BY <1>1, <2>2, <2>3, <2>5, <2>7 DEF OperationStep, Derived
  <2>9. QED BY <1>1, <1>2, <2>2, <2>5, <2>6, <2>8 DEF TableStep, Derived
<1>6. QED BY <1>4, <1>5

\* A committed version stays where it is.
LEMMA HistoryGrows ==
  ASSUME TypeOK, NEW b \in Bookings, NEW bk \in BookingRows, CommitRow(b, bk)
  PROVE  \A a \in Bookings :
           /\ Len(history[a]) <= Len(history'[a])
           /\ \A v \in 1 .. Len(history[a]) : history'[a][v] = history[a][v]
           /\ a # b => history'[a] = history[a] /\ bookings'[a] = bookings[a]
           /\ a = b => /\ Len(history'[a]) = Len(history[a]) + 1
                       /\ history'[a][Len(history[a]) + 1] = bk
                       /\ bookings'[a] = bk
<1> SUFFICES ASSUME NEW a \in Bookings
             PROVE  /\ Len(history[a]) <= Len(history'[a])
                    /\ \A v \in 1 .. Len(history[a]) : history'[a][v] = history[a][v]
                    /\ a # b => history'[a] = history[a] /\ bookings'[a] = bookings[a]
                    /\ a = b => /\ Len(history'[a]) = Len(history[a]) + 1
                                /\ history'[a][Len(history[a]) + 1] = bk
                                /\ bookings'[a] = bk
  OBVIOUS
<1>1. history[a] \in Seq(BookingRows) /\ bookings \in [Bookings -> BookingRows \cup {NoRow}]
      /\ history \in [Bookings -> Seq(BookingRows)]
  BY DEF TypeOK
<1>2. CASE a = b
  BY <1>1, <1>2 DEF CommitRow
<1>3. CASE a # b
  BY <1>1, <1>3 DEF CommitRow
<1>4. QED BY <1>2, <1>3
-----------------------------------------------------------------------------
(* The invariant is kept. *)

LEMMA InitIInv == Init => IInv
BY InitTInv DEF Init, IInv, HistoryIsTable, CopiesAreDerived, SavesAreFresh,
                LocksHeld, SuccessesTyped, RepliesAreCommitted, Succeeded, Idle

\* A committed version a copy was derived from stays what it is.
LEMMA DerivedStays ==
  ASSUME NEW c, c.booking \in Bookings, Derived(c),
         \A a \in Bookings :
           /\ Len(history[a]) \in Nat /\ Len(history'[a]) \in Nat
           /\ Len(history[a]) <= Len(history'[a])
           /\ \A v \in 1 .. Len(history[a]) : history'[a][v] = history[a][v]
  PROVE  /\ c.op \in Transitions
         /\ c.runner \in Callers(c.op)
         /\ c.bk.version - 1 \in 1 .. Len(history'[c.booking])
         /\ Refusal(c.op, history'[c.booking][c.bk.version - 1], c.runner) = "ok"
         /\ c.bk = Successor(c.op, history'[c.booking][c.bk.version - 1], c.runner)
<1>1. c.bk.version - 1 \in 1 .. Len(history[c.booking])
  BY DEF Derived
<1>2. history'[c.booking][c.bk.version - 1] = history[c.booking][c.bk.version - 1]
  BY <1>1
<1>3. c.bk.version - 1 \in 1 .. Len(history'[c.booking])
  BY <1>1
<1>4. QED BY <1>2, <1>3 DEF Derived

\* A write: the call has become d, which is answered, or announces its copy.
LEMMA WriteIInv ==
  ASSUME IInv, TInv', NEW q \in Requests, NEW d,
         SaveRow(calls[q]) \/ UpdateRow(calls[q]) \/ DeclineRows(calls[q]),
         calls' = [calls EXCEPT ![q] = d],
         d.pc \in {"publish", "reply"},
         Succeeded(d) => d.booking = calls[q].booking /\ d.bk = calls[q].bk
  PROVE  IInv'
<1> DEFINE c == calls[q]
<1> DEFINE b == c.booking
<1> USE DEF IInv
<1>1. /\ c.pc \in {"save", "update", "insert"}
      /\ b \in Bookings
      /\ c.bk \in BookingRows
      /\ c.bk.version = Len(history[b]) + 1
      /\ CommitRow(b, c.bk)
  BY WriteFacts
<1>2. \A a \in Bookings :
        /\ Len(history[a]) \in Nat /\ Len(history'[a]) \in Nat
        /\ Len(history[a]) <= Len(history'[a])
        /\ \A v \in 1 .. Len(history[a]) : history'[a][v] = history[a][v]
  BY <1>1, HistoryGrows DEF TInv, TypeOK
<1>3. /\ \A a \in Bookings \ {b} : history'[a] = history[a] /\ bookings'[a] = bookings[a]
      /\ Len(history'[b]) = c.bk.version
      /\ history'[b][c.bk.version] = c.bk
      /\ bookings'[b] = c.bk
  BY <1>1, HistoryGrows DEF TInv
<1>4. \A x \in Requests \ {q} : calls'[x] = calls[x]
  BY DEF TInv, TypeOK
<1>5. calls'[q] = d
  BY DEF TInv, TypeOK
<1>6. c.bk # NoRow
  BY <1>1, NoRowAssumption
<1>7. \A a \in Bookings : rowLock'[a] = rowLock[a] \/ (a = b /\ rowLock[a] = q /\ rowLock'[a] = NoRequest)
  BY <1>1 DEF SaveRow, UpdateRow, DeclineRows, TInv, TypeOK, LocksHeld
<1>8. HistoryIsTable'
  BY <1>1, <1>3, <1>6 DEF HistoryIsTable
<1>9. CopiesAreDerived'
  <2> SUFFICES ASSUME NEW x \in Requests, calls'[x].pc \in {"update", "insert"}
               PROVE  Derived(calls[x])'
    BY DEF CopiesAreDerived
  <2>1. x # q /\ calls'[x] = calls[x]
    BY <1>4, <1>5
  <2>2. Derived(calls[x]) /\ calls[x].booking \in Bookings
    BY <2>1 DEF CopiesAreDerived, TInv, CallsCarry
  <2>3. QED BY <1>2, <2>1, <2>2, DerivedStays DEF Derived
<1>10. SavesAreFresh'
  <2> SUFFICES ASSUME NEW x \in Requests, calls'[x].pc = "save"
               PROVE  /\ bookings'[calls[x].booking] = NoRow
                      /\ calls'[x] = calls[x]
                      /\ \A y \in Requests :
                           calls'[y].pc = "save" /\ calls'[y].booking = calls[x].booking => y = x
    BY DEF SavesAreFresh
  <2>1. x # q /\ calls'[x] = calls[x]
    BY <1>4, <1>5
  <2>2. /\ calls[x].booking \in Bookings /\ bookings[calls[x].booking] = NoRow
    BY <2>1 DEF SavesAreFresh, TInv, CallsCarry
  <2>3. calls[x].booking # b
    <3>1. CASE c.pc = "save"
      BY <2>1, <3>1 DEF SavesAreFresh
    <3>2. CASE c.pc \in {"update", "insert"}
      BY <1>1, <2>2, <3>2 DEF CopiesAreDerived, Derived, HistoryIsTable
    <3>3. QED BY <1>1, <3>1, <3>2
  <2>4. QED BY <1>3, <1>4, <1>5, <2>1, <2>2, <2>3 DEF SavesAreFresh
<1>11. LocksHeld'
  <2>1. ASSUME NEW x \in Requests, calls'[x].pc = "insert"
        PROVE  /\ calls'[x].op = "decline"
               /\ rowLock'[calls'[x].booking] = x
               /\ bookings'[calls'[x].booking].version = calls'[x].bk.version - 1
    <3>1. x # q /\ calls'[x] = calls[x]
      BY <1>4, <1>5, <2>1
    <3>2. /\ calls[x].booking \in Bookings /\ rowLock[calls[x].booking] = x
          /\ calls[x].op = "decline"
          /\ bookings[calls[x].booking].version = calls[x].bk.version - 1
      BY <2>1, <3>1 DEF LocksHeld, TInv, CallsCarry, VersionMatches
    <3>3. x # NoRequest
      BY NoRequestAssumption
    <3>4. calls[x].booking # b
      <4>1. CASE SaveRow(c)
        BY <1>1, <2>1, <3>1, <4>1 DEF SaveRow, SavesAreFresh, CopiesAreDerived, Derived,
                                      HistoryIsTable
      <4>2. CASE UpdateRow(c)
        BY <3>2, <3>3, <4>2 DEF UpdateRow
      <4>3. CASE DeclineRows(c)
        BY <3>1, <3>2, <4>3 DEF DeclineRows, LocksHeld
      <4>4. QED BY <4>1, <4>2, <4>3
    <3>5. QED BY <1>3, <1>7, <3>1, <3>2, <3>4
  <2>2. ASSUME NEW a \in Bookings, rowLock'[a] # NoRequest
        PROVE  calls'[rowLock'[a]].pc = "insert" /\ calls'[rowLock'[a]].booking = a
    <3>1. rowLock'[a] = rowLock[a] /\ rowLock[a] \in Requests
      BY <1>7, <2>2 DEF TInv, TypeOK
    <3>2. calls[rowLock[a]].pc = "insert" /\ calls[rowLock[a]].booking = a
      BY <2>2, <3>1 DEF LocksHeld
    <3>3. rowLock[a] # q
      BY <1>1, <2>2, <3>1, <3>2 DEF SaveRow, UpdateRow, DeclineRows, TInv, TypeOK
    <3>4. QED BY <1>4, <3>1, <3>2, <3>3
  <2>3. QED BY <2>1, <2>2 DEF LocksHeld, VersionMatches
<1>12. SuccessesTyped' /\ RepliesAreCommitted'
  <2> SUFFICES ASSUME NEW x \in Requests, Succeeded(calls'[x])
               PROVE  /\ calls'[x].pc \in {"publish", "reply"}
                      /\ calls'[x].booking \in Bookings
                      /\ calls'[x].bk.version \in 1 .. Len(history'[calls'[x].booking])
                      /\ history'[calls'[x].booking][calls'[x].bk.version] = calls'[x].bk
    BY DEF SuccessesTyped, RepliesAreCommitted, Succeeded
  <2>1. CASE x = q
    <3>1. c.bk.version \in Nat \ {0}
      BY <1>1 DEF BookingRows
    <3>2. QED BY <1>1, <1>3, <1>5, <2>1, <3>1
  <2>2. CASE x # q
    <3>1. calls'[x] = calls[x]
      BY <1>4, <2>2
    <3>2. /\ calls[x].pc \in {"publish", "reply"}
          /\ calls[x].booking \in Bookings
          /\ calls[x].bk.version \in 1 .. Len(history[calls[x].booking])
          /\ history[calls[x].booking][calls[x].bk.version] = calls[x].bk
      BY <3>1 DEF SuccessesTyped, RepliesAreCommitted
    <3>3. QED BY <1>2, <3>1, <3>2
  <2>3. QED BY <2>1, <2>2
<1>13. QED BY <1>8, <1>9, <1>10, <1>11, <1>12
\* A step that writes nothing: the call has become d, at most a lock of the
\* call is let go, and d is answered "ok" only if it had already succeeded.
LEMMA QuietIInv ==
  ASSUME IInv, TInv', NEW q \in Requests, NEW d,
         UNCHANGED <<bookings, history>>,
         rowLock' = LocksWithout(q),
         calls' = [calls EXCEPT ![q] = d],
         d.pc \in {"idle", "publish", "reply"},
         Succeeded(d) => /\ Succeeded(calls[q]) /\ d.pc \in {"publish", "reply"}
                         /\ d.booking = calls[q].booking /\ d.bk = calls[q].bk
  PROVE  IInv'
<1> USE DEF IInv
<1>1. \A x \in Requests \ {q} : calls'[x] = calls[x]
  BY DEF TInv, TypeOK
<1>2. calls'[q] = d
  BY DEF TInv, TypeOK
<1>3. HistoryIsTable'
  BY DEF HistoryIsTable
<1>4. CopiesAreDerived'
  BY <1>1, <1>2 DEF CopiesAreDerived, Derived
<1>5. SavesAreFresh'
  BY <1>1, <1>2 DEF SavesAreFresh
<1>6. LocksHeld'
  <2>1. ASSUME NEW x \in Requests, calls'[x].pc = "insert"
        PROVE  /\ calls'[x].op = "decline"
               /\ rowLock'[calls'[x].booking] = x
               /\ bookings'[calls'[x].booking].version = calls'[x].bk.version - 1
    <3>1. x # q /\ calls'[x] = calls[x]
      BY <1>1, <1>2, <2>1
    <3>2. /\ calls[x].booking \in Bookings /\ rowLock[calls[x].booking] = x
          /\ calls[x].op = "decline"
          /\ bookings[calls[x].booking].version = calls[x].bk.version - 1
      BY <2>1, <3>1 DEF LocksHeld, TInv, CallsCarry, VersionMatches
    <3>3. QED BY <3>1, <3>2 DEF LocksWithout
  <2>2. ASSUME NEW a \in Bookings, rowLock'[a] # NoRequest
        PROVE  calls'[rowLock'[a]].pc = "insert" /\ calls'[rowLock'[a]].booking = a
    <3>1. rowLock'[a] = rowLock[a] /\ rowLock[a] \in Requests \ {q}
      BY <2>2 DEF LocksWithout, TInv, TypeOK
    <3>2. QED BY <1>1, <2>2, <3>1 DEF LocksHeld
  <2>3. QED BY <2>1, <2>2 DEF LocksHeld, VersionMatches
<1>7. SuccessesTyped' /\ RepliesAreCommitted'
  BY <1>1, <1>2 DEF SuccessesTyped, RepliesAreCommitted
<1>8. QED BY <1>3, <1>4, <1>5, <1>6, <1>7

\* A call outside a transaction holds no lock.
LEMMA NoLockToLetGo ==
  ASSUME IInv, NEW q \in Requests, calls[q].pc # "insert"
  PROVE  LocksWithout(q) = rowLock
<1>1. \A b \in Bookings : rowLock[b] # q
  BY NoRequestAssumption DEF IInv, LocksHeld
<1>2. QED BY <1>1 DEF LocksWithout, IInv, TInv, TypeOK

\* A call arrives.
LEMMA ArriveIInv ==
  ASSUME IInv, TInv', NEW q \in Requests, Arrive(q)
  PROVE  IInv'
<1> USE DEF IInv
<1>1. calls[q] = Idle /\ UNCHANGED <<tables, topic>>
  BY ArriveCases DEF TInv
<1>2. UNCHANGED <<bookings, history, rowLock>>
  BY <1>1 DEF tables
<1>3. \A x \in Requests \ {q} : \A d : calls' = [calls EXCEPT ![q] = d] => calls'[x] = calls[x]
  BY DEF TInv, TypeOK
<1>4. \A d : calls' = [calls EXCEPT ![q] = d] => calls'[q] = d
  BY DEF TInv, TypeOK
<1>5. CASE \E reason \in Refusals : calls' = [calls EXCEPT ![q] = Refused(reason)]
  <2>1. PICK reason \in Refusals : calls' = [calls EXCEPT ![q] = Refused(reason)]
    BY <1>5
  <2>2. Refused(reason).pc = "reply" /\ ~Succeeded(Refused(reason))
    BY DEF Refused, Idle, Succeeded, Refusals
  <2>3. rowLock' = LocksWithout(q)
    BY <1>1, <1>2, NoLockToLetGo DEF Idle
  <2>4. QED BY <1>2, <2>1, <2>2, <2>3, QuietIInv
<1>6. ASSUME NEW op \in Transitions, NEW b \in Bookings, NEW r \in Callers(op),
             bookings[b] # NoRow, Refusal(op, bookings[b], r) = "ok",
             calls' = [calls EXCEPT ![q] =
                         Updating(op, b, r, Successor(op, bookings[b], r))]
      PROVE  IInv'
  <2> DEFINE d == Updating(op, b, r, Successor(op, bookings[b], r))
  <2>1. /\ d.pc = "update" /\ d.op = op /\ d.booking = b /\ d.runner = r
        /\ d.bk = Successor(op, bookings[b], r) /\ ~Succeeded(d)
    BY DEF Updating, Succeeded
  <2>2. bookings[b] \in BookingRows
    BY <1>6 DEF TInv, TypeOK
  <2>3. d.bk.version = bookings[b].version + 1
    <3>1. Apply(op, bookings[b], r) \in BookingRows
      BY <2>2, ApplyType
    <3>2. Apply(op, bookings[b], r).version = bookings[b].version
      BY <2>2, ApplyVersion
    <3>3. QED BY <2>1, <3>1, <3>2 DEF Successor, IncrementVersion, BookingRows
  <2>4. Len(history[b]) = bookings[b].version /\ history[b][Len(history[b])] = bookings[b]
    BY <1>6 DEF HistoryIsTable
  <2>5. bookings[b].version \in Nat \ {0}
    BY <2>2 DEF BookingRows
  <2> HIDE DEF d
  <2>6. calls'[q] = d
    BY <1>4, <1>6 DEF d
  <2>7. \A x \in Requests \ {q} : calls'[x] = calls[x]
    BY <1>3, <1>6
  <2>8. Derived(d)
    BY <1>6, <2>1, <2>3, <2>4, <2>5 DEF Derived
  <2>9. HistoryIsTable'
    BY <1>2 DEF HistoryIsTable
  <2>10. CopiesAreDerived'
    <3> SUFFICES ASSUME NEW x \in Requests, calls'[x].pc \in {"update", "insert"}
                 PROVE  Derived(calls'[x])
      BY <1>2 DEF CopiesAreDerived, Derived
    <3>1. QED BY <2>6, <2>7, <2>8 DEF CopiesAreDerived
  <2>11. SavesAreFresh'
    BY <1>2, <2>1, <2>6, <2>7 DEF SavesAreFresh
  <2>12. LocksHeld'
    <3>1. \A a \in Bookings : rowLock[a] # q
      BY <1>1, NoRequestAssumption DEF LocksHeld, Idle
    <3>2. \A a \in Bookings : rowLock[a] # NoRequest => rowLock[a] \in Requests \ {q}
      BY <3>1 DEF TInv, TypeOK
    <3>3. QED BY <1>2, <2>1, <2>6, <2>7, <3>2 DEF LocksHeld, VersionMatches
  <2>13. SuccessesTyped' /\ RepliesAreCommitted'
    BY <1>2, <2>1, <2>6, <2>7 DEF SuccessesTyped, RepliesAreCommitted
  <2>14. QED BY <2>9, <2>10, <2>11, <2>12, <2>13
<1>7. ASSUME NEW b \in Bookings, NEW n \in Numbers, NEW o \in Owners, NEW p \in Prices,
             FreshId(b), calls' = [calls EXCEPT ![q] = Saving(b, NewBooking(n, o, p))]
      PROVE  IInv'
  <2> DEFINE d == Saving(b, NewBooking(n, o, p))
  <2>1. /\ d.pc = "save" /\ d.op = "create" /\ d.booking = b
        /\ d.bk = NewBooking(n, o, p) /\ ~Succeeded(d)
    BY DEF Saving, Succeeded
  <2> HIDE DEF d
  <2>2. calls'[q] = d
    BY <1>4, <1>7 DEF d
  <2>3. \A x \in Requests \ {q} : calls'[x] = calls[x]
    BY <1>3, <1>7
  <2>4. HistoryIsTable'
    BY <1>2 DEF HistoryIsTable
  <2>5. CopiesAreDerived'
    BY <1>2, <2>1, <2>2, <2>3 DEF CopiesAreDerived, Derived
  <2>6. SavesAreFresh'
    <3>1. bookings[b] = NoRow
          /\ \A x \in Requests : calls[x].pc = "save" => calls[x].booking # b
      BY <1>7 DEF FreshId
    <3>2. ASSUME NEW x \in Requests, calls'[x].pc = "save"
          PROVE  /\ bookings'[calls'[x].booking] = NoRow
                 /\ calls'[x].op = "create"
                 /\ \E n2 \in Numbers, o2 \in Owners, p2 \in Prices :
                      calls'[x].bk = NewBooking(n2, o2, p2)
                 /\ \A y \in Requests :
                      calls'[y].pc = "save" /\ calls'[y].booking = calls'[x].booking => y = x
      <4>1. CASE x = q
        BY <1>2, <2>1, <2>2, <2>3, <3>1, <4>1
      <4>2. CASE x # q
        BY <1>2, <2>1, <2>2, <2>3, <3>1, <3>2, <4>2 DEF SavesAreFresh
      <4>3. QED BY <4>1, <4>2
    <3>3. QED BY <3>2 DEF SavesAreFresh
  <2>7. LocksHeld'
    <3>1. \A a \in Bookings : rowLock[a] # q
      BY <1>1, NoRequestAssumption DEF LocksHeld, Idle
    <3>2. \A a \in Bookings : rowLock[a] # NoRequest => rowLock[a] \in Requests \ {q}
      BY <3>1 DEF TInv, TypeOK
    <3>3. QED BY <1>2, <2>1, <2>2, <2>3, <3>2 DEF LocksHeld, VersionMatches
  <2>8. SuccessesTyped' /\ RepliesAreCommitted'
    BY <1>2, <2>1, <2>2, <2>3 DEF SuccessesTyped, RepliesAreCommitted
  <2>9. QED BY <2>4, <2>5, <2>6, <2>7, <2>8
<1>8. QED BY <1>5, <1>6, <1>7, ArriveCases DEF TInv

\* A decline updates its row in its transaction and keeps it locked.
LEMMA LockIInv ==
  ASSUME IInv, TInv', NEW q \in Requests, UpdateInTransaction(q)
  PROVE  IInv'
<1> DEFINE c == calls[q]
<1> DEFINE b == c.booking
<1> DEFINE d == [c EXCEPT !.pc = "insert"]
<1> USE DEF IInv
<1>1. /\ c.pc = "update" /\ c.op = "decline"
      /\ VersionMatches(b, c.bk)
      /\ rowLock[b] = NoRequest
      /\ rowLock' = [rowLock EXCEPT ![b] = q]
      /\ calls' = [calls EXCEPT ![q] = d]
      /\ UNCHANGED <<bookings, history>>
  BY DEF UpdateInTransaction
<1>2. b \in Bookings /\ c \in Calls
  BY <1>1 DEF TInv, TypeOK, CallsCarry
<1>3. /\ d.pc = "insert" /\ d.op = "decline" /\ d.booking = b /\ d.bk = c.bk
      /\ d.runner = c.runner /\ d.reply = c.reply
  BY <1>1, <1>2 DEF Calls
<1>4. Derived(c)
  BY <1>1 DEF CopiesAreDerived
<1>5. ~Succeeded(c) /\ ~Succeeded(d)
  BY <1>1, <1>3 DEF SuccessesTyped, Succeeded
<1> HIDE DEF d
<1>6. calls'[q] = d /\ \A x \in Requests \ {q} : calls'[x] = calls[x]
  BY <1>1 DEF TInv, TypeOK
<1>7. HistoryIsTable'
  BY <1>1 DEF HistoryIsTable
<1>8. CopiesAreDerived'
  <2> SUFFICES ASSUME NEW x \in Requests, calls'[x].pc \in {"update", "insert"}
               PROVE  Derived(calls'[x])
    BY <1>1 DEF CopiesAreDerived, Derived
  <2>1. Derived(d)
    BY <1>1, <1>3, <1>4 DEF Derived
  <2>2. CASE x = q
    BY <1>6, <2>1, <2>2
  <2>3. CASE x # q
    BY <1>6, <2>3 DEF CopiesAreDerived
  <2>4. QED BY <2>2, <2>3
<1>9. SavesAreFresh'
  BY <1>1, <1>3, <1>6 DEF SavesAreFresh
<1>10. LocksHeld'
  <2>1. ASSUME NEW x \in Requests, calls'[x].pc = "insert"
        PROVE  /\ calls'[x].op = "decline"
               /\ rowLock'[calls'[x].booking] = x
               /\ bookings'[calls'[x].booking].version = calls'[x].bk.version - 1
    <3>1. CASE x = q
      BY <1>1, <1>2, <1>3, <1>6, <3>1 DEF VersionMatches, TInv, TypeOK
    <3>2. CASE x # q
      <4>1. calls'[x] = calls[x]
        BY <1>6, <3>2
      <4>2. /\ calls[x].booking \in Bookings /\ rowLock[calls[x].booking] = x
            /\ calls[x].op = "decline"
            /\ bookings[calls[x].booking].version = calls[x].bk.version - 1
        BY <2>1, <4>1 DEF LocksHeld, TInv, CallsCarry, VersionMatches
      <4>3. calls[x].booking # b
        BY <1>1, <4>2, NoRequestAssumption
      <4>4. QED BY <1>1, <4>1, <4>2, <4>3 DEF TInv, TypeOK
    <3>3. QED BY <3>1, <3>2
  <2>2. ASSUME NEW a \in Bookings, rowLock'[a] # NoRequest
        PROVE  calls'[rowLock'[a]].pc = "insert" /\ calls'[rowLock'[a]].booking = a
    <3>1. CASE a = b
      BY <1>1, <1>2, <1>3, <1>6, <3>1 DEF TInv, TypeOK
    <3>2. CASE a # b
      <4>1. rowLock'[a] = rowLock[a] /\ rowLock[a] \in Requests
        BY <1>1, <2>2, <3>2 DEF TInv, TypeOK
      <4>2. calls[rowLock[a]].pc = "insert" /\ calls[rowLock[a]].booking = a
        BY <2>2, <4>1 DEF LocksHeld
      <4>3. rowLock[a] # q
        BY <1>1, <4>2
      <4>4. QED BY <1>6, <4>1, <4>2, <4>3
    <3>3. QED BY <3>1, <3>2
  <2>3. QED BY <2>1, <2>2 DEF LocksHeld, VersionMatches
<1>11. SuccessesTyped' /\ RepliesAreCommitted'
  BY <1>1, <1>5, <1>6 DEF SuccessesTyped, RepliesAreCommitted
<1>12. QED BY <1>7, <1>8, <1>9, <1>10, <1>11

\* A call goes on.
LEMMA ContinueIInv ==
  ASSUME IInv, TInv', NEW q \in Requests, Continue(q)
  PROVE  IInv'
<1> DEFINE c == calls[q]
<1>1. c \in Calls /\ (Succeeded(c) => c.pc \in {"publish", "reply"})
  BY DEF IInv, TInv, TypeOK, SuccessesTyped
<1>2. /\ Committed(c).pc = "publish" /\ Committed(c).booking = c.booking
      /\ Committed(c).bk = c.bk
  BY <1>1 DEF Committed, Calls
<1>3. /\ Answered(c).pc = "reply" /\ Answered(c).booking = c.booking
      /\ Answered(c).bk = c.bk
  BY <1>1 DEF Answered, Calls
<1>4. /\ \A reason \in Refusals : Refused(reason).pc = "reply" /\ ~Succeeded(Refused(reason))
      /\ Idle.pc = "idle" /\ ~Succeeded(Idle)
      /\ "error" \in Refusals /\ "conflict" \in Refusals
  BY DEF Refused, Idle, Succeeded, Refusals
<1>5. CASE Save(q) \/ Update(q)
  BY <1>2, <1>5, WriteIInv DEF Save, Update
<1>6. CASE CommitDecline(q)
  BY <1>3, <1>6, WriteIInv DEF CommitDecline
<1>7. CASE CommitUnseen(q)
  BY <1>4, <1>7, WriteIInv DEF CommitUnseen
<1>8. CASE UpdateInTransaction(q)
  BY <1>8, LockIInv
<1>9. CASE StatementFails(q)
  BY <1>4, <1>9, QuietIInv DEF StatementFails
<1>10. CASE NumberCollides(q) \/ Conflict(q) \/ Respond(q)
  <2>1. c.pc # "insert" /\ UNCHANGED tables
    BY <1>10 DEF NumberCollides, Conflict, Respond
  <2>2. UNCHANGED <<bookings, history>> /\ rowLock' = LocksWithout(q)
    BY <2>1, NoLockToLetGo DEF tables
  <2>3. QED BY <1>4, <1>10, <2>2, QuietIInv DEF NumberCollides, Conflict, Respond
<1>11. CASE Publish(q) \/ PublishFails(q)
  <2>1. c.pc = "publish" /\ UNCHANGED tables /\ calls' = [calls EXCEPT ![q] = Answered(c)]
    BY <1>11 DEF Publish, PublishFails
  <2>2. UNCHANGED <<bookings, history>> /\ rowLock' = LocksWithout(q)
    BY <2>1, NoLockToLetGo DEF tables
  <2>3. Succeeded(c)
    BY <2>1 DEF Succeeded
  <2>4. QED BY <1>3, <2>1, <2>2, <2>3, QuietIInv
<1>12. QED BY <1>5, <1>6, <1>7, <1>8, <1>9, <1>10, <1>11 DEF Continue, Work, Progress, Failure

\* A crash leaves the tables as committed, and no call and no lock.
LEMMA CrashIInv ==
  ASSUME IInv, TInv', Crash
  PROVE  IInv'
<1>1. /\ UNCHANGED <<bookings, history>>
      /\ \A q \in Requests : calls'[q] = Idle
      /\ \A b \in Bookings : rowLock'[b] = NoRequest
  BY DEF Crash
<1>2. Idle.pc = "idle" /\ ~Succeeded(Idle)
  BY DEF Idle, Succeeded
<1>3. QED BY <1>1, <1>2 DEF IInv, HistoryIsTable, CopiesAreDerived, SavesAreFresh,
                            LocksHeld, SuccessesTyped, RepliesAreCommitted

\* Every step keeps the invariant.
LEMMA NextIInv == IInv /\ [Next]_vars => IInv'
<1> SUFFICES ASSUME IInv, [Next]_vars PROVE IInv'
  OBVIOUS
<1>1. TInv'
  BY NextTInv DEF IInv
<1>2. CASE UNCHANGED vars
  BY <1>1, <1>2 DEF IInv, vars, HistoryIsTable, CopiesAreDerived, Derived, SavesAreFresh,
                    LocksHeld, VersionMatches, SuccessesTyped, RepliesAreCommitted
<1>3. CASE Crash
  BY <1>1, <1>3, CrashIInv
<1>4. ASSUME NEW q \in Requests, Arrive(q) \/ Continue(q)
      PROVE  IInv'
  BY <1>1, <1>4, ArriveIInv, ContinueIInv
<1>5. QED BY <1>2, <1>3, <1>4 DEF Next

\* What a call in progress knows of the tables stays true whatever the other
\* calls do and whatever fails.
THEOREM InvariantHolds == Spec => []IInv
<1>1. QED BY InitIInv, NextIInv, PTL DEF Spec

-----------------------------------------------------------------------------
(* The theorems. *)

\* Every step changes the tables by one atomic operation or not at all.
LEMMA NextTableStep == IInv /\ [Next]_vars => TableStep
<1> SUFFICES ASSUME IInv, [Next]_vars PROVE TableStep
  OBVIOUS
<1>1. CASE UNCHANGED vars \/ Crash
  BY <1>1 DEF TableStep, vars, Crash
<1>2. ASSUME NEW q \in Requests, Arrive(q)
      PROVE  TableStep
  <2>1. UNCHANGED tables
    BY <1>2, ArriveCases DEF IInv, TInv
  <2>2. QED BY <2>1 DEF TableStep, tables
<1>3. ASSUME NEW q \in Requests, Continue(q)
      PROVE  TableStep
  <2>1. CASE SaveRow(calls[q]) \/ UpdateRow(calls[q]) \/ DeclineRows(calls[q])
    BY <2>1, WriteFacts
  <2>2. CASE UNCHANGED <<bookings, declineReasons, history>>
    BY <2>2 DEF TableStep
  <2>3. QED BY <1>3, <2>1, <2>2 DEF Continue, Work, Progress, Failure, Save, NumberCollides, Update, Conflict,
              UpdateInTransaction, CommitDecline, Publish, StatementFails, CommitUnseen,
              PublishFails, Respond, tables
<1>4. QED BY <1>1, <1>2, <1>3 DEF Next

\* StepsAreAtomic: the service is serializable, whatever its calls read and
\* whenever they read it.
THEOREM AtomicSteps == Spec => StepsAreAtomic
<1>1. IInv /\ [Next]_vars => [TableStep]_vars
  BY NextTableStep
<1>2. QED BY <1>1, InvariantHolds, PTL DEF Spec, StepsAreAtomic

\* RepliesAreCommitted: a successful call answers with a committed version.
THEOREM CommittedReplies == Spec => []RepliesAreCommitted
<1>1. IInv => RepliesAreCommitted
  BY DEF IInv
<1>2. QED BY <1>1, InvariantHolds, PTL

\* LocksAreOwned: only a decline in its transaction holds a row.
THEOREM OwnedLocks == Spec => []LocksAreOwned
<1>1. IInv => LocksAreOwned
  <2> SUFFICES ASSUME IInv, NEW b \in Bookings, rowLock[b] # NoRequest
               PROVE  /\ calls[rowLock[b]].pc = "insert"
                      /\ calls[rowLock[b]].booking = b
                      /\ bookings[b].version = calls[rowLock[b]].bk.version - 1
    BY DEF LocksAreOwned
  <2>1. rowLock[b] \in Requests
    BY DEF IInv, TInv, TypeOK
  <2>2. QED BY <2>1 DEF IInv, LocksHeld, VersionMatches
<1>2. QED BY <1>1, InvariantHolds, PTL

\* WaitsAreShort: a call waits only for a decline that waits for nobody, and
\* with the version it read already spoken for.
THEOREM NobodyDeadlocks == Spec => []WaitsAreShort
<1>1. IInv => WaitsAreShort
  <2> SUFFICES ASSUME IInv, NEW q \in Requests, Waits(q)
               PROVE  LET h == rowLock[calls[q].booking] IN
                      /\ h \in Requests \ {q}
                      /\ ~Waits(h)
                      /\ calls[h].pc = "insert" /\ calls[h].op = "decline"
                      /\ calls[h].booking = calls[q].booking
                      /\ calls[h].bk.version = calls[q].bk.version
    BY DEF WaitsAreShort
  <2> DEFINE b == calls[q].booking
  <2> DEFINE h == rowLock[b]
  <2>1. calls[q].pc = "update" /\ VersionMatches(b, calls[q].bk) /\ h # NoRequest
    BY DEF Waits
  <2>2. b \in Bookings /\ calls[q].bk \in BookingRows
    BY <2>1 DEF IInv, TInv, TypeOK, CallsCarry, Calls
  <2>3. h \in Requests /\ calls[h].pc = "insert" /\ calls[h].booking = b
    BY <2>1, <2>2 DEF IInv, TInv, TypeOK, LocksHeld
  <2>4. calls[h].op = "decline" /\ VersionMatches(b, calls[h].bk)
    BY <2>3 DEF IInv, LocksHeld
  <2>5. calls[h].bk \in BookingRows
    BY <2>3 DEF IInv, TInv, TypeOK, CallsCarry, Calls
  <2>6. calls[h].bk.version = calls[q].bk.version
    BY <2>1, <2>2, <2>4, <2>5 DEF VersionMatches, BookingRows
  <2> QED BY <2>1, <2>3, <2>4, <2>6 DEF Waits
<1>2. QED BY <1>1, InvariantHolds, PTL

\* CallsMoveOn: every call is at most three steps from its answer, and every
\* step that is its own, and every failure, brings it nearer.
THEOREM CallsShorten == Spec => CallsMoveOn
<1>1. TypeOK /\ [Next]_vars =>
        [\A q \in Requests : calls[q].pc # "idle" /\ calls'[q] # calls[q] =>
           StepsLeft(calls'[q]) < StepsLeft(calls[q])]_vars
  <2> SUFFICES ASSUME TypeOK, Next, NEW x \in Requests, calls[x].pc # "idle", calls'[x] # calls[x]
               PROVE  StepsLeft(calls'[x]) < StepsLeft(calls[x])
    OBVIOUS
  <2>1. calls \in [Requests -> Calls]
    BY DEF TypeOK
  <2>2. /\ StepsLeft(Idle) = 0
        /\ \A reason : StepsLeft(Refused(reason)) = 1
        /\ StepsLeft(Committed(calls[x])) = 2
        /\ StepsLeft(Answered(calls[x])) = 1
        /\ StepsLeft([calls[x] EXCEPT !.pc = "insert"]) = 2
    BY <2>1 DEF StepsLeft, Idle, Refused, Committed, Answered, Calls
  <2>3. CASE Crash
    <3>1. calls'[x] = Idle
      BY <2>3 DEF Crash
    <3>2. StepsLeft(calls[x]) > 0
      BY <2>1 DEF StepsLeft, Calls
    <3> QED BY <2>2, <3>1, <3>2
  <2>4. ASSUME NEW q \in Requests, Arrive(q)
        PROVE  FALSE
    <3>1. calls[q] = Idle /\ \E d : calls' = [calls EXCEPT ![q] = d]
      BY <2>4, ArriveCases
    <3>2. calls[q].pc = "idle"
      BY <3>1 DEF Idle
    <3> QED BY <2>1, <3>1, <3>2
  <2>5. ASSUME NEW q \in Requests, Continue(q)
        PROVE  StepsLeft(calls'[x]) < StepsLeft(calls[x])
    <3> DEFINE c == calls[x]
    <3>1. \E d : calls' = [calls EXCEPT ![q] = d]
      BY <2>5 DEF Continue, Work, Progress, Failure, Save, NumberCollides, Update, Conflict,
           UpdateInTransaction, CommitDecline, Publish, StatementFails, CommitUnseen,
           PublishFails, Respond
    <3>2. x = q
      BY <2>1, <3>1
    <3>3. CASE Save(q) \/ Update(q)
      <4>1. StepsLeft(c) = 3 /\ calls'[x] = Committed(c)
        BY <2>1, <3>2, <3>3 DEF Save, SaveRow, Update, UpdateRow, StepsLeft
      <4> QED BY <2>2, <4>1
    <3>4. CASE NumberCollides(q) \/ Conflict(q) \/ StatementFails(q) \/ CommitUnseen(q)
      <4>1. c.pc \in {"save", "update", "insert"} /\ \E reason : calls'[x] = Refused(reason)
        BY <2>1, <3>2, <3>4 DEF NumberCollides, Conflict, StatementFails, CommitUnseen,
             SaveRow, UpdateRow, DeclineRows
      <4>2. StepsLeft(c) \in {2, 3}
        BY <4>1 DEF StepsLeft
      <4> QED BY <2>2, <4>1, <4>2
    <3>5. CASE UpdateInTransaction(q)
      <4>1. StepsLeft(c) = 3 /\ calls'[x] = [c EXCEPT !.pc = "insert"]
        BY <2>1, <3>2, <3>5 DEF UpdateInTransaction, StepsLeft
      <4> QED BY <2>2, <4>1
    <3>6. CASE CommitDecline(q) \/ Publish(q) \/ PublishFails(q)
      <4>1. StepsLeft(c) = 2 /\ calls'[x] = Answered(c)
        BY <2>1, <3>2, <3>6 DEF CommitDecline, DeclineRows, Publish, PublishFails, StepsLeft
      <4> QED BY <2>2, <4>1
    <3>7. CASE Respond(q)
      <4>1. StepsLeft(c) = 1 /\ calls'[x] = Idle
        BY <2>1, <3>2, <3>7 DEF Respond, StepsLeft
      <4> QED BY <2>2, <4>1
    <3> QED BY <2>5, <3>3, <3>4, <3>5, <3>6, <3>7 DEF Continue, Work, Progress, Failure
  <2> QED BY <2>3, <2>4, <2>5 DEF Next
<1>2. QED BY <1>1, TypeCorrect, PTL DEF Spec, CallsMoveOn

=============================================================================
