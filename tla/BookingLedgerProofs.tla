-------------------------- MODULE BookingLedgerProofs --------------------------
(***************************************************************************)
(* What the bookings table stores, for every value of the constants.  Since *)
(* every step of the service is one atomic operation on the current row or  *)
(* leaves the tables alone (NextTableStep), it is enough to look at what a  *)
(* permitted operation makes of a row.                                      *)
(***************************************************************************)
EXTENDS BookingSafetyProofs

-----------------------------------------------------------------------------
(* One operation on one row. *)

\* An operation that is not refused follows the table of transitions, and a
\* decline comes from the runner of an accepted booking.
LEMMA PermittedMeans ==
  ASSUME NEW op \in Transitions, NEW bk \in BookingRows, NEW r,
         Refusal(op, bk, r) = "ok"
  PROVE  /\ Target(op) \in validTransitions[bk.status]
         /\ op = "decline" => bk.runner = r /\ bk.status = StatusAccepted
BY DEF Refusal, CanTransitionTo

\* The statuses each operation starts from (booking_status.go:18-25).
LEMMA Sources ==
  ASSUME NEW op \in Transitions, NEW s \in Statuses, Target(op) \in validTransitions[s]
  PROVE  /\ op = "accept"   => s = StatusRequested
         /\ op = "pickup"   => s = StatusAccepted
         /\ op = "deliver"  => s = StatusInProgress
         /\ op = "complete" => s = StatusDelivered
         /\ op = "cancel"   => s \in {StatusRequested, StatusAccepted, StatusInProgress}
         /\ op = "decline"  => s = StatusAccepted
BY DEF Transitions, Target, validTransitions, Statuses, StatusRequested, StatusAccepted,
       StatusInProgress, StatusDelivered, StatusCompleted, StatusCancelled

\* The fields of the row a call writes.
LEMMA SuccessorFields ==
  ASSUME NEW op \in Transitions, NEW bk \in BookingRows, NEW r \in Callers(op)
  PROVE  LET new == Successor(op, bk, r) IN
         /\ new \in BookingRows
         /\ new.version = bk.version + 1
         /\ new.number = bk.number
         /\ new.estimatedPrice = bk.estimatedPrice
         /\ new.owner = bk.owner
         /\ new.status = Target(op)
         /\ new.runner = IF op = "accept" THEN r
                         ELSE IF op = "decline" THEN NoRunner ELSE bk.runner
         /\ new.pickedUp = (bk.pickedUp \/ op = "pickup")
         /\ new.delivered = (bk.delivered \/ op = "deliver")
         /\ new.cancelled = (bk.cancelled \/ op = "cancel")
         /\ new.finalPrice = IF op = "complete" THEN bk.estimatedPrice ELSE bk.finalPrice
<1> DEFINE new == Apply(op, bk, r)
<1>1. new \in BookingRows
  BY ApplyType
<1>2. /\ new.version = bk.version
      /\ new.number = bk.number
      /\ new.estimatedPrice = bk.estimatedPrice
  BY ApplyVersion
<1>3. /\ new.status = Target(op)
      /\ new.owner = bk.owner
      /\ new.runner = IF op = "accept" THEN r
                      ELSE IF op = "decline" THEN NoRunner ELSE bk.runner
      /\ new.pickedUp = (bk.pickedUp \/ op = "pickup")
      /\ new.delivered = (bk.delivered \/ op = "deliver")
      /\ new.cancelled = (bk.cancelled \/ op = "cancel")
      /\ new.finalPrice = IF op = "complete" THEN bk.estimatedPrice ELSE bk.finalPrice
  BY DEF Apply, Target, Transitions, Accept, StartDelivery, ConfirmDelivery, Complete,
         Cancel, Decline, BookingRows
<1> HIDE DEF new
<1>4. Successor(op, bk, r) = IncrementVersion(new)
  BY DEF Successor, new
<1>5. QED BY <1>1, <1>2, <1>3, <1>4, IncrementVersionType DEF IncrementVersion, BookingRows

\* A permitted operation keeps the status and the milestones in agreement.
LEMMA MilestonesStay ==
  ASSUME NEW op \in Transitions, NEW bk \in BookingRows, NEW r \in Callers(op),
         Refusal(op, bk, r) = "ok", MilestonesAgree(bk)
  PROVE  MilestonesAgree(Successor(op, bk, r))
<1> DEFINE new == Successor(op, bk, r)
<1>1. /\ Target(op) \in validTransitions[bk.status] /\ bk.status \in Statuses
      /\ bk.pickedUp \in BOOLEAN /\ bk.delivered \in BOOLEAN /\ bk.cancelled \in BOOLEAN
  BY PermittedMeans DEF BookingRows
<1>2. /\ op = "accept"   => bk.status = StatusRequested
      /\ op = "pickup"   => bk.status = StatusAccepted
      /\ op = "deliver"  => bk.status = StatusInProgress
      /\ op = "complete" => bk.status = StatusDelivered
      /\ op = "cancel"   => bk.status \in {StatusRequested, StatusAccepted, StatusInProgress}
      /\ op = "decline"  => bk.status = StatusAccepted
  BY <1>1, Sources
<1>3. /\ new.estimatedPrice = bk.estimatedPrice
      /\ new.status = Target(op)
      /\ new.runner = IF op = "accept" THEN r
                      ELSE IF op = "decline" THEN NoRunner ELSE bk.runner
      /\ new.pickedUp = (bk.pickedUp \/ op = "pickup")
      /\ new.delivered = (bk.delivered \/ op = "deliver")
      /\ new.cancelled = (bk.cancelled \/ op = "cancel")
      /\ new.finalPrice = IF op = "complete" THEN bk.estimatedPrice ELSE bk.finalPrice
  BY SuccessorFields
<1>4. op = "accept" => r # NoRunner
  BY NoRunnerAssumption DEF Callers
<1> SUFFICES MilestonesAgree(new)
  OBVIOUS
<1> HIDE DEF new
<1> USE DEF MilestonesAgree, Target, StatusRequested, StatusAccepted, StatusInProgress,
            StatusDelivered, StatusCompleted, StatusCancelled
<1>5. CASE op = "accept"
  BY <1>1, <1>2, <1>3, <1>4, <1>5
<1>6. CASE op = "pickup"
  BY <1>1, <1>2, <1>3, <1>6
<1>7. CASE op = "deliver"
  BY <1>1, <1>2, <1>3, <1>7
<1>8. CASE op = "complete"
  BY <1>1, <1>2, <1>3, <1>8
<1>9. CASE op = "cancel"
  BY <1>1, <1>2, <1>3, <1>9
<1>10. CASE op = "decline"
  BY <1>1, <1>2, <1>3, <1>10
<1>11. QED BY <1>5, <1>6, <1>7, <1>8, <1>9, <1>10 DEF Transitions

\* What the version counts, apart from the declines.
Milestones(bk) ==
  Count(bk.runner # NoRunner) + Count(bk.pickedUp) + Count(bk.delivered)
    + Count(bk.finalPrice # NoPrice) + Count(bk.cancelled)

\* A permitted operation adds one milestone, a decline takes one away.
LEMMA MilestonesCount ==
  ASSUME NEW op \in Transitions, NEW bk \in BookingRows, NEW r \in Callers(op),
         Refusal(op, bk, r) = "ok", MilestonesAgree(bk)
  PROVE  /\ Milestones(bk) \in Nat
         /\ Milestones(Successor(op, bk, r)) =
              IF op = "decline" THEN Milestones(bk) - 1 ELSE Milestones(bk) + 1
<1> DEFINE new == Successor(op, bk, r)
<1>1. /\ Target(op) \in validTransitions[bk.status] /\ bk.status \in Statuses
      /\ bk.pickedUp \in BOOLEAN /\ bk.delivered \in BOOLEAN /\ bk.cancelled \in BOOLEAN
      /\ bk.estimatedPrice # NoPrice
  BY PermittedMeans, NoPriceAssumption DEF BookingRows
<1>2. /\ op = "accept"   => bk.status = StatusRequested
      /\ op = "pickup"   => bk.status = StatusAccepted
      /\ op = "deliver"  => bk.status = StatusInProgress
      /\ op = "complete" => bk.status = StatusDelivered
      /\ op = "cancel"   => bk.status \in {StatusRequested, StatusAccepted, StatusInProgress}
      /\ op = "decline"  => bk.status = StatusAccepted
  BY <1>1, Sources
<1>3. /\ new.runner = IF op = "accept" THEN r
                      ELSE IF op = "decline" THEN NoRunner ELSE bk.runner
      /\ new.pickedUp = (bk.pickedUp \/ op = "pickup")
      /\ new.delivered = (bk.delivered \/ op = "deliver")
      /\ new.cancelled = (bk.cancelled \/ op = "cancel")
      /\ new.finalPrice = IF op = "complete" THEN bk.estimatedPrice ELSE bk.finalPrice
  BY SuccessorFields
<1>4. op = "accept" => r # NoRunner
  BY NoRunnerAssumption DEF Callers
<1>5. /\ op = "accept"   => bk.runner = NoRunner
      /\ op = "pickup"   => ~bk.pickedUp
      /\ op = "deliver"  => ~bk.delivered
      /\ op = "complete" => bk.finalPrice = NoPrice
      /\ op = "cancel"   => ~bk.cancelled
      /\ op = "decline"  => bk.runner # NoRunner
  BY <1>1, <1>2 DEF MilestonesAgree, StatusRequested, StatusAccepted, StatusInProgress,
                    StatusDelivered, StatusCompleted, StatusCancelled
<1> SUFFICES /\ Milestones(bk) \in Nat
             /\ Milestones(new) =
                  IF op = "decline" THEN Milestones(bk) - 1 ELSE Milestones(bk) + 1
  OBVIOUS
<1> HIDE DEF new
<1>6. Count(TRUE) = 1 /\ Count(FALSE) = 0
  BY DEF Count
<1>7. \A P \in BOOLEAN : Count(P) \in {0, 1}
  BY DEF Count
<1>8. /\ Count(new.runner # NoRunner) = IF op = "accept" THEN 1
                                        ELSE IF op = "decline" THEN 0
                                        ELSE Count(bk.runner # NoRunner)
      /\ Count(new.finalPrice # NoPrice) = IF op = "complete" THEN 1
                                           ELSE Count(bk.finalPrice # NoPrice)
  BY <1>1, <1>3, <1>4 DEF Count
<1>9. /\ Count(new.pickedUp) = IF op = "pickup" THEN 1 ELSE Count(bk.pickedUp)
      /\ Count(new.delivered) = IF op = "deliver" THEN 1 ELSE Count(bk.delivered)
      /\ Count(new.cancelled) = IF op = "cancel" THEN 1 ELSE Count(bk.cancelled)
  <2>1. op = "pickup" \/ op # "pickup"
    OBVIOUS
  <2>2. /\ new.pickedUp = IF op = "pickup" THEN TRUE ELSE bk.pickedUp
        /\ new.delivered = IF op = "deliver" THEN TRUE ELSE bk.delivered
        /\ new.cancelled = IF op = "cancel" THEN TRUE ELSE bk.cancelled
    BY <1>1, <1>3
  <2>3. QED BY <1>6, <2>2
<1>10. /\ op = "accept"   => Count(bk.runner # NoRunner) = 0
       /\ op = "pickup"   => Count(bk.pickedUp) = 0
       /\ op = "deliver"  => Count(bk.delivered) = 0
       /\ op = "complete" => Count(bk.finalPrice # NoPrice) = 0
       /\ op = "cancel"   => Count(bk.cancelled) = 0
       /\ op = "decline"  => Count(bk.runner # NoRunner) = 1
  BY <1>5 DEF Count
<1>11. /\ Count(bk.runner # NoRunner) \in {0, 1} /\ Count(bk.pickedUp) \in {0, 1}
       /\ Count(bk.delivered) \in {0, 1} /\ Count(bk.finalPrice # NoPrice) \in {0, 1}
       /\ Count(bk.cancelled) \in {0, 1}
  BY <1>1, <1>7
<1>12. QED BY <1>8, <1>9, <1>10, <1>11 DEF Milestones, Transitions

-----------------------------------------------------------------------------
(* One booking. *)

\* What the tables say of one booking.
RowInv(b) ==
  /\ bookings[b] = NoRow => declineReasons[b] = << >>
  /\ bookings[b] # NoRow =>
       bookings[b].version = 1 + 2 * Len(declineReasons[b]) + Milestones(bookings[b])
  /\ \A v \in 1 .. Len(history[b]) :
       /\ history[b][v].version = v
       /\ MilestonesAgree(history[b][v])
       /\ IF v = 1
            THEN \E n \in Numbers, o \in Owners, p \in Prices :
                   history[b][1] = NewBooking(n, o, p)
            ELSE LegalStep(history[b][v - 1], history[b][v])

\* A step of the tables, seen from one booking.
LEMMA BookingStep ==
  ASSUME IInv, TableStep, NEW b \in Bookings
  PROVE  \/ UNCHANGED <<bookings[b], declineReasons[b], history[b]>>
         \/ \E n \in Numbers, o \in Owners, p \in Prices :
              /\ bookings[b] = NoRow
              /\ bookings'[b] = NewBooking(n, o, p)
              /\ history'[b] = Append(history[b], NewBooking(n, o, p))
              /\ UNCHANGED declineReasons[b]
         \/ \E op \in Transitions : \E r \in Callers(op) :
              /\ bookings[b] # NoRow
              /\ Refusal(op, bookings[b], r) = "ok"
              /\ bookings'[b] = Successor(op, bookings[b], r)
              /\ history'[b] = Append(history[b], Successor(op, bookings[b], r))
              /\ declineReasons'[b] = IF op = "decline" THEN Append(declineReasons[b], r)
                                                        ELSE declineReasons[b]
<1> USE DEF IInv, TInv, TypeOK
<1>1. CASE UNCHANGED <<bookings, declineReasons, history>>
  BY <1>1
<1>2. ASSUME NEW a \in Bookings, CreateStep(a)
      PROVE  \/ UNCHANGED <<bookings[b], declineReasons[b], history[b]>>
             \/ \E n \in Numbers, o \in Owners, p \in Prices :
                  /\ bookings[b] = NoRow
                  /\ bookings'[b] = NewBooking(n, o, p)
                  /\ history'[b] = Append(history[b], NewBooking(n, o, p))
                  /\ UNCHANGED declineReasons[b]
  <2>1. PICK n \in Numbers, o \in Owners, p \in Prices :
          /\ bookings[a] = NoRow
          /\ bookings' = [bookings EXCEPT ![a] = NewBooking(n, o, p)]
          /\ history' = [history EXCEPT ![a] = Append(@, NewBooking(n, o, p))]
          /\ UNCHANGED declineReasons
    BY <1>2 DEF CreateStep, CommitRow
  <2>2. CASE a = b
    BY <2>1, <2>2
  <2>3. CASE a # b
    BY <2>1, <2>3
  <2>4. QED BY <2>2, <2>3
<1>3. ASSUME NEW a \in Bookings, NEW op \in Transitions, NEW r \in Callers(op),
             OperationStep(a, op, r)
      PROVE  \/ UNCHANGED <<bookings[b], declineReasons[b], history[b]>>
             \/ /\ bookings[b] # NoRow
                /\ Refusal(op, bookings[b], r) = "ok"
                /\ bookings'[b] = Successor(op, bookings[b], r)
                /\ history'[b] = Append(history[b], Successor(op, bookings[b], r))
                /\ declineReasons'[b] = IF op = "decline" THEN Append(declineReasons[b], r)
                                                          ELSE declineReasons[b]
  BY <1>3 DEF OperationStep, CommitRow
<1>4. QED BY <1>1, <1>2, <1>3 DEF TableStep

\* A row appended to a history is its last; the others stay.
LEMMA Appended ==
  ASSUME NEW h \in Seq(BookingRows), NEW bk
  PROVE  /\ Len(Append(h, bk)) = Len(h) + 1
         /\ Append(h, bk)[Len(h) + 1] = bk
         /\ \A v \in 1 .. Len(h) : Append(h, bk)[v] = h[v]
OBVIOUS

\* What the tables say of a booking stays so.
LEMMA RowInvStays ==
  ASSUME IInv, TableStep, NEW b \in Bookings, RowInv(b)
  PROVE  RowInv(b)'
<1>1. /\ history[b] \in Seq(BookingRows) /\ declineReasons[b] \in Seq(Runners)
      /\ bookings[b] \in BookingRows \cup {NoRow}
      /\ Len(history[b]) \in Nat /\ Len(declineReasons[b]) \in Nat
  BY DEF IInv, TInv, TypeOK
<1>2. CASE UNCHANGED <<bookings[b], declineReasons[b], history[b]>>
  BY <1>2 DEF RowInv
<1>3. ASSUME NEW n \in Numbers, NEW o \in Owners, NEW p \in Prices,
             bookings[b] = NoRow,
             bookings'[b] = NewBooking(n, o, p),
             history'[b] = Append(history[b], NewBooking(n, o, p)),
             UNCHANGED declineReasons[b]
      PROVE  RowInv(b)'
  <2> DEFINE bk == NewBooking(n, o, p)
  <2>1. Len(history[b]) = 0
    BY <1>3 DEF IInv, HistoryIsTable
  <2>2. bk.version = 1 /\ Milestones(bk) = 0 /\ MilestonesAgree(bk)
    BY DEF NewBooking, Milestones, Count, MilestonesAgree, StatusRequested, StatusAccepted,
           StatusInProgress, StatusDelivered, StatusCompleted, StatusCancelled
  <2>3. bk \in BookingRows /\ bk # NoRow
    BY NewBookingType, NoRowAssumption
  <2>4. Len(history'[b]) = 1 /\ history'[b][1] = bk
    BY <1>1, <1>3, <2>1, Appended
  <2>5. Len(declineReasons'[b]) = 0
    BY <1>3 DEF RowInv
  <2>6. \E n2 \in Numbers, o2 \in Owners, p2 \in Prices : bk = NewBooking(n2, o2, p2)
    OBVIOUS
  <2>7. bookings'[b] = bk
    BY <1>3
  <2> HIDE DEF bk
  <2>8. \A v \in 1 .. Len(history'[b]) : v = 1
    BY <2>4
  <2>9. QED BY <2>2, <2>3, <2>4, <2>5, <2>6, <2>7, <2>8 DEF RowInv
<1>4. ASSUME NEW op \in Transitions, NEW r \in Callers(op),
             bookings[b] # NoRow,
             Refusal(op, bookings[b], r) = "ok",
             bookings'[b] = Successor(op, bookings[b], r),
             history'[b] = Append(history[b], Successor(op, bookings[b], r)),
             declineReasons'[b] = IF op = "decline" THEN Append(declineReasons[b], r)
                                                    ELSE declineReasons[b]
      PROVE  RowInv(b)'
  <2> DEFINE old == bookings[b]
  <2> DEFINE bk == Successor(op, old, r)
  <2> DEFINE len == Len(history[b])
  <2>1. old \in BookingRows /\ len = old.version /\ len \in Nat \ {0} /\ history[b][len] = old
    BY <1>1, <1>4 DEF IInv, HistoryIsTable, BookingRows
  <2>2. MilestonesAgree(old)
    BY <2>1 DEF RowInv
  <2>3. bk \in BookingRows /\ bk # NoRow /\ bk.version = len + 1
    BY <2>1, SuccessorFields, NoRowAssumption
  <2>4. MilestonesAgree(bk)
    BY <1>4, <2>1, <2>2, MilestonesStay
  <2>5. LegalStep(history[b][len], bk)
    BY <1>4, <2>1 DEF LegalStep
  <2>6. bk.version = 1 + 2 * Len(declineReasons'[b]) + Milestones(bk)
    <3>1. /\ Milestones(old) \in Nat
          /\ Milestones(bk) =
               IF op = "decline" THEN Milestones(old) - 1 ELSE Milestones(old) + 1
      BY <1>4, <2>1, <2>2, MilestonesCount
    <3>2. old.version = 1 + 2 * Len(declineReasons[b]) + Milestones(old)
      BY <1>4 DEF RowInv
    <3>3. Len(declineReasons'[b]) = IF op = "decline" THEN Len(declineReasons[b]) + 1
                                                      ELSE Len(declineReasons[b])
      BY <1>1, <1>4
    <3> DEFINE n == Len(declineReasons[b])
    <3> DEFINE m == Milestones(old)
    <3>4. n \in Nat /\ m \in Nat /\ len = 1 + 2 * n + m
      BY <1>1, <2>1, <3>1, <3>2
    <3> HIDE DEF old, bk, len, n, m
    <3>5. len + 1 = 1 + 2 * n + (m + 1) /\ len + 1 = 1 + 2 * (n + 1) + (m - 1)
      BY <3>4
    <3>6. QED BY <2>3, <3>1, <3>3, <3>5 DEF n, m
  <2>7. /\ Len(history'[b]) = len + 1
        /\ history'[b][len + 1] = bk
        /\ \A v \in 1 .. len : history'[b][v] = history[b][v]
    BY <1>1, <1>4, Appended
  <2>8. bookings'[b] = bk
    BY <1>4
  <2> HIDE DEF old, bk, len
  <2>9. \A v \in 1 .. len + 1 : v \in 1 .. len \/ v = len + 1
    BY <2>1
  <2>10. ASSUME NEW v \in 1 .. len + 1
         PROVE  /\ history'[b][v].version = v
                /\ MilestonesAgree(history'[b][v])
                /\ IF v = 1
                     THEN \E n \in Numbers, o \in Owners, p \in Prices :
                            history'[b][1] = NewBooking(n, o, p)
                     ELSE LegalStep(history'[b][v - 1], history'[b][v])
    <3>1. CASE v \in 1 .. len
      <4>1. history'[b][v] = history[b][v]
            /\ (v # 1 => history'[b][v - 1] = history[b][v - 1])
        <5>1. history'[b][v] = history[b][v]
          BY <2>7, <3>1
        <5>2. ASSUME v # 1 PROVE v - 1 \in 1 .. len
          BY <2>1, <3>1, <5>2
        <5>3. \A u \in 1 .. len : history'[b][u] = history[b][u]
          BY <2>7
        <5>4. ASSUME v # 1 PROVE history'[b][v - 1] = history[b][v - 1]
          BY <5>2, <5>3, <5>4
        <5>5. QED BY <5>1, <5>4
      <4>2. /\ history[b][v].version = v
            /\ MilestonesAgree(history[b][v])
            /\ IF v = 1
                 THEN \E n \in Numbers, o \in Owners, p \in Prices :
                        history[b][1] = NewBooking(n, o, p)
                 ELSE LegalStep(history[b][v - 1], history[b][v])
        BY <3>1 DEF RowInv, len
      <4>3. QED BY <4>1, <4>2
    <3>2. CASE v = len + 1
      <4>1. v # 1 /\ v - 1 = len /\ len \in 1 .. len
        BY <2>1, <3>2
      <4>2. history'[b][v - 1] = history[b][len] /\ history'[b][v] = bk
        BY <2>7, <3>2, <4>1
      <4>3. QED BY <2>3, <2>4, <2>5, <3>2, <4>1, <4>2
    <3>3. QED BY <2>9, <3>1, <3>2
  <2>11. QED BY <2>3, <2>6, <2>7, <2>8, <2>10 DEF RowInv
<1>5. QED BY <1>2, <1>3, <1>4, BookingStep

-----------------------------------------------------------------------------
(* The table. *)

LedgerInv ==
  /\ IInv
  /\ \A b \in Bookings : RowInv(b)

\* The table starts empty.
LEMMA InitLedgerInv == Init => LedgerInv
<1> SUFFICES ASSUME Init PROVE LedgerInv
  OBVIOUS
<1>1. IInv
  BY InitIInv
<1>2. \A b \in Bookings :
        /\ bookings[b] = NoRow /\ declineReasons[b] = << >>
        /\ history[b] = << >> /\ Len(history[b]) = 0
  BY DEF Init
<1>3. \A b \in Bookings : RowInv(b)
  BY <1>2 DEF RowInv
<1>4. QED BY <1>1, <1>3 DEF LedgerInv

\* Every step keeps what the table says.
LEMMA NextLedgerInv == LedgerInv /\ [Next]_vars => LedgerInv'
<1> SUFFICES ASSUME LedgerInv, [Next]_vars PROVE LedgerInv'
  OBVIOUS
<1>1. IInv' /\ TableStep
  BY NextIInv, NextTableStep DEF LedgerInv
<1>2. \A b \in Bookings : RowInv(b)'
  BY <1>1, RowInvStays DEF LedgerInv
<1>3. QED BY <1>1, <1>2 DEF LedgerInv

\* What the tables say of every booking is true in every state.
THEOREM LedgerHolds == Spec => []LedgerInv
BY InitLedgerInv, NextLedgerInv, PTL DEF Spec

\* LegalHistory: no update is lost, whatever stale copies are written.
THEOREM LegalHistories == Spec => []LegalHistory
<1>1. LedgerInv => LegalHistory
  BY DEF LedgerInv, RowInv, LegalHistory
<1>2. QED BY <1>1, LedgerHolds, PTL

\* VersionIsLedger: the version of a row accounts for all that happened to it.
THEOREM VersionsAreLedgers == Spec => []VersionIsLedger
<1>1. LedgerInv => VersionIsLedger
  <2> SUFFICES ASSUME LedgerInv, NEW b \in Bookings, bookings[b] # NoRow
               PROVE  bookings[b].version = 1 + 2 * Len(declineReasons[b])
                        + Count(bookings[b].runner # NoRunner) + Count(bookings[b].pickedUp)
                        + Count(bookings[b].delivered)
                        + Count(bookings[b].finalPrice # NoPrice)
                        + Count(bookings[b].cancelled)
    BY DEF VersionIsLedger, Exists
  <2>1. bookings[b].version = 1 + 2 * Len(declineReasons[b]) + Milestones(bookings[b])
    BY DEF LedgerInv, RowInv
  <2>2. Len(declineReasons[b]) \in Nat /\ \A P : Count(P) \in Nat
    BY DEF LedgerInv, IInv, TInv, TypeOK, Count
  <2>3. QED BY <2>1, <2>2 DEF Milestones
<1>2. QED BY <1>1, LedgerHolds, PTL

\* A row agrees with the milestones it stores.
LEMMA RowsAgree ==
  ASSUME LedgerInv, NEW b \in Bookings, bookings[b] # NoRow
  PROVE  MilestonesAgree(bookings[b])
<1>1. /\ Len(history[b]) = bookings[b].version
      /\ history[b][Len(history[b])] = bookings[b]
  BY DEF LedgerInv, IInv, HistoryIsTable
<1>2. bookings[b].version \in Nat \ {0}
  BY DEF LedgerInv, IInv, TInv, TypeOK, BookingRows
<1>3. QED BY <1>1, <1>2 DEF LedgerInv, RowInv

\* StatusMatchesMilestones: no interleaving makes the status and the stored
\* milestones of a row disagree.
THEOREM StatusesMatch == Spec => []StatusMatchesMilestones
<1>1. LedgerInv => StatusMatchesMilestones
  BY RowsAgree DEF StatusMatchesMilestones, Exists
<1>2. QED BY <1>1, LedgerHolds, PTL

\* A write that finds another version was made of a version that is committed,
\* and so is the one after it, by a permitted operation of another call.
LEMMA ConflictFacts ==
  ASSUME LedgerInv, NEW q \in Requests, Conflict(q)
  PROVE  LET c == calls[q]  h == history[c.booking]  v == c.bk.version IN
         /\ c.booking \in Bookings
         /\ c.op \in Transitions
         /\ v \in 2 .. Len(h)
         /\ h[v - 1] \in BookingRows /\ h[v] \in BookingRows
         /\ Refusal(c.op, h[v - 1], c.runner) = "ok"
         /\ LegalStep(h[v - 1], h[v])
<1> DEFINE c == calls[q]
<1> DEFINE b == c.booking
<1> DEFINE h == history[b]
<1> DEFINE v == c.bk.version
<1>1. IInv /\ c.pc = "update" /\ ~VersionMatches(b, c.bk)
  BY DEF LedgerInv, Conflict
<1>2. b \in Bookings /\ v \in Nat /\ h \in Seq(BookingRows) /\ Len(h) \in Nat
  <2>1. b \in Bookings /\ c.bk \in BookingRows
    BY <1>1 DEF IInv, TInv, TypeOK, CallsCarry, Calls
  <2>2. h \in Seq(BookingRows)
    BY <1>1, <2>1 DEF IInv, TInv, TypeOK
  <2> QED BY <2>1, <2>2 DEF BookingRows
<1>3. /\ c.op \in Transitions /\ v - 1 \in 1 .. Len(h)
      /\ Refusal(c.op, h[v - 1], c.runner) = "ok"
  BY <1>1 DEF IInv, CopiesAreDerived, Derived
<1>4. Len(h) # v - 1
  <2>1. bookings[b] # NoRow
    BY <1>1, <1>2, <1>3 DEF IInv, HistoryIsTable
  <2> QED BY <1>1, <1>2, <2>1 DEF IInv, HistoryIsTable, VersionMatches
<1>5. v \in 2 .. Len(h) /\ v \in 1 .. Len(h) /\ v # 1
  BY <1>2, <1>3, <1>4
<1>6. h[v - 1] \in BookingRows /\ h[v] \in BookingRows
  BY <1>2, <1>3, <1>5
<1>7. LegalStep(h[v - 1], h[v])
  BY <1>2, <1>5 DEF LedgerInv, RowInv
<1> QED BY <1>2, <1>3, <1>5, <1>6, <1>7

\* ConflictsHaveWinners: a write is refused only because another call has
\* made a permitted change of the version it was made of.
THEOREM ConflictsAreReal == Spec => ConflictsHaveWinners
<1>1. LedgerInv /\ [Next]_vars =>
        [\A q \in Requests : Conflict(q) =>
           LET h == history[calls[q].booking]  v == calls[q].bk.version IN
           /\ v \in 2 .. Len(h)
           /\ Refusal(calls[q].op, h[v - 1], calls[q].runner) = "ok"
           /\ LegalStep(h[v - 1], h[v])]_vars
  BY ConflictFacts
<1>2. QED BY <1>1, LedgerHolds, PTL DEF Spec, ConflictsHaveWinners

\* No operation is permitted on a terminal booking.
LEMMA TerminalRefuses ==
  ASSUME NEW bk \in BookingRows, IsTerminal(bk.status), NEW op \in Transitions, NEW r
  PROVE  Refusal(op, bk, r) # "ok"
<1>1. bk.status \in DOMAIN validTransitions
  BY DEF BookingRows, validTransitions
<1>2. validTransitions[bk.status] = {}
  BY <1>1 DEF IsTerminal
<1>3. QED BY <1>2, PermittedMeans

\* A step leaves a terminal booking as it is.
LEMMA FinalStep ==
  ASSUME LedgerInv, [Next]_vars, NEW b \in Bookings,
         bookings[b] # NoRow, IsTerminal(bookings[b].status)
  PROVE  bookings'[b] = bookings[b]
<1>1. bookings[b] \in BookingRows
  BY DEF LedgerInv, IInv, TInv, TypeOK
<1>2. \A op \in Transitions : \A r \in Callers(op) : Refusal(op, bookings[b], r) # "ok"
  BY <1>1, TerminalRefuses
<1>3. IInv /\ TableStep
  BY NextTableStep DEF LedgerInv
<1>4. QED BY <1>2, <1>3, BookingStep

\* No version follows a terminal one.
LEMMA TerminalIsLast ==
  ASSUME LedgerInv, NEW b \in Bookings, NEW v \in 1 .. Len(history[b]),
         IsTerminal(history[b][v].status)
  PROVE  v = Len(history[b]) /\ bookings[b] = history[b][v]
<1>1. history[b] \in Seq(BookingRows) /\ Len(history[b]) \in Nat
  BY DEF LedgerInv, IInv, TInv, TypeOK
<1>2. v = Len(history[b])
  <2>1. SUFFICES ASSUME v # Len(history[b]) PROVE FALSE
    OBVIOUS
  <2>2. v + 1 \in 1 .. Len(history[b]) /\ v + 1 # 1 /\ (v + 1) - 1 = v
    BY <1>1, <2>1
  <2>3. LegalStep(history[b][v], history[b][v + 1])
    BY <2>2 DEF LedgerInv, RowInv
  <2>4. history[b][v] \in BookingRows
    BY <1>1
  <2> QED BY <2>3, <2>4, TerminalRefuses DEF LegalStep
<1>3. bookings[b] # NoRow
  BY <1>1 DEF LedgerInv, IInv, HistoryIsTable
<1> QED BY <1>2, <1>3 DEF LedgerInv, IInv, HistoryIsTable

\* TerminalIsFinal: not even a call that read the booking before it ended
\* changes it afterwards.
THEOREM TerminalsAreFinal == Spec => TerminalIsFinal
<1> DEFINE Final == \A b \in Bookings :
                      Exists(b) /\ IsTerminal(bookings[b].status) => bookings'[b] = bookings[b]
<1>1. LedgerInv /\ [Next]_vars => [Final]_vars
  BY FinalStep DEF Exists
<1>2. QED BY <1>1, LedgerHolds, PTL DEF Spec, TerminalIsFinal

\* What one step may do to the runner of booking b.
Leave(b) ==
  /\ Exists(b) /\ bookings[b].runner # NoRunner
     /\ bookings'[b].runner # bookings[b].runner
     => /\ bookings'[b].runner = NoRunner
        /\ declineReasons'[b] = Append(declineReasons[b], bookings[b].runner)
  /\ declineReasons'[b] # declineReasons[b]
     => Exists(b) /\ bookings[b].runner # NoRunner /\ bookings'[b].runner = NoRunner

\* A runner leaves by a decline on record, and a record is of one that leaves.
LEMMA RunnerLeaves ==
  ASSUME LedgerInv, [Next]_vars, NEW b \in Bookings
  PROVE  Leave(b)
<1>1. IInv /\ TableStep
  BY NextTableStep DEF LedgerInv
<1>2. CASE UNCHANGED <<bookings[b], declineReasons[b], history[b]>>
  BY <1>2 DEF Leave
<1>3. CASE bookings[b] = NoRow /\ UNCHANGED declineReasons[b]
  BY <1>3 DEF Leave, Exists
<1>4. ASSUME NEW op \in Transitions, NEW r \in Callers(op),
             bookings[b] # NoRow,
             Refusal(op, bookings[b], r) = "ok",
             bookings'[b] = Successor(op, bookings[b], r),
             declineReasons'[b] = IF op = "decline" THEN Append(declineReasons[b], r)
                                                    ELSE declineReasons[b]
      PROVE  Leave(b)
  <2>1. bookings[b] \in BookingRows /\ MilestonesAgree(bookings[b])
    BY <1>4, RowsAgree DEF LedgerInv, IInv, TInv, TypeOK
  <2>2. bookings'[b].runner = IF op = "accept" THEN r
                              ELSE IF op = "decline" THEN NoRunner
                              ELSE bookings[b].runner
    BY <1>4, <2>1, SuccessorFields
  <2>3. /\ Target(op) \in validTransitions[bookings[b].status]
        /\ bookings[b].status \in Statuses
        /\ op = "decline" => bookings[b].runner = r /\ bookings[b].status = StatusAccepted
    BY <1>4, <2>1, PermittedMeans DEF BookingRows
  <2>4. op = "accept" => bookings[b].status = StatusRequested
    BY <2>3, Sources
  <2>5. op = "accept" => bookings[b].runner = NoRunner
    BY <2>1, <2>4 DEF MilestonesAgree
  <2>6. op = "decline" => bookings[b].runner # NoRunner
    BY <2>1, <2>3 DEF MilestonesAgree
  <2>7. QED BY <1>4, <2>2, <2>3, <2>5, <2>6 DEF Leave, Exists
<1>5. QED BY <1>1, <1>2, <1>3, <1>4, BookingStep

\* RunnerLeavesByDecline: a runner loses a booking only by its own decline,
\* put on record in the same step.
THEOREM RunnersLeaveByDecline == Spec => RunnerLeavesByDecline
<1>1. LedgerInv /\ [Next]_vars => [\A b \in Bookings : Leave(b)]_vars
  BY RunnerLeaves
<1>2. QED BY <1>1, LedgerHolds, PTL DEF Spec, RunnerLeavesByDecline, Leave

-----------------------------------------------------------------------------
(* The decline reasons are an audit of the history. *)

Audited(b) == \E at : Audits(at, declineReasons[b], history[b])

\* A version released in a history is released in one that goes on from it;
\* whether the last one is, the next one tells.
LEMMA ReleasedInLonger ==
  ASSUME NEW h \in Seq(BookingRows), NEW bk \in BookingRows, NEW v \in 1 .. Len(h) + 1
  PROVE  Released(Append(h, bk), v) <=>
           \/ Released(h, v)
           \/ v = Len(h) /\ h[v].runner # NoRunner /\ bk.runner = NoRunner
<1> DEFINE n == Len(h)
<1> DEFINE g == Append(h, bk)
<1>1. n \in Nat /\ v \in Nat
  OBVIOUS
<1>2. Len(g) = n + 1 /\ g[n + 1] = bk /\ \A w \in 1 .. n : g[w] = h[w]
  BY Appended
<1> HIDE DEF g, n
<1>3. CASE v \in 1 .. n - 1
  <2>1. v \in 1 .. n /\ v + 1 \in 1 .. n /\ v \in 1 .. (Len(g) - 1) /\ v # n
    BY <1>1, <1>2, <1>3
  <2>2. g[v] = h[v] /\ g[v + 1] = h[v + 1]
    BY <1>2, <2>1
  <2> QED BY <1>3, <2>1, <2>2 DEF Released, n, g
<1>4. CASE v = n
  <2>1. v \notin 1 .. (n - 1) /\ v \in 1 .. n
    BY <1>1, <1>4
  <2>2. v \in 1 .. (Len(g) - 1) /\ g[v] = h[v] /\ g[v + 1] = bk
    BY <1>1, <1>2, <1>4, <2>1
  <2> QED BY <1>4, <2>1, <2>2 DEF Released, n, g
<1>5. CASE v = n + 1
  <2>1. v \notin 1 .. (n - 1) /\ v \notin 1 .. (Len(g) - 1) /\ v # n
    BY <1>1, <1>2, <1>5
  <2> QED BY <2>1 DEF Released, n, g
<1>6. v \in 1 .. n - 1 \/ v = n \/ v = n + 1
  BY <1>1 DEF n
<1> QED BY <1>3, <1>4, <1>5, <1>6

\* A change that is no decline leaves the audit as it is.
LEMMA AuditKept ==
  ASSUME NEW h \in Seq(BookingRows), NEW bk \in BookingRows, NEW rs \in Seq(Runners), NEW at,
         Audits(at, rs, h),
         Len(h) > 0 => h[Len(h)].runner = NoRunner \/ bk.runner # NoRunner
  PROVE  Audits(at, rs, Append(h, bk))
<1> DEFINE g == Append(h, bk)
<1>1. Len(h) \in Nat /\ Len(rs) \in Nat
  OBVIOUS
<1>2. Len(g) = Len(h) + 1 /\ \A w \in 1 .. Len(h) : g[w] = h[w]
  BY Appended
<1>3. \A v \in 1 .. Len(h) + 1 : Released(g, v) <=> Released(h, v)
  <2> SUFFICES ASSUME NEW v \in 1 .. Len(h) + 1 PROVE Released(g, v) <=> Released(h, v)
    OBVIOUS
  <2>1. v = Len(h) => Len(h) > 0
    BY <1>1
  <2> QED BY <2>1, ReleasedInLonger
<1> HIDE DEF g
<1>4. 1 .. Len(h) \subseteq 1 .. Len(g)
  BY <1>1, <1>2
<1>5. at \in [1 .. Len(rs) -> 1 .. Len(h)] /\ at \in [1 .. Len(rs) -> 1 .. Len(g)]
  BY <1>4 DEF Audits
<1>6. \A i \in 1 .. Len(rs) : at[i] \in 1 .. Len(h) /\ rs[i] = g[at[i]].runner
  BY <1>2, <1>5 DEF Audits
<1>7. ASSUME NEW v \in 1 .. Len(g)
      PROVE  Released(g, v) <=> \E i \in 1 .. Len(rs) : at[i] = v
  <2>1. CASE v \in 1 .. Len(h)
    BY <1>2, <1>3, <1>7, <2>1 DEF Audits
  <2>2. CASE v \notin 1 .. Len(h)
    <3>1. v \notin 1 .. (Len(h) - 1)
      BY <1>1, <2>2
    <3> QED BY <1>2, <1>3, <1>6, <1>7, <2>2, <3>1 DEF Released
  <2> QED BY <2>1, <2>2
<1> QED BY <1>5, <1>6, <1>7 DEF Audits, g

\* A decline adds its reason to the audit.
LEMMA AuditExtended ==
  ASSUME NEW h \in Seq(BookingRows), NEW bk \in BookingRows, NEW rs \in Seq(Runners), NEW at,
         Audits(at, rs, h), Len(h) > 0, NEW r \in Runners,
         h[Len(h)].runner = r, r # NoRunner, bk.runner = NoRunner
  PROVE  \E fit : Audits(fit, Append(rs, r), Append(h, bk))
<1> DEFINE g == Append(h, bk)
<1> DEFINE n == Len(h)
<1> DEFINE m == Len(rs)
<1> DEFINE qs == Append(rs, r)
<1> DEFINE fit == [i \in 1 .. m + 1 |-> IF i = m + 1 THEN n ELSE at[i]]
<1>1. n \in Nat /\ m \in Nat /\ n > 0
  OBVIOUS
<1>2. Len(g) = n + 1 /\ \A w \in 1 .. n : g[w] = h[w]
  BY Appended
<1>3. Len(qs) = m + 1 /\ qs[m + 1] = r /\ \A i \in 1 .. m : qs[i] = rs[i]
  OBVIOUS
<1>4. \A v \in 1 .. n + 1 : Released(g, v) <=> Released(h, v) \/ v = n
  <2> SUFFICES ASSUME NEW v \in 1 .. n + 1
               PROVE  Released(g, v) <=> Released(h, v) \/ v = n
    OBVIOUS
  <2> QED BY ReleasedInLonger
<1>5. \A i \in 1 .. m : at[i] \in 1 .. n
  BY DEF Audits
<1>6. fit[m + 1] = n /\ \A i \in 1 .. m : fit[i] = at[i]
  BY <1>1
<1>7. \A i \in 1 .. m : at[i] < n
  <2> SUFFICES ASSUME NEW i \in 1 .. m PROVE at[i] < n
    OBVIOUS
  <2>1. Released(h, at[i])
    BY <1>5 DEF Audits
  <2>2. at[i] \in 1 .. (n - 1)
    BY <2>1 DEF Released
  <2> QED BY <1>1, <2>2
<1>8. \A i \in 1 .. m + 1 : i \in 1 .. m \/ i = m + 1
  BY <1>1
<1>9. fit \in [1 .. m + 1 -> 1 .. n + 1]
  <2>1. \A i \in 1 .. m + 1 : fit[i] \in 1 .. n + 1
    <3> SUFFICES ASSUME NEW i \in 1 .. m + 1 PROVE fit[i] \in 1 .. n + 1
      OBVIOUS
    <3>1. CASE i = m + 1
      BY <1>1, <1>6, <3>1
    <3>2. CASE i \in 1 .. m
      BY <1>1, <1>5, <1>6, <3>2
    <3> QED BY <1>8, <3>1, <3>2
  <2> QED BY <2>1
<1> HIDE DEF g, qs, fit, n, m
<1>10. ASSUME NEW i \in 1 .. m + 1, NEW j \in 1 .. m + 1, i < j
       PROVE  fit[i] < fit[j]
  <2>1. i \in 1 .. m
    BY <1>1, <1>10
  <2>2. CASE j = m + 1
    BY <1>6, <1>7, <2>1, <2>2
  <2>3. CASE j \in 1 .. m
    BY <1>6, <1>10, <2>1, <2>3 DEF Audits, m
  <2> QED BY <1>8, <2>2, <2>3
<1>11. ASSUME NEW v \in 1 .. n + 1
       PROVE  Released(g, v) <=> \E i \in 1 .. m + 1 : fit[i] = v
  <2>1. CASE v = n
    <3>1. m + 1 \in 1 .. m + 1
      BY <1>1
    <3> QED BY <1>4, <1>6, <2>1, <3>1
  <2>2. CASE v = n + 1
    <3>1. v \notin 1 .. (n - 1) /\ v # n /\ v \notin 1 .. n
      BY <1>1, <2>2
    <3>2. ~Released(h, v)
      BY <3>1 DEF Released, n
    <3> QED BY <1>4, <1>5, <1>6, <1>8, <3>1, <3>2
  <2>3. CASE v \in 1 .. n /\ v # n
    <3>1. (\E i \in 1 .. m + 1 : fit[i] = v) <=> (\E i \in 1 .. m : at[i] = v)
      <4>1. \A i \in 1 .. m : i \in 1 .. m + 1
        BY <1>1
      <4> QED BY <1>6, <1>8, <2>3, <4>1
    <3>2. Released(h, v) <=> \E i \in 1 .. m : at[i] = v
      BY <2>3 DEF Audits, n, m
    <3> QED BY <1>4, <2>3, <3>1, <3>2
  <2>4. v = n \/ v = n + 1 \/ (v \in 1 .. n /\ v # n)
    BY <1>1
  <2> QED BY <2>1, <2>2, <2>3, <2>4
<1>12. ASSUME NEW i \in 1 .. m + 1
       PROVE  qs[i] = g[fit[i]].runner
  <2>1. CASE i = m + 1
    <3>1. n \in 1 .. n
      BY <1>1
    <3>2. h[n].runner = r
      BY DEF n
    <3> QED BY <1>2, <1>3, <1>6, <2>1, <3>1, <3>2
  <2>2. CASE i \in 1 .. m
    <3>1. rs[i] = h[at[i]].runner
      BY <2>2 DEF Audits, m
    <3> QED BY <1>2, <1>3, <1>5, <1>6, <2>2, <3>1
  <2> QED BY <1>8, <2>1, <2>2
<1>13. Audits(fit, qs, g)
  BY <1>2, <1>3, <1>9, <1>10, <1>11, <1>12 DEF Audits
<1> QED BY <1>13 DEF qs, g

LEMMA AuditStays ==
  ASSUME LedgerInv, TableStep, NEW b \in Bookings, Audited(b)
  PROVE  Audited(b)'
<1> DEFINE h == history[b]
<1> DEFINE rs == declineReasons[b]
<1> USE DEF Audited
<1>1. IInv /\ h \in Seq(BookingRows) /\ rs \in Seq(Runners)
      /\ bookings[b] \in BookingRows \cup {NoRow}
  BY DEF LedgerInv, IInv, TInv, TypeOK
<1>2. PICK at : Audits(at, rs, h)
  OBVIOUS
<1>3. CASE UNCHANGED <<bookings[b], declineReasons[b], history[b]>>
  BY <1>2, <1>3
<1>4. ASSUME NEW n \in Numbers, NEW o \in Owners, NEW p \in Prices,
             bookings[b] = NoRow,
             history'[b] = Append(history[b], NewBooking(n, o, p)),
             UNCHANGED declineReasons[b]
      PROVE  Audited(b)'
  <2>1. ~(Len(h) > 0)
    <3>1. h = << >>
      BY <1>1, <1>4 DEF IInv, HistoryIsTable
    <3> QED BY <3>1
  <2>2. Audits(at, rs, Append(h, NewBooking(n, o, p)))
    BY <1>1, <1>2, <2>1, AuditKept, NewBookingType
  <2> QED BY <1>4, <2>2
<1>5. ASSUME NEW op \in Transitions, NEW r \in Callers(op),
             bookings[b] # NoRow,
             Refusal(op, bookings[b], r) = "ok",
             history'[b] = Append(history[b], Successor(op, bookings[b], r)),
             declineReasons'[b] = IF op = "decline" THEN Append(declineReasons[b], r)
                                                    ELSE declineReasons[b]
      PROVE  Audited(b)'
  <2> DEFINE old == bookings[b]
  <2> DEFINE new == Successor(op, old, r)
  <2>1. old \in BookingRows /\ h[Len(h)] = old /\ Len(h) > 0
    <3>1. old \in BookingRows /\ Len(h) = old.version /\ h[Len(h)] = old
      BY <1>1, <1>5 DEF IInv, HistoryIsTable
    <3>2. old.version \in Nat \ {0}
      BY <3>1 DEF BookingRows
    <3> QED BY <3>1, <3>2
  <2>2. /\ new \in BookingRows
        /\ new.runner = IF op = "accept" THEN r
                        ELSE IF op = "decline" THEN NoRunner ELSE old.runner
    BY <2>1, SuccessorFields
  <2>3. op = "decline" => old.runner = r
    BY <1>5, <2>1, PermittedMeans
  <2>4. op \in {"accept", "decline"} => r \in Runners /\ r # NoRunner
    BY NoRunnerAssumption DEF Callers
  <2> HIDE DEF new, old
  <2>5. CASE op = "decline"
    <3>1. \E fit : Audits(fit, Append(rs, r), Append(h, new))
      BY <1>1, <1>2, <2>1, <2>2, <2>3, <2>4, <2>5, AuditExtended
    <3> QED BY <1>5, <2>5, <3>1 DEF new, old
  <2>6. CASE op # "decline"
    <3>1. h[Len(h)].runner = NoRunner \/ new.runner # NoRunner
      BY <2>1, <2>2, <2>4, <2>6
    <3>2. Audits(at, rs, Append(h, new))
      BY <1>1, <1>2, <2>2, <3>1, AuditKept
    <3> QED BY <1>5, <2>6, <3>2 DEF new, old
  <2> QED BY <2>5, <2>6
<1> QED BY <1>1, <1>3, <1>4, <1>5, BookingStep

\* DeclinesAudited: the reasons on record are exactly the declines of the
\* history, in their order, whatever failed and whoever raced.
THEOREM DeclinesAreAudited == Spec => []DeclinesAudited
<1> DEFINE AllAudited == \A b \in Bookings : Audited(b)
<1>1. Init => AllAudited
  <2> SUFFICES ASSUME Init, NEW b \in Bookings PROVE Audited(b)
    OBVIOUS
  <2>1. declineReasons[b] = << >> /\ history[b] = << >>
    BY DEF Init
  <2>2. Audits(<< >>, << >>, << >>)
    BY DEF Audits, Released
  <2> QED BY <2>1, <2>2 DEF Audited
<1>2. LedgerInv /\ AllAudited /\ [Next]_vars => AllAudited'
  BY NextTableStep, AuditStays DEF LedgerInv
<1>3. AllAudited => DeclinesAudited
  BY DEF Audited, DeclinesAudited, Audits
<1> QED BY <1>1, <1>2, <1>3, LedgerHolds, PTL DEF Spec

=============================================================================
