------------------------- MODULE PaymentConsumerProofs -------------------------
(***************************************************************************)
(* The payment consumer, for every value of the constants: beside it the    *)
(* service keeps all it promises, and the offsets it commits are those of   *)
(* settled messages.  Then the process around both: whatever is lost when it *)
(* is stopped in good order was the consumer's.                              *)
(***************************************************************************)
EXTENDS ServerLifecycle, BookingEventsProofs

-----------------------------------------------------------------------------
(* The inductive invariant. *)

\* The consumer works on the message handed over last, and answers nil only
\* when the booking of the message is completed.
HandlerInv ==
  calls[Consumer] # Idle =>
    /\ position <= Len(payments)
    /\ payments[position] \in Bookings
    /\ calls[Consumer].pc \in {"update", "publish", "reply"}
    /\ calls[Consumer].pc \in {"update", "publish"} =>
         calls[Consumer].op = "complete" /\ calls[Consumer].booking = payments[position]
    /\ Succeeded(calls[Consumer]) => Status(payments[position]) = StatusCompleted

\* Unless errors are skipped the messages passed are settled.
PassedAreCompleted ==
  policy # "skip" =>
    \A i \in 1 .. position - 1 :
      payments[i] # NoBooking => Status(payments[i]) = StatusCompleted

ConsumerInv ==
  /\ EventInv
  /\ ConsumerTypeOK
  /\ HandlerInv
  /\ PassedAreCompleted

\* The consumer starts at the head of an empty topic.
LEMMA InitConsumerInv == ConsumerInit => ConsumerInv
<1> SUFFICES ASSUME ConsumerInit PROVE ConsumerInv
  OBVIOUS
<1>1. EventInv
  BY InitEventInv DEF ConsumerInit
<1>2. ConsumerTypeOK
  BY DEF ConsumerInit, ConsumerTypeOK
<1>3. calls[Consumer] = Idle
  BY ConsumerAssumption DEF ConsumerInit, Init
<1>4. PassedAreCompleted
  BY DEF ConsumerInit, PassedAreCompleted
<1>5. QED BY <1>1, <1>2, <1>3, <1>4 DEF ConsumerInv, HandlerInv

-----------------------------------------------------------------------------
(* The steps. *)

\* Every step of the consumer's specification is a step of the service, or
\* none.
LEMMA ServiceStep ==
  ASSUME ConsumerTypeOK, [ConsumerNext]_allVars
  PROVE  [Next]_vars
<1>1. CASE UNCHANGED allVars
  BY <1>1 DEF allVars
<1>2. CASE Restart
  BY <1>2 DEF Restart, Next
<1>3. CASE Consume
  <2>1. CASE IgnoreMessage
    BY <2>1 DEF IgnoreMessage
  <2>2. CASE handleEscrowReleased \/ ReleaseUnread
    <3>1. payments[position] \in Bookings
      BY <2>2 DEF handleEscrowReleased, ReleaseUnread, HandedOver, ConsumerTypeOK, Messages
    <3>2. Arrive(Consumer)
      BY <2>2, <3>1 DEF handleEscrowReleased, ReleaseUnread, Arrive, Ask
    <3>3. QED BY <3>2, ConsumerAssumption DEF Next
  <2>3. CASE Work(Consumer)
    BY <2>3, ConsumerAssumption DEF Continue, Next
  <2>4. CASE HandlerReturns
    BY <2>4, ConsumerAssumption DEF HandlerReturns, Continue, Next
  <2>5. QED BY <1>3, <2>1, <2>2, <2>3, <2>4 DEF Consume, HandleMessage, HandlingFails, Work
<1>4. CASE \E m \in Messages : PublishPayment(m)
  BY <1>4 DEF PublishPayment
<1>5. ASSUME NEW q \in Handlers, Serve(q) \/ Arrive(q)
      PROVE  Next
  BY <1>5 DEF Serve, Handlers, Next
<1>6. QED BY <1>1, <1>2, <1>3, <1>4, <1>5
           DEF ConsumerNext, Consume, HandlingFails

\* A completed booking stays completed.
LEMMA CompletedStays ==
  ASSUME LedgerInv, [Next]_vars, NEW b \in Bookings, Status(b) = StatusCompleted
  PROVE  Status(b)' = StatusCompleted
<1>1. bookings[b] # NoRow /\ bookings[b].status = StatusCompleted
  BY DEF Status, StatusCompleted
<1>2. IsTerminal(bookings[b].status)
  BY <1>1 DEF IsTerminal, validTransitions, Statuses, StatusRequested, StatusAccepted,
              StatusInProgress, StatusDelivered, StatusCompleted, StatusCancelled
<1>3. bookings'[b] = bookings[b]
  BY <1>1, <1>2, FinalStep
<1>4. QED BY <1>3 DEF Status

\* A call is touched by its own steps only.
LEMMA OthersStay ==
  ASSUME TInv, NEW q \in Requests, Arrive(q) \/ Continue(q), NEW x \in Requests \ {q}
  PROVE  calls'[x] = calls[x]
<1>1. calls \in [Requests -> Calls]
  BY DEF TInv, TypeOK
<1>2. ASSUME NEW d, calls' = [calls EXCEPT ![q] = d]
      PROVE  calls'[x] = calls[x]
  BY <1>1, <1>2
<1>3. CASE Arrive(q)
  <2>1. \E d : calls' = [calls EXCEPT ![q] = d]
    BY <1>3, ArriveCases DEF TInv
  <2>2. QED BY <1>2, <2>1
<1>4. CASE Continue(q)
  <2>1. CASE UpdateInTransaction(q)
    BY <1>1, <2>1 DEF UpdateInTransaction
  <2>2. CASE ~UpdateInTransaction(q)
    BY <1>2, <1>4, <2>2 DEF Continue, Work, Progress, Failure, Save, NumberCollides, Update, Conflict,
       CommitDecline, Publish, StatementFails, CommitUnseen, PublishFails, Respond
  <2>3. QED BY <2>1, <2>2
<1>5. QED BY <1>3, <1>4

\* A step of the others: a payment is published, a handler serves its call.
LEMMA OthersConsumerInv ==
  ASSUME ConsumerInv, EventInv', [Next]_vars,
         calls'[Consumer] = calls[Consumer],
         UNCHANGED <<position, committed, consuming, policy>>,
         payments' = payments \/ \E m \in Messages : payments' = Append(payments, m)
  PROVE  ConsumerInv'
<1> USE DEF ConsumerInv
<1>1. /\ payments \in Seq(Messages) /\ Len(payments) \in Nat
      /\ position \in 1 .. Len(payments) + 1 /\ committed \in 1 .. position
      /\ consuming \in BOOLEAN /\ policy \in Policies
  BY DEF ConsumerTypeOK
<1>2. /\ payments' \in Seq(Messages) /\ Len(payments') \in Nat
      /\ Len(payments) <= Len(payments')
      /\ \A i \in 1 .. Len(payments) : payments'[i] = payments[i]
  BY <1>1
<1>3. ConsumerTypeOK'
  BY <1>1, <1>2 DEF ConsumerTypeOK
<1>4. \A b \in Bookings : Status(b) = StatusCompleted => Status(b)' = StatusCompleted
  BY CompletedStays DEF EventInv
<1>5. HandlerInv'
  <2>1. SUFFICES ASSUME calls[Consumer] # Idle PROVE HandlerInv'
    BY DEF HandlerInv
  <2>2. /\ position <= Len(payments)
        /\ payments[position] \in Bookings
        /\ calls[Consumer].pc \in {"update", "publish", "reply"}
        /\ calls[Consumer].pc \in {"update", "publish"} =>
             calls[Consumer].op = "complete" /\ calls[Consumer].booking = payments[position]
        /\ Succeeded(calls[Consumer]) => Status(payments[position]) = StatusCompleted
    BY <2>1 DEF HandlerInv
  <2>3. payments'[position] = payments[position] /\ position <= Len(payments')
    BY <1>1, <1>2, <2>2
  <2>4. Succeeded(calls[Consumer]) => Status(payments[position])' = StatusCompleted
    <3> DEFINE m == payments[position]
    <3>1. ASSUME Succeeded(calls[Consumer]) PROVE Status(m) = StatusCompleted /\ m \in Bookings
      BY <2>2, <3>1
    <3>2. \A b \in Bookings : Status(b) = StatusCompleted =>
            bookings'[b] # NoRow /\ bookings'[b].status = StatusCompleted
      BY <1>4 DEF Status, StatusCompleted
    <3>3. QED BY <2>3, <3>1, <3>2 DEF Status
  <2>5. QED BY <2>2, <2>3, <2>4 DEF HandlerInv, Succeeded, Status
<1>6. PassedAreCompleted'
  <2>1. SUFFICES ASSUME policy # "skip", NEW i \in 1 .. position - 1, payments[i] # NoBooking
                 PROVE  Status(payments[i])' = StatusCompleted /\ payments'[i] = payments[i]
    BY <1>1, <1>2 DEF PassedAreCompleted, Status
  <2>2. i \in 1 .. Len(payments)
    BY <1>1
  <2>3. payments[i] \in Bookings /\ Status(payments[i]) = StatusCompleted
    BY <1>1, <2>1, <2>2 DEF PassedAreCompleted, Messages
  <2>4. \A b \in Bookings : Status(b) = StatusCompleted =>
          bookings'[b] # NoRow /\ bookings'[b].status = StatusCompleted
    BY <1>4 DEF Status, StatusCompleted
  <2>5. QED BY <1>2, <2>2, <2>3, <2>4 DEF Status
<1>7. QED BY <1>3, <1>5, <1>6

\* A message passed in this step is the one at the position, or an older one.
LEMMA Passed ==
  ASSUME NEW n \in Nat, NEW old \in 1 .. n + 1, NEW new \in 1 .. old + 1, new <= n + 1,
         NEW i \in 1 .. new - 1
  PROVE  i \in 1 .. n /\ (i \in 1 .. old - 1 \/ (i = old /\ new = old + 1))
OBVIOUS

\* Settled messages stay settled, and the position moves past a settled one.
LEMMA PassedStay ==
  ASSUME ConsumerInv, [Next]_vars, UNCHANGED <<payments, policy>>,
         position' \in 1 .. position + 1, position' <= Len(payments) + 1,
         position' = position + 1 /\ policy # "skip" /\ payments[position] # NoBooking
           => Status(payments[position]) = StatusCompleted
  PROVE  PassedAreCompleted'
<1> USE DEF ConsumerInv
<1>1. /\ payments \in Seq(Messages) /\ Len(payments) \in Nat
      /\ position \in 1 .. Len(payments) + 1
  BY DEF ConsumerTypeOK
<1>2. \A b \in Bookings : Status(b) = StatusCompleted =>
        bookings'[b] # NoRow /\ bookings'[b].status = StatusCompleted
  <2>1. SUFFICES ASSUME NEW b \in Bookings, Status(b) = StatusCompleted
                 PROVE  bookings'[b] # NoRow /\ bookings'[b].status = StatusCompleted
    OBVIOUS
  <2>2. Status(b)' = StatusCompleted
    BY <2>1, CompletedStays DEF EventInv
  <2>3. QED BY <2>2 DEF Status, StatusCompleted
<1>3. SUFFICES ASSUME policy # "skip", NEW i \in 1 .. position' - 1, payments[i] # NoBooking
               PROVE  bookings'[payments[i]] # NoRow
                      /\ bookings'[payments[i]].status = StatusCompleted
  BY DEF PassedAreCompleted, Status
<1>4. /\ i \in 1 .. Len(payments)
      /\ i \in 1 .. position - 1 \/ (i = position /\ position' = position + 1)
  BY <1>1, Passed
<1>5. payments[i] \in Bookings
  BY <1>1, <1>3, <1>4 DEF Messages
<1>6. Status(payments[i]) = StatusCompleted
  BY <1>3, <1>4 DEF PassedAreCompleted
<1>7. QED BY <1>2, <1>5, <1>6

\* The consumer is still at work on the message.
LEMMA HandlerStays ==
  ASSUME UNCHANGED <<payments, position>>,
         position <= Len(payments), payments[position] \in Bookings,
         calls'[Consumer].pc \in {"update", "publish", "reply"},
         calls'[Consumer].pc \in {"update", "publish"} =>
           /\ calls'[Consumer].op = "complete"
           /\ calls'[Consumer].booking = payments[position],
         Succeeded(calls'[Consumer]) =>
           /\ bookings'[payments[position]] # NoRow
           /\ bookings'[payments[position]].status = StatusCompleted
  PROVE  HandlerInv'
<1>1. Status(payments[position])' =
        IF bookings'[payments[position]] = NoRow THEN "none"
                                                 ELSE bookings'[payments[position]].status
  BY DEF Status
<1>2. Succeeded(calls'[Consumer]) => Status(payments[position])' = StatusCompleted
  BY <1>1
<1>3. QED BY <1>2 DEF HandlerInv, Succeeded

\* The consumer takes a message.
LEMMA TakeConsumerInv ==
  ASSUME ConsumerInv, EventInv', handleEscrowReleased \/ ReleaseUnread
  PROVE  ConsumerInv'
<1> USE DEF ConsumerInv
<1> DEFINE b == payments[position]
<1>1. /\ HandedOver /\ b # NoBooking /\ UNCHANGED consumerVars
      /\ CompleteBooking(Consumer, b) \/ ReadFails(Consumer)
  BY DEF handleEscrowReleased, ReleaseUnread
<1>2. position <= Len(payments) /\ b \in Bookings
  BY <1>1 DEF HandedOver, ConsumerTypeOK, Messages
<1>3. UNCHANGED <<payments, position, committed, consuming, policy>>
  BY <1>1 DEF consumerVars
<1>4. calls \in [Requests -> Calls] /\ Consumer \in Requests
  BY ConsumerAssumption DEF EventInv, LedgerInv, IInv, TInv, TypeOK
<1>5. /\ UNCHANGED bookings
      /\ \/ \E reason \in Refusals : calls' = [calls EXCEPT ![Consumer] = Refused(reason)]
         \/ \E r \in Callers("complete") :
              calls' = [calls EXCEPT ![Consumer] =
                          Updating("complete", b, r, Successor("complete", bookings[b], r))]
  <2>1. CASE ReadFails(Consumer)
    BY <2>1 DEF ReadFails, tables, Refusals
  <2>2. CASE CompleteBooking(Consumer, b)
    <3>1. PICK r \in Callers("complete") : Begin(Consumer, "complete", b, r)
      BY <2>2 DEF CompleteBooking
    <3>2. UNCHANGED bookings
      BY <3>1 DEF Begin, tables
    <3>3. CASE bookings[b] = NoRow
      BY <3>1, <3>2, <3>3 DEF Begin, Refusals
    <3>4. CASE bookings[b] # NoRow /\ Refusal("complete", bookings[b], r) # "ok"
      BY <3>1, <3>2, <3>4, RefusalType DEF Begin
    <3>5. CASE bookings[b] # NoRow /\ Refusal("complete", bookings[b], r) = "ok"
      BY <3>1, <3>2, <3>5 DEF Begin
    <3>6. QED BY <3>3, <3>4, <3>5
  <2>3. QED BY <1>1, <2>1, <2>2
<1>6. /\ calls'[Consumer].pc \in {"update", "reply"}
      /\ calls'[Consumer].pc = "update" =>
           calls'[Consumer].op = "complete" /\ calls'[Consumer].booking = b
      /\ ~Succeeded(calls'[Consumer])
  <2>1. /\ \A reason \in Refusals :
             Refused(reason).pc = "reply" /\ ~Succeeded(Refused(reason))
        /\ \A r, bk : LET d == Updating("complete", b, r, bk) IN
             d.pc = "update" /\ d.op = "complete" /\ d.booking = b /\ ~Succeeded(d)
    BY DEF Refused, Idle, Updating, Succeeded, Refusals
  <2>2. \A d : calls' = [calls EXCEPT ![Consumer] = d] => calls'[Consumer] = d
    BY <1>4
  <2>3. QED BY <1>5, <2>1, <2>2
<1>7. HandlerInv'
  BY <1>2, <1>3, <1>6 DEF HandlerInv, Succeeded
<1>8. ConsumerTypeOK' /\ PassedAreCompleted'
  BY <1>3, <1>5 DEF ConsumerTypeOK, PassedAreCompleted, Status
<1>9. QED BY <1>7, <1>8

\* What the consumer is about to write is a completed booking.
LEMMA ConsumerCompletes ==
  ASSUME ConsumerInv, calls[Consumer].pc = "update"
  PROVE  calls[Consumer].bk.status = StatusCompleted
<1> DEFINE c == calls[Consumer]
<1>1. c.op = "complete" /\ c.booking \in Bookings
  BY DEF ConsumerInv, HandlerInv, Idle
<1>2. IInv /\ Consumer \in Requests
  BY ConsumerAssumption DEF ConsumerInv, EventInv, LedgerInv
<1>3. Derived(c)
  BY <1>2 DEF IInv, CopiesAreDerived
<1>4. history[c.booking][c.bk.version - 1] \in BookingRows
  BY <1>1, <1>2, <1>3 DEF Derived, IInv, TInv, TypeOK
<1>5. c.bk.status = Target(c.op)
  BY <1>1, <1>3, <1>4, SuccessorFields DEF Derived
<1> QED BY <1>1, <1>5 DEF Target

\* The consumer's call goes on.
LEMMA WorkConsumerInv ==
  ASSUME ConsumerInv, EventInv', Work(Consumer), UNCHANGED consumerVars
  PROVE  ConsumerInv'
<1> USE DEF ConsumerInv
<1> DEFINE c == calls[Consumer]
<1> DEFINE b == payments[position]
<1>1. UNCHANGED <<payments, position, committed, consuming, policy>>
  BY DEF consumerVars
<1>2. /\ calls \in [Requests -> Calls] /\ Consumer \in Requests /\ c \in Calls
      /\ IInv /\ Next /\ bookings \in [Bookings -> BookingRows \cup {NoRow}]
  BY ConsumerAssumption DEF EventInv, LedgerInv, IInv, TInv, TypeOK, Next, Continue
<1>3. c # Idle
  BY DEF Work, Progress, Failure, Save, SaveRow, NumberCollides, Update, UpdateRow, Conflict, UpdateInTransaction,
         CommitDecline, DeclineRows, Publish, StatementFails, CommitUnseen, PublishFails, Idle
<1>4. /\ position <= Len(payments) /\ b \in Bookings
      /\ c.pc \in {"update", "publish", "reply"}
      /\ c.pc \in {"update", "publish"} => c.op = "complete" /\ c.booking = b
      /\ Succeeded(c) => Status(b) = StatusCompleted
  BY <1>3 DEF HandlerInv
<1>5. /\ \/ Update(Consumer) \/ Conflict(Consumer) \/ Publish(Consumer)
         \/ StatementFails(Consumer) \/ CommitUnseen(Consumer) \/ PublishFails(Consumer)
      /\ c.pc \in {"update", "publish"}
  BY <1>4 DEF Work, Progress, Failure, Save, SaveRow, NumberCollides, Update, UpdateRow, Conflict,
       UpdateInTransaction, CommitDecline, DeclineRows, Publish, StatementFails, CommitUnseen,
       PublishFails
<1>6. /\ Committed(c).pc = "publish" /\ Committed(c).op = c.op /\ Committed(c).booking = c.booking
      /\ Answered(c).pc = "reply"
      /\ \A reason : /\ Refused(reason).pc = "reply"
                     /\ reason # "ok" => ~Succeeded(Refused(reason))
  BY <1>2 DEF Committed, Answered, Calls, Refused, Idle, Succeeded
<1>7. \A d : calls' = [calls EXCEPT ![Consumer] = d] => calls'[Consumer] = d
  BY <1>2
<1>8. ASSUME Update(Consumer)
      PROVE  HandlerInv'
  <2>1. calls'[Consumer] = Committed(c) /\ UpdateRow(c)
    BY <1>7, <1>8 DEF Update
  <2>2. /\ c.pc = "update" /\ CommitRow(c.booking, c.bk) /\ c.bk \in BookingRows
    BY <1>2, <2>1, WriteFacts, ConsumerAssumption DEF UpdateRow
  <2>3. c.op = "complete" /\ c.booking = b
    BY <1>4, <2>2
  <2>4. c.bk.status = StatusCompleted
    BY <2>2, ConsumerCompletes
  <2>5. bookings'[b] = c.bk /\ c.bk # NoRow
    BY <1>2, <1>4, <2>2, <2>3, NoRowAssumption DEF CommitRow
  <2>6. QED BY <1>1, <1>4, <1>6, <2>1, <2>3, <2>4, <2>5, HandlerStays
<1>9. ASSUME Conflict(Consumer) \/ StatementFails(Consumer) \/ CommitUnseen(Consumer)
      PROVE  HandlerInv'
  <2>1. calls'[Consumer].pc = "reply" /\ ~Succeeded(calls'[Consumer])
    BY <1>6, <1>7, <1>9 DEF Conflict, StatementFails, CommitUnseen
  <2>2. calls'[Consumer].pc \notin {"update", "publish"}
    BY <2>1
  <2>3. QED BY <1>1, <1>4, <2>1, <2>2, HandlerStays
<1>10. ASSUME Publish(Consumer) \/ PublishFails(Consumer)
       PROVE  HandlerInv'
  <2>1. calls'[Consumer] = Answered(c) /\ Succeeded(c) /\ UNCHANGED bookings
    BY <1>7, <1>10 DEF Publish, PublishFails, Succeeded, tables
  <2>2. calls'[Consumer].pc = "reply" /\ calls'[Consumer].pc \notin {"update", "publish"}
    BY <1>6, <2>1
  <2>3. bookings'[b] # NoRow /\ bookings'[b].status = StatusCompleted
    BY <1>4, <2>1 DEF Status, StatusCompleted
  <2>4. QED BY <1>1, <1>4, <2>2, <2>3, HandlerStays
<1>11. HandlerInv'
  BY <1>5, <1>8, <1>9, <1>10
<1>12. ConsumerTypeOK'
  BY <1>1 DEF ConsumerTypeOK
<1>13. PassedAreCompleted'
  <2>1. position' \in 1 .. position + 1 /\ position' <= Len(payments) + 1
        /\ position' # position + 1
    BY <1>1 DEF ConsumerTypeOK
  <2>2. QED BY <1>1, <1>2, <2>1, PassedStay
<1>14. QED BY <1>11, <1>12, <1>13

\* The handler returns, and the consumer does what its policy says.
LEMMA ReturnConsumerInv ==
  ASSUME ConsumerInv, EventInv', HandlerReturns
  PROVE  ConsumerInv'
<1> USE DEF ConsumerInv
<1>1. /\ calls[Consumer].pc = "reply"
      /\ calls' = [calls EXCEPT ![Consumer] = Idle]
      /\ UNCHANGED <<tables, payments, policy>>
  BY DEF HandlerReturns, Respond
<1>2. calls \in [Requests -> Calls] /\ Consumer \in Requests /\ Next
  BY ConsumerAssumption DEF EventInv, LedgerInv, IInv, TInv, TypeOK, Next, Continue,
     HandlerReturns
<1>3. calls'[Consumer] = Idle
  BY <1>1, <1>2
<1>4. calls[Consumer] # Idle
  BY <1>1 DEF Idle
<1>5. /\ position <= Len(payments)
      /\ Succeeded(calls[Consumer]) => Status(payments[position]) = StatusCompleted
  BY <1>4 DEF HandlerInv
<1>6. /\ Len(payments) \in Nat /\ position \in 1 .. Len(payments) + 1
      /\ committed \in 1 .. position
  BY DEF ConsumerTypeOK
<1>7. \/ /\ calls[Consumer].reply = "ok"
         /\ position' = position + 1 /\ committed' = position + 1 /\ UNCHANGED consuming
      \/ /\ policy = "skip"
         /\ position' = position + 1 /\ UNCHANGED <<committed, consuming>>
      \/ /\ UNCHANGED <<position, committed>> /\ consuming' \in BOOLEAN
  BY DEF HandlerReturns, Handled, Acknowledge, ConsumerTypeOK
<1>8. ConsumerTypeOK'
  BY <1>1, <1>5, <1>6, <1>7 DEF ConsumerTypeOK
<1>9. PassedAreCompleted'
  <2>1. position' \in 1 .. position + 1 /\ position' <= Len(payments) + 1
    BY <1>5, <1>6, <1>7
  <2>2. position' = position + 1 /\ policy # "skip" => calls[Consumer].reply = "ok"
    BY <1>6, <1>7
  <2>3. QED BY <1>1, <1>2, <1>5, <2>1, <2>2, PassedStay DEF Succeeded
<1>10. QED BY <1>3, <1>8, <1>9 DEF HandlerInv

\* A message that is none of the service's business is acknowledged.
LEMMA IgnoreConsumerInv ==
  ASSUME ConsumerInv, EventInv', IgnoreMessage
  PROVE  ConsumerInv'
<1> USE DEF ConsumerInv
<1>1. /\ payments[position] = NoBooking /\ position <= Len(payments)
      /\ calls[Consumer] = Idle /\ UNCHANGED vars
      /\ position' = position + 1 /\ committed' = position + 1
      /\ UNCHANGED <<payments, consuming, policy>>
  BY DEF IgnoreMessage, HandedOver, Acknowledge
<1>2. /\ Len(payments) \in Nat /\ position \in 1 .. Len(payments) + 1
  BY DEF ConsumerTypeOK
<1>3. ConsumerTypeOK'
  BY <1>1, <1>2 DEF ConsumerTypeOK
<1>4. calls'[Consumer] = Idle
  BY <1>1 DEF vars
<1>5. PassedAreCompleted'
  BY <1>1, <1>2, PassedStay
<1>6. QED BY <1>3, <1>4, <1>5 DEF HandlerInv

\* After a restart the consumer starts from the committed offset.
LEMMA RestartConsumerInv ==
  ASSUME ConsumerInv, EventInv', Restart
  PROVE  ConsumerInv'
<1> USE DEF ConsumerInv
<1>1. /\ calls'[Consumer] = Idle /\ position' = committed /\ consuming' = TRUE
      /\ UNCHANGED <<payments, committed, policy>> /\ Next
  BY ConsumerAssumption DEF Restart, Crash, Next
<1>2. /\ Len(payments) \in Nat /\ position \in 1 .. Len(payments) + 1
      /\ committed \in 1 .. position
  BY DEF ConsumerTypeOK
<1>3. ConsumerTypeOK'
  BY <1>1, <1>2 DEF ConsumerTypeOK
<1>4. PassedAreCompleted'
  BY <1>1, <1>2, PassedStay
<1>5. QED BY <1>1, <1>3, <1>4 DEF HandlerInv

\* Every step keeps what the consumer relies on.
LEMMA NextConsumerInv == ConsumerInv /\ [ConsumerNext]_allVars => ConsumerInv'
<1> SUFFICES ASSUME ConsumerInv, [ConsumerNext]_allVars PROVE ConsumerInv'
  OBVIOUS
<1>1. [Next]_vars
  BY ServiceStep DEF ConsumerInv
<1>2. EventInv'
  BY <1>1, NextEventInv DEF ConsumerInv
<1>3. CASE UNCHANGED allVars
  BY <1>1, <1>2, <1>3, OthersConsumerInv DEF allVars, vars, consumerVars
<1>4. CASE Restart
  BY <1>2, <1>4, RestartConsumerInv
<1>5. CASE Consume
  BY <1>2, <1>5, IgnoreConsumerInv, TakeConsumerInv, WorkConsumerInv, ReturnConsumerInv
     DEF Consume, HandleMessage, HandlingFails, Work
<1>6. ASSUME NEW m \in Messages, PublishPayment(m)
      PROVE  ConsumerInv'
  BY <1>1, <1>2, <1>6, OthersConsumerInv DEF PublishPayment, vars
<1>7. ASSUME NEW q \in Handlers, Serve(q) \/ (Arrive(q) /\ UNCHANGED consumerVars)
      PROVE  ConsumerInv'
  <2>1. q \in Requests /\ Consumer \in Requests \ {q} /\ (Arrive(q) \/ Continue(q))
        /\ UNCHANGED consumerVars
    BY <1>7, ConsumerAssumption DEF Handlers, Serve
  <2>2. calls'[Consumer] = calls[Consumer]
    BY <2>1, OthersStay DEF ConsumerInv, EventInv, LedgerInv, IInv
  <2>3. QED BY <1>1, <1>2, <2>1, <2>2, OthersConsumerInv DEF consumerVars
<1>8. QED BY <1>3, <1>4, <1>5, <1>6, <1>7
           DEF ConsumerNext, Consume, HandlingFails

-----------------------------------------------------------------------------
(* The theorems. *)

\* What the consumer relies on is true in every state.
THEOREM ConsumerHolds == ConsumerSpec => []ConsumerInv
BY InitConsumerInv, NextConsumerInv, PTL DEF ConsumerSpec

\* With the consumer at work the service is still the service: each theorem
\* about Spec is one about ConsumerSpec.
THEOREM ConsumerIsAService == ConsumerSpec => Spec
<1>1. ConsumerInit => Init
  BY DEF ConsumerInit
<1>2. ConsumerInv /\ [ConsumerNext]_allVars => [Next]_vars
  BY ServiceStep DEF ConsumerInv
<1>3. QED BY <1>1, <1>2, ConsumerHolds, PTL DEF ConsumerSpec, Spec

\* ConsumerTypeOK: the offsets are those of messages of the topic.
THEOREM ConsumerTypes == ConsumerSpec => []ConsumerTypeOK
<1>1. ConsumerInv => ConsumerTypeOK
  BY DEF ConsumerInv
<1>2. QED BY <1>1, ConsumerHolds, PTL

\* CommittedMeansCompleted: no committed offset hides a booking that is not
\* completed, unless lib-common skips errors.
THEOREM CommittedAreCompleted == ConsumerSpec => []CommittedMeansCompleted
<1>1. ConsumerInv => CommittedMeansCompleted
  <2> SUFFICES ASSUME ConsumerInv, policy # "skip", NEW i \in 1 .. committed - 1,
                      payments[i] # NoBooking
               PROVE  Status(payments[i]) = StatusCompleted
    BY DEF CommittedMeansCompleted
  <2>1. i \in 1 .. position - 1
    BY DEF ConsumerInv, ConsumerTypeOK
  <2>2. QED BY <2>1 DEF ConsumerInv, PassedAreCompleted
<1>2. QED BY <1>1, ConsumerHolds, PTL

\* CompletedOnce: a booking is completed by one call, and announced as
\* completed once, however many release its escrow or confirm it.
THEOREM CompletionsAreUnique == ConsumerSpec => []CompletedOnce
<1>1. EventInv => CompletedOnce
  <2> SUFFICES ASSUME EventInv, NEW b \in Bookings
               PROVE  /\ \A v, w \in 1 .. Len(history[b]) :
                           /\ history[b][v].status = StatusCompleted
                           /\ history[b][w].status = StatusCompleted
                           => v = w
                      /\ \A i, j \in 1 .. Len(topic[b]) :
                           topic[b][i].type = "complete" /\ topic[b][j].type = "complete"
                           => i = j
    BY DEF CompletedOnce
  <2>1. IsTerminal(StatusCompleted)
    BY DEF IsTerminal, validTransitions, Statuses, StatusRequested, StatusAccepted,
           StatusInProgress, StatusDelivered, StatusCompleted, StatusCancelled
  <2>2. ASSUME NEW v \in 1 .. Len(history[b]), history[b][v].status = StatusCompleted
        PROVE  v = Len(history[b])
    BY <2>1, <2>2, TerminalIsLast DEF EventInv
  <2>3. ASSUME NEW i \in 1 .. Len(topic[b]), NEW j \in 1 .. Len(topic[b]),
               topic[b][i].type = "complete", topic[b][j].type = "complete"
        PROVE  i = j
    <3>1. /\ topic[b][i].version \in 1 .. Len(history[b])
          /\ topic[b][j].version \in 1 .. Len(history[b])
          /\ history[b][topic[b][i].version].status = StatusCompleted
          /\ history[b][topic[b][j].version].status = StatusCompleted
      BY <2>3 DEF EventInv, EventsReflectCommits, EventStatus, Target
    <3>2. topic[b][i].version = topic[b][j].version
      BY <2>2, <3>1
    <3>3. QED BY <3>2 DEF EventInv, EventsReflectCommits
  <2>4. QED BY <2>2, <2>3
<1>2. ConsumerInv => EventInv
  BY DEF ConsumerInv
<1>3. QED BY <1>1, <1>2, ConsumerHolds, PTL

\* LostCompletionsAreSettled: who loses the race to complete a booking loses
\* it to a completion.
THEOREM LostRacesAreSettled == ConsumerSpec => LostCompletionsAreSettled
<1>1. LedgerInv /\ [ConsumerNext]_allVars =>
        [\A q \in Requests : Conflict(q) /\ calls[q].op = "complete" =>
           Status(calls[q].booking) = StatusCompleted]_allVars
  <2> SUFFICES ASSUME LedgerInv, NEW q \in Requests, Conflict(q), calls[q].op = "complete"
               PROVE  Status(calls[q].booking) = StatusCompleted
    OBVIOUS
  <2> DEFINE b == calls[q].booking
  <2> DEFINE v == calls[q].bk.version
  <2> DEFINE old == history[b][v - 1]
  <2> DEFINE new == history[b][v]
  <2>1. /\ b \in Bookings /\ v \in 2 .. Len(history[b])
        /\ old \in BookingRows /\ new \in BookingRows
        /\ Refusal("complete", old, calls[q].runner) = "ok"
        /\ LegalStep(old, new)
    BY ConflictFacts
  <2>2. old.status = StatusDelivered
    BY <2>1, PermittedMeans, Sources DEF Transitions, BookingRows
  <2>3. PICK op \in Transitions : \E r \in Callers(op) :
          Refusal(op, old, r) = "ok" /\ new = Successor(op, old, r)
    BY <2>1 DEF LegalStep
  <2>4. Target(op) \in validTransitions[StatusDelivered] /\ new.status = Target(op)
    BY <2>1, <2>2, <2>3, PermittedMeans, SuccessorFields
  <2>5. new.status = StatusCompleted
    BY <2>4 DEF validTransitions, Statuses, StatusRequested, StatusAccepted, StatusInProgress,
         StatusDelivered, StatusCompleted, StatusCancelled
  <2>6. IsTerminal(new.status)
    BY <2>5 DEF IsTerminal, validTransitions, Statuses, StatusRequested, StatusAccepted,
         StatusInProgress, StatusDelivered, StatusCompleted, StatusCancelled
  <2>7. v \in 1 .. Len(history[b])
    <3>1. Len(history[b]) \in Nat
      BY <2>1 DEF LedgerInv, IInv, TInv, TypeOK
    <3> QED BY <2>1, <3>1
  <2>8. bookings[b] = new
    BY <2>1, <2>6, <2>7, TerminalIsLast
  <2> QED BY <2>1, <2>5, <2>8, NoRowAssumption DEF Status
<1>2. ConsumerInv => LedgerInv
  BY DEF ConsumerInv, EventInv
<1> QED BY <1>1, <1>2, ConsumerHolds, PTL DEF ConsumerSpec, LostCompletionsAreSettled

-----------------------------------------------------------------------------
(* The process. *)

\* A step of the process is a step of the consumer beside the service, or
\* none.
LEMMA ConsumerStep == [ServerNext]_serverVars => [ConsumerNext]_allVars
<1> SUFFICES ASSUME [ServerNext]_serverVars PROVE [ConsumerNext]_allVars
  OBVIOUS
<1>1. CASE UNCHANGED serverVars
  BY <1>1 DEF serverVars
<1>2. CASE Boot \/ ListenAndServe \/ Signal \/ Shutdown
  BY <1>2 DEF Boot, ListenAndServe, Signal, Shutdown
<1>3. CASE Exit \/ Dies
  BY <1>3 DEF Exit, Dies, ConsumerNext
<1>4. CASE Consumes
  BY <1>4 DEF Consumes, Consume, HandlingFails, ConsumerNext
<1>5. CASE \E m \in Messages : PublishPayment(m)
  BY <1>5 DEF ConsumerNext
<1>6. ASSUME NEW q \in Handlers, CallArrives(q) \/ CallGoesOn(q)
      PROVE  ConsumerNext
  <2>1. (Arrive(q) \/ Continue(q)) /\ UNCHANGED consumerVars
    BY <1>6 DEF CallArrives, CallGoesOn, InsertFails, Failure, Arrive, Continue, Work
  <2> QED BY <2>1 DEF ConsumerNext, Serve
<1> QED BY <1>1, <1>2, <1>3, <1>4, <1>5, <1>6 DEF ServerNext

\* So what is true of the consumer beside the service is true of the process.
LEMMA ServerIsAConsumer == ServerSpec => ConsumerSpec
<1>1. ServerInit => ConsumerInit
  BY DEF ServerInit
<1> QED BY <1>1, ConsumerStep, PTL DEF ServerSpec, ConsumerSpec

\* So the process keeps what the consumer relies on.
LEMMA ServerHolds == ServerSpec => []ConsumerInv
BY ServerIsAConsumer, ConsumerHolds, PTL

\* Whatever main does, the process is the service: each theorem about Spec,
\* the refinements included, is one about ServerSpec.
THEOREM ServerIsAService == ServerSpec => Spec
BY ServerIsAConsumer, ConsumerIsAService, PTL

\* Starting, draining, stopping and dying cost no completion, double none and
\* leave no lost race unsettled.
THEOREM ServerKeepsCompletions ==
  ServerSpec => [](CommittedMeansCompleted /\ CompletedOnce) /\ LostCompletionsAreSettled
BY ServerIsAConsumer, CommittedAreCompleted, CompletionsAreUnique, LostRacesAreSettled, PTL

\* Unless errors are skipped, the position is the offset that is committed.
InStep == policy # "skip" => committed = position

\* Position and offset move together, and a new consumer starts where the old
\* one stood.
LEMMA NextInStep == ConsumerInv /\ InStep /\ [ConsumerNext]_allVars => InStep'
<1> SUFFICES ASSUME ConsumerInv, InStep, [ConsumerNext]_allVars PROVE InStep'
  OBVIOUS
<1>1. CASE UNCHANGED <<position, committed, policy>>
  BY <1>1 DEF InStep
<1>2. CASE Restart
  BY <1>2 DEF Restart, InStep
<1>3. CASE IgnoreMessage
  BY <1>3 DEF IgnoreMessage, Acknowledge, InStep
<1>4. CASE HandlerReturns
  BY <1>4 DEF HandlerReturns, Acknowledge, InStep
<1>5. \/ UNCHANGED <<position, committed, policy>>
      \/ Restart \/ IgnoreMessage \/ HandlerReturns
  BY DEF ConsumerNext, Consume, HandlingFails, HandleMessage, handleEscrowReleased, ReleaseUnread,
         PublishPayment, Serve, consumerVars, allVars
<1>6. QED BY <1>1, <1>2, <1>3, <1>4, <1>5

\* The safe half of ReleasesSettleOnceServed: unless errors are skipped, every
\* release that is not settled lies at or behind the offset the next consumer
\* starts from, whether the present one is alive, has ended at an error while
\* the process serves on, or has died with it (main.go:117-122).
UnsettledAreAhead ==
  policy # "skip" =>
    /\ committed = position
    /\ \A i \in 1 .. Len(payments) :
         payments[i] # NoBooking /\ Status(payments[i]) # StatusCompleted => committed <= i

\* UnsettledAreAhead: a consumer that ends loses no release.
THEOREM ReleasesAreKept == ServerSpec => []UnsettledAreAhead
<1>1. ConsumerInit => InStep
  BY DEF ConsumerInit, InStep
<1>2. ConsumerInv /\ InStep => UnsettledAreAhead
  <2> SUFFICES ASSUME ConsumerInv, policy # "skip", committed = position,
                      NEW i \in 1 .. Len(payments), payments[i] # NoBooking,
                      Status(payments[i]) # StatusCompleted
               PROVE  committed <= i
    BY DEF InStep, UnsettledAreAhead
  <2>1. i \in Nat /\ i >= 1 /\ position \in Nat
    BY DEF ConsumerInv, ConsumerTypeOK
  <2>2. i \notin 1 .. position - 1
    BY DEF ConsumerInv, PassedAreCompleted
  <2>3. QED BY <2>1, <2>2
<1>3. QED BY <1>1, <1>2, NextInStep, ServerIsAConsumer, ConsumerHolds, PTL DEF ConsumerSpec

\* The consumer records no decline.
LEMMA ConsumerDeclinesNothing ==
  ASSUME ConsumerInv, Consume
  PROVE  UNCHANGED declineReasons
<1>1. calls[Consumer].pc # "insert"
  BY DEF ConsumerInv, HandlerInv, Idle
<1>2. ASSUME NEW b \in Bookings, CompleteBooking(Consumer, b)
      PROVE  UNCHANGED declineReasons
  BY <1>2 DEF CompleteBooking, Begin, tables
<1>3. CASE handleEscrowReleased
  BY <1>2, <1>3 DEF handleEscrowReleased, HandedOver, ConsumerInv, ConsumerTypeOK, Messages
<1>4. CASE IgnoreMessage \/ ReleaseUnread \/ HandlerReturns
  BY <1>4 DEF IgnoreMessage, ReleaseUnread, HandlerReturns, ReadFails, Respond, vars, tables
<1>5. CASE Progress(Consumer) \/ Failure(Consumer)
  BY <1>1, <1>5 DEF Progress, Failure, Save, SaveRow, NumberCollides, Update, UpdateRow,
       Conflict, UpdateInTransaction, CommitDecline, DeclineRows, Publish, StatementFails,
       CommitUnseen, PublishFails, tables
<1> QED BY <1>3, <1>4, <1>5 DEF Consume, HandleMessage, HandlingFails

\* NoDeclineWithoutTable: where the reasons have no table no runner gets rid
\* of a booking.
THEOREM NoTableNoDecline == ServerSpec => NoDeclineWithoutTable
<1>1. ASSUME ConsumerInv, [ServerNext]_serverVars, appEnv = "development"
      PROVE  UNCHANGED declineReasons
  <2>1. CASE UNCHANGED serverVars
    BY <2>1 DEF serverVars, allVars, vars, tables
  <2>2. CASE Boot \/ ListenAndServe \/ Signal \/ Shutdown
    BY <2>2 DEF Boot, ListenAndServe, Signal, Shutdown, allVars, vars, tables
  <2>3. CASE Exit \/ Dies
    BY <2>3 DEF Exit, Dies, Restart, Crash
  <2>4. CASE Consumes
    BY <1>1, <2>4, ConsumerDeclinesNothing DEF Consumes, Consume
  <2>5. CASE \E m \in Messages : PublishPayment(m)
    BY <2>5 DEF PublishPayment, vars, tables
  <2>6. ASSUME NEW q \in Handlers, CallArrives(q)
        PROVE  UNCHANGED declineReasons
    <3>1. q \in Requests /\ Arrive(q)
      BY <2>6 DEF CallArrives, Arrive, Handlers
    <3> QED BY <1>1, <3>1, ArriveCases
            DEF ConsumerInv, EventInv, LedgerInv, IInv, TInv, tables
  <2>7. ASSUME NEW q \in Handlers, CallGoesOn(q)
        PROVE  UNCHANGED declineReasons
    BY <1>1, <2>7 DEF CallGoesOn, ReasonsStored, InsertFails, StatementFails
  <2> QED BY <1>1, <2>1, <2>2, <2>3, <2>4, <2>5, <2>6, <2>7 DEF ServerNext
<1>2. ASSUME ConsumerInv, [ServerNext]_serverVars, appEnv = "development",
             NEW b \in Bookings, bookings[b] # NoRow, bookings[b].runner # NoRunner
      PROVE  bookings'[b].runner = bookings[b].runner
  <2>1. LedgerInv /\ [Next]_vars
    BY <1>2, ConsumerStep, ServiceStep DEF ConsumerInv, EventInv
  <2>2. Leave(b) /\ UNCHANGED declineReasons
    BY <1>1, <1>2, <2>1, RunnerLeaves
  <2>3. declineReasons[b] \in Seq(Runners)
    BY <2>1 DEF LedgerInv, IInv, TInv, TypeOK
  <2>4. \A r : Append(declineReasons[b], r) # declineReasons[b]
    <3> SUFFICES ASSUME NEW r, Append(declineReasons[b], r) = declineReasons[b] PROVE FALSE
      OBVIOUS
    <3>1. Len(Append(declineReasons[b], r)) = Len(declineReasons[b]) + 1
      BY <2>3
    <3>2. Len(declineReasons[b]) \in Nat
      BY <2>3
    <3> QED BY <3>1, <3>2
  <2> QED BY <1>2, <2>2, <2>4 DEF Leave, Exists
<1>3. ConsumerInv /\ [ServerNext]_serverVars
      => [appEnv = "development" =>
            \A b \in Bookings :
              bookings[b] # NoRow /\ bookings[b].runner # NoRunner
                => bookings'[b].runner = bookings[b].runner]_serverVars
  BY <1>2
<1> QED BY <1>3, ServerHolds, PTL DEF ServerSpec, NoDeclineWithoutTable

-----------------------------------------------------------------------------
(* An orderly stop. *)

\* When the server has been shut down in a calm deployment no call is left.
DrainedWhenCalm ==
  calm /\ phase = "closing" => \A q \in Handlers : calls[q] = Idle

\* Version v of booking b is the completion a payment message asked for.
Settled(b, v) ==
  /\ history[b][v].status = StatusCompleted
  /\ \E i \in 1 .. Len(payments) : payments[i] = b

\* The inductive invariant: OrderlyStopLosesOnlyCompletions in other words, and
\* what it rests on.
OrderlyInv ==
  /\ ConsumerInv
  /\ DrainedWhenCalm
  /\ calm => \A b \in Bookings : \A v \in 1 .. Len(history[b]) : Told(b, v) \/ Settled(b, v)

\* What is settled stays settled.
LEMMA SettledStays ==
  ASSUME IInv, TableStep, ConsumerTypeOK,
         UNCHANGED payments \/ \E m : payments' = Append(payments, m),
         NEW b \in Bookings, NEW v \in 1 .. Len(history[b]), Settled(b, v)
  PROVE  Settled(b, v)'
<1>1. history'[b][v] = history[b][v]
  BY HistoryStays
<1>2. PICK i \in 1 .. Len(payments) : payments[i] = b
  BY DEF Settled
<1>3. payments \in Seq(Messages)
  BY DEF ConsumerTypeOK
<1>4. i \in 1 .. Len(payments') /\ payments'[i] = payments[i]
  <2>1. ASSUME NEW m, payments' = Append(payments, m)
        PROVE  i \in 1 .. Len(payments') /\ payments'[i] = payments[i]
    BY <1>3, <2>1
  <2> QED BY <1>3, <2>1
<1> QED BY <1>1, <1>2, <1>4 DEF Settled

\* What the consumer has completed and not announced is settled.
LEMMA ConsumerSettles ==
  ASSUME ConsumerInv, calls[Consumer].pc = "publish"
  PROVE  Settled(calls[Consumer].booking, calls[Consumer].bk.version)
<1> DEFINE c == calls[Consumer]
<1>1. /\ c.op = "complete" /\ c.booking = payments[position]
      /\ position \in 1 .. Len(payments)
  BY DEF ConsumerInv, HandlerInv, ConsumerTypeOK, Idle
<1>2. c.bk.status = StatusCompleted
  BY <1>1, ConsumerAssumption DEF ConsumerInv, EventInv, PublishesItsChange, EventStatus, Target
<1>3. history[c.booking][c.bk.version] = c.bk
  BY ConsumerAssumption
     DEF ConsumerInv, EventInv, LedgerInv, IInv, RepliesAreCommitted, Succeeded
<1> QED BY <1>1, <1>2, <1>3 DEF Settled

\* What the consumer commits is settled, whether it notices or not.
LEMMA ConsumerCommitSettles ==
  ASSUME ConsumerInv, EventInv', UpdateRow(calls[Consumer]), UNCHANGED payments,
         NEW b \in Bookings, NEW v \in 1 .. Len(history'[b]), v \notin 1 .. Len(history[b])
  PROVE  Settled(b, v)'
<1> DEFINE c == calls[Consumer]
<1>1. c.pc = "update"
  BY DEF UpdateRow
<1>2. /\ c.bk.status = StatusCompleted /\ c.booking = payments[position]
      /\ position \in 1 .. Len(payments)
  BY <1>1, ConsumerCompletes DEF ConsumerInv, HandlerInv, ConsumerTypeOK, Idle
<1>3. IInv /\ Consumer \in Requests
  BY ConsumerAssumption DEF ConsumerInv, EventInv, LedgerInv
<1>4. /\ c.booking \in Bookings /\ c.bk \in BookingRows
      /\ c.bk.version = Len(history[c.booking]) + 1
      /\ CommitRow(c.booking, c.bk)
  BY <1>3, WriteFacts
<1>5. /\ b # c.booking => history'[b] = history[b]
      /\ b = c.booking => /\ Len(history'[b]) = Len(history[b]) + 1
                          /\ history'[b][Len(history[b]) + 1] = c.bk
  BY <1>3, <1>4, HistoryGrows DEF IInv, TInv
<1>6. Len(history[b]) \in Nat
  BY <1>3 DEF IInv, TInv, TypeOK
<1>7. b = c.booking /\ history'[b][v] = c.bk
  BY <1>5, <1>6
<1> QED BY <1>2, <1>7 DEF Settled

\* A version that was told, or settled, still is, if the handlers tell theirs.
LEMMA OldVersions ==
  ASSUME OrderlyInv, [Next]_vars, calm,
         UNCHANGED payments \/ \E m : payments' = Append(payments, m),
         \A x \in Handlers : StillTells(x),
         NEW b \in Bookings, NEW v \in 1 .. Len(history[b])
  PROVE  (Told(b, v) \/ Settled(b, v))'
<1>1. EventInv /\ IInv /\ TableStep /\ ConsumerTypeOK
  BY NextTableStep DEF OrderlyInv, ConsumerInv, EventInv, LedgerInv
<1>2. CASE Settled(b, v)
  BY <1>1, <1>2, SettledStays
<1>3. CASE ~Settled(b, v)
  <2>1. Told(b, v)
    BY <1>3 DEF OrderlyInv
  <2>2. ASSUME NEW x \in Requests, calls[x].booking = b, calls[x].bk.version = v
        PROVE  StillTells(x)
    <3>1. CASE x = Consumer
      <4>1. calls[Consumer].pc # "publish"
        BY <1>3, <2>2, <3>1, ConsumerSettles DEF OrderlyInv
      <4> QED BY <3>1, <4>1 DEF StillTells
    <3>2. CASE x # Consumer
      BY <3>2 DEF Handlers
    <3> QED BY <3>1, <3>2
  <2> QED BY <1>1, <2>1, <2>2, ToldStays
<1> QED BY <1>2, <1>3

\* A call that does not fail keeps everything told.
LEMMA CalmCallTells ==
  ASSUME OrderlyInv, [Next]_vars, calm, UNCHANGED payments,
         NEW q \in Requests, Ask(q) \/ Progress(q) \/ Respond(q),
         NEW b \in Bookings, NEW v \in 1 .. Len(history'[b])
  PROVE  (Told(b, v) \/ Settled(b, v))'
<1>1. EventInv /\ IInv
  BY DEF OrderlyInv, ConsumerInv, EventInv, LedgerInv
<1>2. \A x \in Handlers : StillTells(x)
  BY <1>1, CalmStillTells DEF Handlers
<1>3. CASE v \in 1 .. Len(history[b])
  BY <1>2, <1>3, OldVersions
<1>4. CASE v \notin 1 .. Len(history[b])
  BY <1>1, <1>4, CommitTold
<1> QED BY <1>3, <1>4

\* When the consumer fails, what it leaves untold is settled.
LEMMA FailureSettles ==
  ASSUME OrderlyInv, EventInv', [Next]_vars, calm, HandlingFails,
         NEW b \in Bookings, NEW v \in 1 .. Len(history'[b])
  PROVE  (Told(b, v) \/ Settled(b, v))'
<1>1. TInv /\ ConsumerInv
  BY DEF OrderlyInv, ConsumerInv, EventInv, LedgerInv, IInv
<1>2. /\ UNCHANGED payments
      /\ Arrive(Consumer) \/ Continue(Consumer)
      /\ ReadFails(Consumer) \/ Failure(Consumer)
  BY DEF HandlingFails, ReleaseUnread, Arrive, Continue, Work, consumerVars
<1>3. \A x \in Handlers : calls'[x] = calls[x]
  BY <1>1, <1>2, OthersStay, ConsumerAssumption DEF Handlers
<1>4. \A x \in Handlers : StillTells(x)
  BY <1>3 DEF StillTells
<1>5. CASE v \in 1 .. Len(history[b])
  BY <1>2, <1>4, <1>5, OldVersions
<1>6. CASE v \notin 1 .. Len(history[b])
  <2>1. history' # history
    BY <1>6
  <2>2. CommitUnseen(Consumer)
    BY <1>2, <2>1 DEF Failure, ReadFails, StatementFails, PublishFails, tables
  <2>3. calls[Consumer].pc \notin {"save", "insert"}
    BY <1>1 DEF ConsumerInv, HandlerInv, Idle
  <2>4. UpdateRow(calls[Consumer])
    BY <2>2, <2>3 DEF CommitUnseen, SaveRow, DeclineRows
  <2>5. UNCHANGED payments
    BY <1>2
  <2> QED BY <1>1, <1>6, <2>4, <2>5, ConsumerCommitSettles
<1> QED BY <1>5, <1>6

\* The consumer takes, works on or finishes a message without a failure.
LEMMA MessageTells ==
  ASSUME OrderlyInv, [Next]_vars, calm, HandleMessage,
         NEW b \in Bookings, NEW v \in 1 .. Len(history'[b])
  PROVE  (Told(b, v) \/ Settled(b, v))'
<1>1. CASE IgnoreMessage
  <2>1. UNCHANGED <<payments, calls, history>>
    BY <1>1 DEF IgnoreMessage, vars, tables
  <2>2. \A x \in Handlers : StillTells(x)
    BY <2>1 DEF StillTells
  <2> QED BY <2>1, <2>2, OldVersions
<1>2. CASE ~IgnoreMessage
  <2>1. handleEscrowReleased => payments[position] \in Bookings
    BY DEF handleEscrowReleased, HandedOver, OrderlyInv, ConsumerInv, ConsumerTypeOK, Messages
  <2>2. Ask(Consumer) \/ Progress(Consumer) \/ Respond(Consumer)
    BY <1>2, <2>1 DEF HandleMessage, handleEscrowReleased, HandlerReturns, Ask
  <2>3. UNCHANGED payments
    BY <1>2 DEF HandleMessage, handleEscrowReleased, HandlerReturns, consumerVars
  <2> QED BY <2>2, <2>3, CalmCallTells, ConsumerAssumption
<1> QED BY <1>1, <1>2

\* A handler starts a call, or goes on with one.
LEMMA HandlerTells ==
  ASSUME OrderlyInv, [Next]_vars, calm, NEW q \in Handlers, CallArrives(q) \/ CallGoesOn(q),
         NEW b \in Bookings, NEW v \in 1 .. Len(history'[b])
  PROVE  (Told(b, v) \/ Settled(b, v))'
<1>1. q \in Requests /\ UNCHANGED payments
  BY DEF Handlers, CallArrives, CallGoesOn, consumerVars
<1>2. CASE Ask(q) \/ Progress(q) \/ Respond(q)
  BY <1>1, <1>2, CalmCallTells
<1>3. CASE InsertFails(q)
  <2>1. TInv /\ Continue(q) /\ calls[q].pc = "insert" /\ UNCHANGED history
    BY <1>3 DEF InsertFails, StatementFails, Continue, Work, Failure, OrderlyInv, ConsumerInv,
                EventInv, LedgerInv, IInv
  <2>2. \A x \in Handlers : x # q => calls'[x] = calls[x]
    BY <1>1, <2>1, OthersStay DEF Handlers
  <2>3. \A x \in Handlers : StillTells(x)
    BY <2>1, <2>2 DEF StillTells
  <2> QED BY <1>1, <2>1, <2>3, OldVersions
<1> QED BY <1>2, <1>3 DEF CallArrives, CallGoesOn

\* Once the server is shut down no call comes to life again.
LEMMA DrainedStays ==
  ASSUME OrderlyInv, [ServerNext]_serverVars
  PROVE  DrainedWhenCalm'
<1> SUFFICES ASSUME calm', phase' = "closing", NEW x \in Handlers
             PROVE  calls'[x] = Idle
  BY DEF DrainedWhenCalm
<1>1. TInv
  BY DEF OrderlyInv, ConsumerInv, EventInv, LedgerInv, IInv
<1>2. ASSUME calm, phase = "closing"
      PROVE  calls[x] = Idle
  BY <1>2 DEF OrderlyInv, DrainedWhenCalm
<1>3. CASE UNCHANGED serverVars
  BY <1>2, <1>3 DEF serverVars, mainVars, allVars, vars
<1>4. CASE Shutdown
  BY <1>4 DEF Shutdown, GoTo, allVars, vars
<1>5. ~(Boot \/ ListenAndServe \/ Signal \/ Exit \/ Dies)
  BY DEF Boot, ListenAndServe, Signal, Exit, Dies, GoTo
<1>6. CASE Consumes
  <2>1. calm /\ phase = "closing" /\ Consume
    BY <1>6 DEF Consumes, Consume, mainVars
  <2>2. CASE IgnoreMessage
    BY <1>2, <2>1, <2>2 DEF IgnoreMessage, vars
  <2>3. CASE ~IgnoreMessage
    <3>1. handleEscrowReleased => payments[position] \in Bookings
      BY DEF handleEscrowReleased, HandedOver, OrderlyInv, ConsumerInv, ConsumerTypeOK, Messages
    <3>2. Arrive(Consumer) \/ Continue(Consumer)
      BY <2>1, <2>3, <3>1 DEF Consume, HandleMessage, HandlingFails, handleEscrowReleased,
         ReleaseUnread, HandlerReturns, Arrive, Ask, Continue, Work
    <3> QED BY <1>1, <1>2, <2>1, <3>2, OthersStay, ConsumerAssumption DEF Handlers
  <2> QED BY <2>2, <2>3
<1>7. CASE \E m \in Messages : PublishPayment(m) /\ UNCHANGED mainVars
  BY <1>2, <1>7 DEF PublishPayment, mainVars, vars
<1>8. ASSUME NEW q \in Handlers, CallArrives(q) \/ CallGoesOn(q)
      PROVE  calls'[x] = Idle
  <2>1. calm /\ phase = "closing" /\ CallGoesOn(q)
    BY <1>8 DEF CallArrives, CallGoesOn, mainVars
  <2>2. calls[q] = Idle
    BY <2>1 DEF OrderlyInv, DrainedWhenCalm
  <2>3. calls[q].pc = "idle"
    BY <2>2 DEF Idle
  <2> QED BY <2>1, <2>3 DEF CallGoesOn, Progress, Save, SaveRow, NumberCollides, Update,
          UpdateRow, Conflict, UpdateInTransaction, CommitDecline, DeclineRows, Publish, Respond,
          InsertFails
<1> QED BY <1>3, <1>4, <1>5, <1>6, <1>7, <1>8 DEF ServerNext

\* Every step of the process keeps what has to be told.
LEMMA NextOrderlyInv == OrderlyInv /\ [ServerNext]_serverVars => OrderlyInv'
<1> SUFFICES ASSUME OrderlyInv, [ServerNext]_serverVars PROVE OrderlyInv'
  OBVIOUS
<1>1. [ConsumerNext]_allVars /\ [Next]_vars
  BY ConsumerStep, ServiceStep DEF OrderlyInv, ConsumerInv
<1>2. ConsumerInv' /\ EventInv'
  BY <1>1, NextConsumerInv DEF OrderlyInv, ConsumerInv
<1>3. DrainedWhenCalm'
  BY DrainedStays
<1>4. ASSUME calm', NEW b \in Bookings, NEW v \in 1 .. Len(history'[b])
      PROVE  (Told(b, v) \/ Settled(b, v))'
  <2>1. CASE \/ UNCHANGED serverVars
             \/ Boot \/ ListenAndServe \/ Signal \/ Shutdown
             \/ \E m \in Messages : PublishPayment(m) /\ UNCHANGED mainVars
    <3>1. calm /\ UNCHANGED vars
          /\ (UNCHANGED payments \/ \E m : payments' = Append(payments, m))
      BY <1>4, <2>1 DEF serverVars, allVars, mainVars, consumerVars, Boot, ListenAndServe,
         Signal, Shutdown, GoTo, PublishPayment
    <3>2. UNCHANGED history /\ \A x \in Handlers : StillTells(x)
      BY <3>1 DEF vars, tables, StillTells
    <3> QED BY <1>1, <3>1, <3>2, OldVersions
  <2>2. CASE Exit
    <3>1. calm /\ phase = "closing" /\ UNCHANGED <<payments, history>>
      BY <1>4, <2>2 DEF Exit, GoTo, Restart, Crash
    <3>2. \A x \in Handlers : StillTells(x)
      BY <3>1 DEF StillTells, OrderlyInv, DrainedWhenCalm, Idle
    <3> QED BY <1>1, <3>1, <3>2, OldVersions
  <2>3. ~Dies
    BY <1>4 DEF Dies, GoTo
  <2>4. CASE Consumes
    BY <1>1, <1>2, <1>4, <2>4, MessageTells, FailureSettles DEF Consumes, mainVars
  <2>5. ASSUME NEW q \in Handlers, CallArrives(q) \/ CallGoesOn(q)
        PROVE  (Told(b, v) \/ Settled(b, v))'
    <3>1. calm
      BY <1>4, <2>5 DEF CallArrives, CallGoesOn, mainVars
    <3> QED BY <1>1, <2>5, <3>1, HandlerTells
  <2> QED BY <2>1, <2>2, <2>3, <2>4, <2>5 DEF ServerNext
<1> QED BY <1>2, <1>3, <1>4 DEF OrderlyInv

\* OrderlyStopLosesOnlyCompletions: however often a calm deployment is stopped
\* and started, no change made by an HTTP call goes unannounced.
THEOREM OrderlyStops == ServerSpec => []OrderlyStopLosesOnlyCompletions
<1>1. ServerInit => OrderlyInv
  <2> SUFFICES ASSUME ServerInit PROVE OrderlyInv
    OBVIOUS
  <2>1. ConsumerInv
    BY InitConsumerInv DEF ServerInit
  <2>2. \A b \in Bookings : history[b] = << >>
    BY DEF ServerInit, ConsumerInit, Init
  <2>3. phase # "closing"
    BY DEF ServerInit
  <2> QED BY <2>1, <2>2, <2>3 DEF OrderlyInv, DrainedWhenCalm
<1>2. OrderlyInv => OrderlyStopLosesOnlyCompletions
  BY DEF OrderlyInv, OrderlyStopLosesOnlyCompletions, Told, OnTopic, Pending, Settled
<1> QED BY <1>1, <1>2, NextOrderlyInv, PTL DEF ServerSpec

=============================================================================
