-------------------------- MODULE BookingEventsProofs --------------------------
(***************************************************************************)
(* What the callers of BookingService are told, for every value of the      *)
(* constants: the answers of concurrent calls and the events they publish   *)
(* after their commits.                                                     *)
(***************************************************************************)
EXTENDS BookingLedgerProofs

-----------------------------------------------------------------------------
(* The inductive invariant. *)

\* A call about to publish committed what its operation is for.
PublishesItsChange ==
  \A q \in Requests : calls[q].pc = "publish" =>
    /\ calls[q].op \in Operations
    /\ calls[q].bk.status = EventStatus(calls[q].op)

\* The version a call is about to announce is not on the topic yet.
PendingUnannounced ==
  \A q \in Requests : calls[q].pc = "publish" =>
    \A i \in 1 .. Len(topic[calls[q].booking]) :
      topic[calls[q].booking][i].version # calls[q].bk.version

EventInv ==
  /\ LedgerInv
  /\ OneWriterPerVersion
  /\ PublishesItsChange
  /\ PendingUnannounced
  /\ EventsReflectCommits

\* Call x has succeeded in this step with the next version of its booking.
JustWritten(x) ==
  /\ calls[x].booking \in Bookings
  /\ calls'[x].booking = calls[x].booking
  /\ calls'[x].bk.version = Len(history[calls[x].booking]) + 1

\* Call x had succeeded before this step.
StillSucceeds(x) ==
  /\ Succeeded(calls[x])
  /\ calls'[x].booking = calls[x].booking
  /\ calls'[x].bk = calls[x].bk

\* In one step at most one call succeeds, by writing the next version.
LEMMA NewSuccesses ==
  ASSUME IInv, [Next]_vars
  PROVE  \/ \A x \in Requests : Succeeded(calls'[x]) => StillSucceeds(x)
         \/ \E q \in Requests :
              /\ JustWritten(q)
              /\ \A x \in Requests \ {q} : Succeeded(calls'[x]) => StillSucceeds(x)
<1> DEFINE None == \A x \in Requests : Succeeded(calls'[x]) => StillSucceeds(x)
<1> DEFINE One(q) == /\ JustWritten(q)
                     /\ \A x \in Requests \ {q} : Succeeded(calls'[x]) => StillSucceeds(x)
<1>1. \A q \in Requests : calls[q] \in Calls
  BY DEF IInv, TInv, TypeOK
<1>2. CASE UNCHANGED vars
  BY <1>2 DEF vars, StillSucceeds
<1>3. CASE Crash
  BY <1>3 DEF Crash, Idle, Succeeded
<1>4. ASSUME NEW q \in Requests, NEW d, calls' = [calls EXCEPT ![q] = d],
             \/ ~Succeeded(d)
             \/ Succeeded(calls[q]) /\ d.booking = calls[q].booking /\ d.bk = calls[q].bk
      PROVE  None
  <2>1. calls'[q] = d /\ \A x \in Requests \ {q} : calls'[x] = calls[x]
    BY <1>4 DEF IInv, TInv, TypeOK
  <2>2. ASSUME NEW x \in Requests, Succeeded(calls'[x])
        PROVE  StillSucceeds(x)
    <3>1. CASE x = q
      BY <1>4, <2>1, <2>2, <3>1 DEF StillSucceeds
    <3>2. CASE x # q
      <4>1. calls'[x] = calls[x]
        BY <2>1, <3>2
      <4>2. QED BY <2>2, <4>1 DEF StillSucceeds
    <3>3. QED BY <3>1, <3>2
  <2>3. QED BY <2>2
<1>5. ASSUME NEW q \in Requests, NEW d, calls' = [calls EXCEPT ![q] = d],
             SaveRow(calls[q]) \/ UpdateRow(calls[q]) \/ DeclineRows(calls[q]),
             d.booking = calls[q].booking, d.bk = calls[q].bk
      PROVE  One(q)
  <2>1. calls'[q] = d /\ \A x \in Requests \ {q} : calls'[x] = calls[x]
    BY <1>5 DEF IInv, TInv, TypeOK
  <2>2. JustWritten(q)
    BY <1>5, <2>1, WriteFacts DEF JustWritten
  <2>3. ASSUME NEW x \in Requests \ {q}, Succeeded(calls'[x])
        PROVE  StillSucceeds(x)
    <3>1. calls'[x] = calls[x]
      BY <2>1
    <3>2. QED BY <2>3, <3>1 DEF StillSucceeds
  <2>4. QED BY <2>2, <2>3
<1>6. /\ \A reason \in Refusals : ~Succeeded(Refused(reason))
      /\ ~Succeeded(Idle)
      /\ "error" \in Refusals /\ "conflict" \in Refusals
  BY DEF Refused, Idle, Succeeded, Refusals
<1>7. ASSUME NEW q \in Requests, Arrive(q)
      PROVE  None
  <2>1. \/ \E reason \in Refusals : calls' = [calls EXCEPT ![q] = Refused(reason)]
        \/ \E op \in Transitions, b \in Bookings : \E r \in Callers(op) :
             calls' = [calls EXCEPT ![q] =
                         Updating(op, b, r, Successor(op, bookings[b], r))]
        \/ \E b \in Bookings, n \in Numbers, o \in Owners, p \in Prices :
             calls' = [calls EXCEPT ![q] = Saving(b, NewBooking(n, o, p))]
    BY <1>7, ArriveCases DEF IInv, TInv
  <2>2. \A op, b, r, bk : ~Succeeded(Updating(op, b, r, bk)) /\ ~Succeeded(Saving(b, bk))
    BY DEF Updating, Saving, Succeeded
  <2> HIDE DEF None
  <2>3. QED BY <1>4, <1>6, <2>1, <2>2
<1>8. ASSUME NEW q \in Requests, Continue(q)
      PROVE  None \/ One(q)
  <2> DEFINE c == calls[q]
  <2>1. /\ Committed(c).booking = c.booking /\ Committed(c).bk = c.bk
        /\ Answered(c).booking = c.booking /\ Answered(c).bk = c.bk
    BY <1>1 DEF Committed, Answered, Calls
  <2>2. CASE Save(q) \/ Update(q)
    BY <1>5, <2>1, <2>2 DEF Save, Update
  <2>3. CASE CommitDecline(q)
    BY <1>5, <2>1, <2>3 DEF CommitDecline
  <2>4. CASE NumberCollides(q) \/ Conflict(q) \/ StatementFails(q) \/ CommitUnseen(q) \/ Respond(q)
    BY <1>4, <1>6, <2>4 DEF NumberCollides, Conflict, StatementFails, CommitUnseen, Respond
  <2>5. CASE Publish(q) \/ PublishFails(q)
    <3>1. Succeeded(c) /\ calls' = [calls EXCEPT ![q] = Answered(c)]
      BY <2>5 DEF Publish, PublishFails, Succeeded
    <3>2. QED BY <1>4, <2>1, <3>1
  <2>6. CASE UpdateInTransaction(q)
    <3> DEFINE d == [c EXCEPT !.pc = "insert"]
    <3>1. c.pc = "update" /\ calls' = [calls EXCEPT ![q] = d]
      BY <2>6 DEF UpdateInTransaction
    <3>2. c.reply # "ok"
      BY <3>1 DEF IInv, SuccessesTyped, Succeeded
    <3>3. d.pc = "insert" /\ d.reply = c.reply
      BY <1>1 DEF Calls
    <3> HIDE DEF d
    <3>4. ~Succeeded(d)
      BY <3>2, <3>3 DEF Succeeded
    <3>5. QED BY <1>4, <3>1, <3>4
  <2>7. QED BY <1>8, <2>2, <2>3, <2>4, <2>5, <2>6 DEF Continue, Work, Progress, Failure
<1>9. QED BY <1>2, <1>3, <1>7, <1>8 DEF Next

\* A version is written once, so its writer stays the only one.
LEMMA OneWriterStays ==
  ASSUME IInv, OneWriterPerVersion, [Next]_vars
  PROVE  OneWriterPerVersion'
<1>1. \A x \in Requests : StillSucceeds(x) =>
        /\ calls[x].booking \in Bookings
        /\ calls[x].bk.version \in 1 .. Len(history[calls[x].booking])
  BY DEF IInv, SuccessesTyped, RepliesAreCommitted, StillSucceeds
<1>2. \A b \in Bookings : Len(history[b]) \in Nat
  BY DEF IInv, TInv, TypeOK
<1>3. \A x, q \in Requests : StillSucceeds(x) /\ JustWritten(q) =>
        \/ calls'[x].booking # calls'[q].booking
        \/ calls'[x].bk.version # calls'[q].bk.version
  BY <1>1, <1>2 DEF StillSucceeds, JustWritten
<1>4. \A x, y \in Requests :
        /\ StillSucceeds(x) /\ StillSucceeds(y)
        /\ calls'[x].booking = calls'[y].booking
        /\ calls'[x].bk.version = calls'[y].bk.version
        => x = y
  BY DEF StillSucceeds, OneWriterPerVersion
<1>5. SUFFICES ASSUME NEW x \in Requests, NEW y \in Requests,
                      Succeeded(calls'[x]), Succeeded(calls'[y]),
                      calls'[x].booking = calls'[y].booking,
                      calls'[x].bk.version = calls'[y].bk.version
               PROVE  x = y
  BY DEF OneWriterPerVersion, Succeeded
<1>6. QED BY <1>3, <1>4, <1>5, NewSuccesses

\* A call that is about to publish was so before, or has just written.
LEMMA PublishSteps ==
  ASSUME IInv, [Next]_vars, NEW x \in Requests, calls'[x].pc = "publish"
  PROVE  \/ calls'[x] = calls[x] /\ ~Publish(x)
         \/ /\ SaveRow(calls[x]) \/ UpdateRow(calls[x])
            /\ calls'[x] = Committed(calls[x])
            /\ UNCHANGED topic
<1>1. \A q \in Requests : calls[q] \in Calls
  BY DEF IInv, TInv, TypeOK
<1>2. calls \in [Requests -> Calls]
  BY DEF IInv, TInv, TypeOK
<1>3. Idle.pc = "idle" /\ \A reason : Refused(reason).pc = "reply"
  BY DEF Idle, Refused
<1>4. \A q \in Requests : Answered(calls[q]).pc = "reply"
  BY <1>1 DEF Answered, Calls
<1>5. ASSUME NEW q \in Requests, NEW d, calls' = [calls EXCEPT ![q] = d], d.pc # "publish"
      PROVE  calls'[x] = calls[x] /\ x # q
  BY <1>2, <1>5
<1>6. ~Publish(x)
  <2>1. SUFFICES ASSUME Publish(x) PROVE FALSE
    OBVIOUS
  <2>2. calls'[x] = Answered(calls[x])
    BY <1>2, <2>1 DEF Publish
  <2>3. QED BY <1>4, <2>2
<1>7. CASE UNCHANGED vars
  BY <1>6, <1>7 DEF vars
<1>8. CASE Crash
  BY <1>3, <1>8 DEF Crash
<1>9. ASSUME NEW q \in Requests, Arrive(q)
      PROVE  calls'[x] = calls[x]
  <2>1. \/ \E reason \in Refusals : calls' = [calls EXCEPT ![q] = Refused(reason)]
        \/ \E op \in Transitions, b \in Bookings : \E r \in Callers(op) :
             calls' = [calls EXCEPT ![q] =
                         Updating(op, b, r, Successor(op, bookings[b], r))]
        \/ \E b \in Bookings, n \in Numbers, o \in Owners, p \in Prices :
             calls' = [calls EXCEPT ![q] = Saving(b, NewBooking(n, o, p))]
    BY <1>9, ArriveCases DEF IInv, TInv
  <2>2. \A op, b, r, bk : Updating(op, b, r, bk).pc = "update" /\ Saving(b, bk).pc = "save"
    BY DEF Updating, Saving
  <2>3. QED BY <1>3, <1>5, <2>1, <2>2
<1>10. ASSUME NEW q \in Requests, Continue(q)
       PROVE  \/ calls'[x] = calls[x]
              \/ /\ SaveRow(calls[x]) \/ UpdateRow(calls[x])
                 /\ calls'[x] = Committed(calls[x])
                 /\ UNCHANGED topic
  <2>1. CASE Save(q) \/ Update(q)
    <3>1. calls' = [calls EXCEPT ![q] = Committed(calls[q])] /\ UNCHANGED topic
      BY <2>1 DEF Save, Update
    <3>2. CASE x = q
      BY <1>2, <2>1, <3>1, <3>2 DEF Save, Update
    <3>3. CASE x # q
      BY <1>2, <3>1, <3>3
    <3>4. QED BY <3>2, <3>3
  <2>2. CASE NumberCollides(q) \/ Conflict(q) \/ StatementFails(q) \/ CommitUnseen(q) \/ Respond(q)
    BY <1>3, <1>5, <2>2 DEF NumberCollides, Conflict, StatementFails, CommitUnseen, Respond
  <2>3. CASE CommitDecline(q) \/ Publish(q) \/ PublishFails(q)
    BY <1>4, <1>5, <2>3 DEF CommitDecline, Publish, PublishFails
  <2>4. CASE UpdateInTransaction(q)
    <3> DEFINE d == [calls[q] EXCEPT !.pc = "insert"]
    <3>1. calls' = [calls EXCEPT ![q] = d]
      BY <2>4 DEF UpdateInTransaction
    <3>2. d.pc = "insert"
      BY <1>1 DEF Calls
    <3> HIDE DEF d
    <3>3. QED BY <1>5, <3>1, <3>2
  <2>5. QED BY <1>10, <2>1, <2>2, <2>3, <2>4 DEF Continue, Work, Progress, Failure
<1>11. QED BY <1>6, <1>7, <1>8, <1>9, <1>10 DEF Next

\* Committed versions stay.
LEMMA HistoryStays ==
  ASSUME IInv, TableStep, NEW b \in Bookings
  PROVE  /\ Len(history[b]) \in Nat /\ Len(history'[b]) \in Nat
         /\ Len(history[b]) <= Len(history'[b])
         /\ \A v \in 1 .. Len(history[b]) : history'[b][v] = history[b][v]
<1>1. history[b] \in Seq(BookingRows) /\ Len(history[b]) \in Nat
  BY DEF IInv, TInv, TypeOK
<1>2. \/ history'[b] = history[b]
      \/ \E bk : history'[b] = Append(history[b], bk)
  BY BookingStep
<1>3. CASE history'[b] = history[b]
  BY <1>1, <1>3
<1>4. ASSUME NEW bk, history'[b] = Append(history[b], bk)
      PROVE  /\ Len(history'[b]) = Len(history[b]) + 1
             /\ \A v \in 1 .. Len(history[b]) : history'[b][v] = history[b][v]
  BY <1>1, <1>4, Appended
<1>5. QED BY <1>1, <1>2, <1>3, <1>4

\* A write commits what its operation is for.
LEMMA PublishesItsChangeStays ==
  ASSUME IInv, PublishesItsChange, [Next]_vars
  PROVE  PublishesItsChange'
<1> SUFFICES ASSUME NEW x \in Requests, calls'[x].pc = "publish"
             PROVE  /\ calls'[x].op \in Operations
                    /\ calls'[x].bk.status = EventStatus(calls'[x].op)
  BY DEF PublishesItsChange
<1> DEFINE c == calls[x]
<1>1. CASE calls'[x] = calls[x]
  BY <1>1 DEF PublishesItsChange
<1>2. ASSUME SaveRow(c) \/ UpdateRow(c), calls'[x] = Committed(c)
      PROVE  /\ calls'[x].op \in Operations
             /\ calls'[x].bk.status = EventStatus(calls'[x].op)
  <2>1. c \in Calls
    BY DEF IInv, TInv, TypeOK
  <2>2. Committed(c).op = c.op /\ Committed(c).bk = c.bk
    BY <2>1 DEF Committed, Calls
  <2>3. CASE SaveRow(c)
    <3>1. c.op = "create" /\ \E n \in Numbers, o \in Owners, p \in Prices : c.bk = NewBooking(n, o, p)
      BY <2>3 DEF SaveRow, IInv, SavesAreFresh
    <3>2. c.bk.status = StatusRequested
      BY <3>1 DEF NewBooking
    <3>3. QED BY <1>2, <2>2, <3>1, <3>2 DEF Operations, EventStatus
  <2>4. CASE UpdateRow(c)
    <3>1. c.pc = "update"
      BY <2>4 DEF UpdateRow
    <3>2. c.booking \in Bookings /\ Derived(c)
      BY <3>1 DEF IInv, TInv, CallsCarry, CopiesAreDerived
    <3>3. history[c.booking][c.bk.version - 1] \in BookingRows
      BY <3>2 DEF Derived, IInv, TInv, TypeOK
    <3>4. c.bk.status = Target(c.op) /\ c.op \in Transitions
      BY <3>2, <3>3, SuccessorFields DEF Derived
    <3>5. QED BY <1>2, <2>2, <3>4 DEF EventStatus, Operations, Transitions
  <2>5. QED BY <1>2, <2>3, <2>4
<1>3. QED BY <1>1, <1>2, PublishSteps

\* The topic changes when a call publishes, and only then.
LEMMA TopicSteps ==
  ASSUME [Next]_vars
  PROVE  UNCHANGED topic \/ \E q \in Requests : Publish(q)
<1>1. CASE UNCHANGED vars \/ Crash
  BY <1>1 DEF vars, Crash
<1>2. ASSUME NEW q \in Requests, Arrive(q)
      PROVE  UNCHANGED topic
  BY <1>2 DEF Arrive, Ask, RejectRequest, ReadFails, CreateBooking, AcceptBooking,
              StartBookingDelivery, ConfirmBookingDelivery, CompleteBooking, CancelBooking,
              DeclineBooking, RebookBooking, Begin
<1>3. ASSUME NEW q \in Requests, Continue(q)
      PROVE  UNCHANGED topic \/ Publish(q)
  BY <1>3 DEF Continue, Work, Progress, Failure, Save, NumberCollides, Update, Conflict, UpdateInTransaction,
              CommitDecline, StatementFails, CommitUnseen, PublishFails, Respond
<1>4. QED BY <1>1, <1>2, <1>3 DEF Next

\* What Publish puts on the topic.
LEMMA Published ==
  ASSUME IInv, NEW q \in Requests, Publish(q)
  PROVE  /\ calls[q].pc = "publish" /\ Succeeded(calls[q])
         /\ calls[q].booking \in Bookings
         /\ UNCHANGED tables
         /\ \A b \in Bookings \ {calls[q].booking} : topic'[b] = topic[b]
         /\ LET b == calls[q].booking IN
            /\ Len(topic[b]) \in Nat
            /\ Len(topic'[b]) = Len(topic[b]) + 1
            /\ topic'[b][Len(topic[b]) + 1] = EventFor(calls[q])
            /\ \A i \in 1 .. Len(topic[b]) : topic'[b][i] = topic[b][i]
<1> DEFINE b == calls[q].booking
<1>1. /\ calls[q].pc = "publish" /\ Succeeded(calls[q])
      /\ topic' = [topic EXCEPT ![b] = Append(@, EventFor(calls[q]))]
      /\ UNCHANGED tables
  BY DEF Publish, Succeeded
<1>2. b \in Bookings /\ topic \in [Bookings -> Seq(Events)]
  BY <1>1 DEF IInv, TInv, TypeOK, CallsCarry
<1>3. topic'[b] = Append(topic[b], EventFor(calls[q])) /\ topic[b] \in Seq(Events)
  BY <1>1, <1>2
<1>4. QED BY <1>1, <1>2, <1>3

\* A version that has just been written is not on the topic; one that is
\* being announced is not announced by another call.
LEMMA PendingStays ==
  ASSUME EventInv, [Next]_vars
  PROVE  PendingUnannounced'
<1> SUFFICES ASSUME NEW x \in Requests, calls'[x].pc = "publish",
                    NEW i \in 1 .. Len(topic'[calls'[x].booking])
             PROVE  topic'[calls'[x].booking][i].version # calls'[x].bk.version
  BY DEF PendingUnannounced
<1> DEFINE c == calls[x]
<1> DEFINE b == c.booking
<1>1. IInv /\ TypeOK
  BY DEF EventInv, LedgerInv, IInv, TInv
<1>2. ASSUME SaveRow(c) \/ UpdateRow(c), calls'[x] = Committed(c), UNCHANGED topic
      PROVE  topic'[calls'[x].booking][i].version # calls'[x].bk.version
  <2>1. calls'[x].booking = b /\ calls'[x].bk = c.bk
    BY <1>1, <1>2 DEF Committed, TypeOK, Calls
  <2>2. b \in Bookings /\ c.bk.version = Len(history[b]) + 1
    BY <1>1, <1>2, WriteFacts
  <2>3. topic[b][i].version \in 1 .. Len(history[b])
    BY <1>2, <2>1, <2>2 DEF EventInv, EventsReflectCommits
  <2>4. Len(history[b]) \in Nat
    BY <1>1, <2>2 DEF TypeOK
  <2>5. QED BY <1>2, <2>1, <2>2, <2>3, <2>4
<1>3. ASSUME calls'[x] = c, ~Publish(x)
      PROVE  topic'[calls'[x].booking][i].version # calls'[x].bk.version
  <2>1. CASE UNCHANGED topic
    BY <1>3, <2>1 DEF EventInv, PendingUnannounced
  <2>2. ASSUME NEW q \in Requests, Publish(q)
        PROVE  topic'[b][i].version # c.bk.version
    <3>1. q # x
      BY <1>3, <2>2
    <3>2. /\ Succeeded(calls[q]) /\ calls[q].booking \in Bookings
          /\ \A a \in Bookings \ {calls[q].booking} : topic'[a] = topic[a]
      BY <1>1, <2>2, Published
    <3>3. /\ c.pc = "publish" /\ Succeeded(c) /\ b \in Bookings
      BY <1>1, <1>3 DEF Succeeded, IInv, SuccessesTyped
    <3>4. CASE b # calls[q].booking
      BY <1>3, <3>2, <3>3, <3>4 DEF EventInv, PendingUnannounced
    <3>5. CASE b = calls[q].booking
      <4>1. /\ Len(topic[b]) \in Nat
            /\ Len(topic'[b]) = Len(topic[b]) + 1
            /\ topic'[b][Len(topic[b]) + 1] = EventFor(calls[q])
            /\ \A j \in 1 .. Len(topic[b]) : topic'[b][j] = topic[b][j]
        BY <1>1, <2>2, <3>5, Published
      <4>2. EventFor(calls[q]).version = calls[q].bk.version
        BY DEF EventFor
      <4>3. calls[q].bk.version # c.bk.version
        BY <3>1, <3>2, <3>3, <3>5 DEF EventInv, OneWriterPerVersion
      <4>4. CASE i \in 1 .. Len(topic[b])
        BY <3>3, <4>1, <4>4 DEF EventInv, PendingUnannounced
      <4>5. CASE i = Len(topic[b]) + 1
        BY <4>1, <4>2, <4>3, <4>5
      <4>6. QED BY <1>3, <4>1, <4>4, <4>5
    <3>6. QED BY <3>4, <3>5
  <2>3. QED BY <1>3, <2>1, <2>2, TopicSteps
<1>4. QED BY <1>1, <1>2, <1>3, PublishSteps

\* An event is put on the topic once, and its version stays committed.
LEMMA EventsStay ==
  ASSUME EventInv, [Next]_vars
  PROVE  EventsReflectCommits'
<1>1. IInv /\ TypeOK /\ TableStep
  BY NextTableStep DEF EventInv, LedgerInv, IInv, TInv
<1> SUFFICES ASSUME NEW b \in Bookings, NEW i \in 1 .. Len(topic'[b])
             PROVE  /\ topic'[b][i].version \in 1 .. Len(history'[b])
                    /\ history'[b][topic'[b][i].version].status = EventStatus(topic'[b][i].type)
                    /\ topic'[b][i].type \notin {"create", "cancel"} =>
                         topic'[b][i].runner = history'[b][topic'[b][i].version].runner
                    /\ \A j \in 1 .. Len(topic'[b]) :
                         topic'[b][j].version = topic'[b][i].version => i = j
  BY DEF EventsReflectCommits
<1>2. \A k \in 1 .. Len(topic[b]) :
        LET e == topic[b][k] IN
        /\ e.version \in 1 .. Len(history[b])
        /\ history[b][e.version].status = EventStatus(e.type)
        /\ e.type \notin {"create", "cancel"} => e.runner = history[b][e.version].runner
        /\ \A j \in 1 .. Len(topic[b]) : topic[b][j].version = e.version => k = j
  BY DEF EventInv, EventsReflectCommits
<1>3. /\ Len(history[b]) \in Nat /\ Len(history'[b]) \in Nat
      /\ Len(history[b]) <= Len(history'[b])
      /\ \A v \in 1 .. Len(history[b]) : history'[b][v] = history[b][v]
  BY <1>1, HistoryStays
<1>4. \A v \in 1 .. Len(history[b]) : v \in 1 .. Len(history'[b])
  BY <1>3
<1>5. CASE topic'[b] = topic[b]
  BY <1>2, <1>3, <1>4, <1>5
<1>6. ASSUME NEW q \in Requests, Publish(q), b = calls[q].booking
      PROVE  /\ topic'[b][i].version \in 1 .. Len(history'[b])
             /\ history'[b][topic'[b][i].version].status = EventStatus(topic'[b][i].type)
             /\ topic'[b][i].type \notin {"create", "cancel"} =>
                  topic'[b][i].runner = history'[b][topic'[b][i].version].runner
             /\ \A j \in 1 .. Len(topic'[b]) :
                  topic'[b][j].version = topic'[b][i].version => i = j
  <2> DEFINE c == calls[q]
  <2> DEFINE n == Len(topic[b]) + 1
  <2> DEFINE e == EventFor(c)
  <2>1. /\ c.pc = "publish" /\ Succeeded(c)
        /\ Len(topic[b]) \in Nat
        /\ Len(topic'[b]) = n
        /\ topic'[b][n] = e
        /\ \A k \in 1 .. Len(topic[b]) : topic'[b][k] = topic[b][k]
    BY <1>1, <1>6, Published
  <2>2. /\ e.version = c.bk.version /\ e.type = c.op
        /\ e.type \notin {"create", "cancel"} => e.runner = c.bk.runner
    BY DEF EventFor
  <2>3. c.bk.version \in 1 .. Len(history[b]) /\ history[b][c.bk.version] = c.bk
    BY <1>1, <1>6, <2>1 DEF IInv, RepliesAreCommitted
  <2>4. c.bk.status = EventStatus(c.op)
    BY <2>1 DEF EventInv, PublishesItsChange
  <2>5. \A k \in 1 .. Len(topic[b]) : topic[b][k].version # e.version
    BY <1>6, <2>1, <2>2 DEF EventInv, PendingUnannounced
  <2> HIDE DEF c, e
  <2>6. \A k \in 1 .. n : k \in 1 .. Len(topic[b]) \/ k = n
    BY <2>1
  <2>7. CASE i \in 1 .. Len(topic[b])
    <3>1. topic'[b][i] = topic[b][i]
      BY <2>1, <2>7
    <3>2. \A j \in 1 .. n : topic'[b][j].version = topic[b][i].version => i = j
      BY <1>2, <2>1, <2>5, <2>6, <2>7
    <3>3. QED BY <1>2, <1>3, <1>4, <2>1, <2>7, <3>1, <3>2
  <2>8. CASE i = n
    <3>1. topic'[b][i] = e
      BY <2>1, <2>8
    <3>2. \A j \in 1 .. n : topic'[b][j].version = e.version => i = j
      BY <2>1, <2>5, <2>6, <2>8
    <3>3. e.version \in 1 .. Len(history'[b]) /\ history'[b][e.version] = c.bk
      BY <1>3, <1>4, <2>2, <2>3
    <3>4. QED BY <2>1, <2>2, <2>4, <3>1, <3>2, <3>3
  <2>9. QED BY <2>1, <2>6, <2>7, <2>8
<1>7. CASE topic'[b] # topic[b]
  <2>1. PICK q \in Requests : Publish(q)
    BY <1>7, TopicSteps
  <2>2. b = calls[q].booking
    BY <1>1, <1>7, <2>1, Published
  <2>3. QED BY <1>6, <2>1, <2>2
<1>8. QED BY <1>5, <1>7

-----------------------------------------------------------------------------
(* The theorems. *)

\* Nothing is answered or announced before the first call.
LEMMA InitEventInv == Init => EventInv
<1> SUFFICES ASSUME Init PROVE EventInv
  OBVIOUS
<1>1. LedgerInv
  BY InitLedgerInv
<1>2. \A q \in Requests : calls[q].pc # "publish" /\ ~Succeeded(calls[q])
  BY DEF Init, Idle, Succeeded
<1>3. \A b \in Bookings : Len(topic[b]) = 0
  BY DEF Init
<1>4. QED BY <1>1, <1>2, <1>3 DEF EventInv, OneWriterPerVersion, PublishesItsChange,
                                  PendingUnannounced, EventsReflectCommits

\* Every step keeps it so.
LEMMA NextEventInv == EventInv /\ [Next]_vars => EventInv'
<1> SUFFICES ASSUME EventInv, [Next]_vars PROVE EventInv'
  OBVIOUS
<1>1. LedgerInv' /\ IInv
  BY NextLedgerInv DEF EventInv, LedgerInv
<1>2. OneWriterPerVersion' /\ PublishesItsChange'
  BY <1>1, OneWriterStays, PublishesItsChangeStays DEF EventInv
<1>3. PendingUnannounced' /\ EventsReflectCommits'
  BY PendingStays, EventsStay
<1>4. QED BY <1>1, <1>2, <1>3 DEF EventInv

\* Answers and events agree with the commits in every state.
THEOREM EventsHold == Spec => []EventInv
BY InitEventInv, NextEventInv, PTL DEF Spec

\* OneWriterPerVersion: two concurrent calls never both succeed on the same
\* version of a booking.
THEOREM OneWriter == Spec => []OneWriterPerVersion
<1>1. EventInv => OneWriterPerVersion
  BY DEF EventInv
<1>2. QED BY <1>1, EventsHold, PTL

\* EventsReflectCommits: nothing is announced that was not committed, and
\* nothing twice.
THEOREM EventsAreCommits == Spec => []EventsReflectCommits
<1>1. EventInv => EventsReflectCommits
  BY DEF EventInv
<1>2. QED BY <1>1, EventsHold, PTL

\* NoNilDereference: a pickup or a delivery is announced with the runner of
\* the booking, which is never nil.
THEOREM RunnerNeverNil == Spec => []NoNilDereference
<1>1. EventInv => NoNilDereference
  <2> SUFFICES ASSUME EventInv, NEW q \in Requests, calls[q].pc = "publish",
                      calls[q].op \in {"pickup", "deliver"}
               PROVE  calls[q].bk.runner # NoRunner
    BY DEF NoNilDereference
  <2> DEFINE c == calls[q]
  <2>1. Succeeded(c) /\ c.bk.status = EventStatus(c.op)
    BY DEF Succeeded, EventInv, PublishesItsChange
  <2>2. /\ c.booking \in Bookings
        /\ c.bk.version \in 1 .. Len(history[c.booking])
        /\ history[c.booking][c.bk.version] = c.bk
    BY <2>1 DEF EventInv, LedgerInv, IInv, SuccessesTyped, RepliesAreCommitted
  <2>3. MilestonesAgree(c.bk)
    BY <2>2 DEF EventInv, LedgerInv, RowInv
  <2>4. c.bk.status \in {StatusInProgress, StatusDelivered}
    BY <2>1 DEF EventStatus, Target
  <2>5. QED BY <2>3, <2>4 DEF MilestonesAgree
<1>2. QED BY <1>1, EventsHold, PTL

-----------------------------------------------------------------------------
(* While nothing fails, what is committed is announced. *)

OnTopic(b, v) == \E i \in 1 .. Len(topic[b]) : topic[b][i].version = v

Pending(b, v) ==
  \E q \in Requests : /\ calls[q].pc = "publish"
                      /\ calls[q].booking = b
                      /\ calls[q].bk.version = v

\* Version v of booking b was made by a decline, or is announced.
Told(b, v) ==
  \/ v > 1 /\ Released(history[b], v - 1)
  \/ OnTopic(b, v)
  \/ Pending(b, v)

\* Call x does not give up an announcement.
StillTells(x) == calls[x].pc = "publish" => calls'[x] = calls[x] \/ Publish(x)

\* A call that does not fail gives up no announcement, of its own or another's.
LEMMA CalmStillTells ==
  ASSUME IInv, NEW q \in Requests, Ask(q) \/ Progress(q) \/ Respond(q), NEW x \in Requests
  PROVE  StillTells(x)
<1>1. calls \in [Requests -> Calls]
  BY DEF IInv, TInv, TypeOK
<1>2. CASE Ask(q)
  <2>1. calls[q] = Idle /\ \E d : calls' = [calls EXCEPT ![q] = d]
    BY <1>2, ArriveCases DEF Arrive, IInv, TInv
  <2> QED BY <1>1, <2>1 DEF StillTells, Idle
<1>3. CASE Progress(q) \/ Respond(q)
  <2>1. /\ \E d : calls' = [calls EXCEPT ![q] = d]
        /\ calls[q].pc = "publish" => Publish(q)
    BY <1>1, <1>3 DEF Progress, Save, SaveRow, NumberCollides, Update, UpdateRow, Conflict,
         UpdateInTransaction, CommitDecline, DeclineRows, Publish, Respond
  <2> QED BY <1>1, <2>1 DEF StillTells
<1> QED BY <1>2, <1>3

\* What has been told stays told.
LEMMA ToldStays ==
  ASSUME EventInv, [Next]_vars,
         NEW b \in Bookings, NEW v \in 1 .. Len(history[b]), Told(b, v),
         \A x \in Requests : calls[x].booking = b /\ calls[x].bk.version = v => StillTells(x)
  PROVE  Told(b, v)'
<1>1. IInv /\ TableStep
  BY NextTableStep DEF EventInv, LedgerInv
<1>2. /\ Len(history[b]) \in Nat /\ Len(history'[b]) \in Nat
      /\ Len(history[b]) <= Len(history'[b])
      /\ \A w \in 1 .. Len(history[b]) : history'[b][w] = history[b][w]
  BY <1>1, HistoryStays
<1>3. ASSUME v > 1, Released(history[b], v - 1)
      PROVE  Released(history'[b], v - 1)
  <2>1. v - 1 \in 1 .. Len(history[b]) /\ v - 1 \in 1 .. (Len(history'[b]) - 1)
    BY <1>2, <1>3
  <2>2. (v - 1) + 1 = v
    OBVIOUS
  <2>3. history'[b][v - 1] = history[b][v - 1] /\ history'[b][v] = history[b][v]
    BY <1>2, <2>1
  <2> QED BY <1>3, <2>1, <2>2, <2>3 DEF Released
<1>4. ASSUME NEW i \in 1 .. Len(topic[b])
      PROVE  i \in 1 .. Len(topic'[b]) /\ topic'[b][i] = topic[b][i]
  <2>1. CASE UNCHANGED topic
    BY <2>1
  <2>2. ASSUME NEW q \in Requests, Publish(q)
        PROVE  i \in 1 .. Len(topic'[b]) /\ topic'[b][i] = topic[b][i]
    BY <1>1, <1>4, <2>2, Published
  <2> QED BY <2>1, <2>2, TopicSteps
<1>5. ASSUME NEW q \in Requests, calls[q].pc = "publish", calls[q].booking = b,
             calls[q].bk.version = v
      PROVE  OnTopic(b, v)' \/ Pending(b, v)'
  <2>1. CASE calls'[q] = calls[q]
    BY <1>5, <2>1 DEF Pending
  <2>2. CASE Publish(q)
    <3>1. /\ Len(topic[b]) \in Nat /\ Len(topic'[b]) = Len(topic[b]) + 1
          /\ topic'[b][Len(topic[b]) + 1] = EventFor(calls[q])
      BY <1>1, <1>5, <2>2, Published
    <3>2. EventFor(calls[q]).version = v
      BY <1>5 DEF EventFor
    <3>3. Len(topic[b]) + 1 \in 1 .. Len(topic'[b])
      BY <3>1
    <3> QED BY <3>1, <3>2, <3>3 DEF OnTopic
  <2>3. StillTells(q)
    BY <1>5
  <2> QED BY <1>5, <2>1, <2>2, <2>3 DEF StillTells
<1>6. OnTopic(b, v) => OnTopic(b, v)'
  BY <1>4 DEF OnTopic
<1>7. Pending(b, v) => OnTopic(b, v)' \/ Pending(b, v)'
  BY <1>5 DEF Pending
<1> QED BY <1>3, <1>6, <1>7 DEF Told

\* A call that does not fail and commits a version has it told.
LEMMA CommitTold ==
  ASSUME EventInv, NEW q \in Requests, Ask(q) \/ Progress(q) \/ Respond(q),
         NEW b \in Bookings, NEW v \in 1 .. Len(history'[b]), v \notin 1 .. Len(history[b])
  PROVE  Told(b, v)'
<1> DEFINE c == calls[q]
<1>1. IInv /\ calls \in [Requests -> Calls] /\ c \in Calls
  BY DEF EventInv, LedgerInv, IInv, TInv, TypeOK
<1>2. history' # history
  OBVIOUS
<1>3. ~Ask(q)
  BY <1>1, <1>2, ArriveCases DEF Arrive, IInv, TInv, tables
<1>4. Save(q) \/ Update(q) \/ CommitDecline(q)
  BY <1>2, <1>3 DEF Progress, NumberCollides, Conflict, UpdateInTransaction, Publish,
       Respond, tables
<1>5. SaveRow(c) \/ UpdateRow(c) \/ DeclineRows(c)
  BY <1>4 DEF Save, Update, CommitDecline
<1>6. /\ c.booking \in Bookings /\ c.bk \in BookingRows
      /\ c.bk.version = Len(history[c.booking]) + 1
      /\ CommitRow(c.booking, c.bk)
  BY <1>1, <1>5, WriteFacts
<1>7. /\ b # c.booking => history'[b] = history[b]
      /\ b = c.booking => /\ Len(history'[b]) = Len(history[b]) + 1
                          /\ history'[b][Len(history[b]) + 1] = c.bk
                          /\ \A w \in 1 .. Len(history[b]) : history'[b][w] = history[b][w]
  BY <1>1, <1>6, HistoryGrows DEF IInv, TInv
<1>8. b = c.booking
  BY <1>7
<1>9. Len(history[b]) \in Nat
  BY <1>1 DEF IInv, TInv, TypeOK
<1>10. v = Len(history[b]) + 1 /\ c.bk.version = v
  BY <1>6, <1>7, <1>8, <1>9
<1>11. CASE Save(q) \/ Update(q)
  <2>1. calls'[q] = Committed(c)
    BY <1>1, <1>11 DEF Save, Update
  <2>2. /\ Committed(c).pc = "publish" /\ Committed(c).booking = c.booking
        /\ Committed(c).bk = c.bk
    BY <1>1 DEF Committed, Calls
  <2>3. Pending(b, v)'
    BY <1>8, <1>10, <2>1, <2>2 DEF Pending
  <2> QED BY <2>3 DEF Told
<1>12. CASE CommitDecline(q)
  <2>1. c.pc = "insert"
    BY <1>12 DEF CommitDecline, DeclineRows
  <2>2. c.op = "decline" /\ Derived(c)
    BY <1>1, <2>1 DEF IInv, LocksHeld, CopiesAreDerived
  <2> DEFINE old == history[b][v - 1]
  <2>3. v - 1 \in 1 .. Len(history[b]) /\ c.bk = Successor("decline", old, c.runner)
        /\ Refusal("decline", old, c.runner) = "ok" /\ c.runner \in Runners
    BY <1>8, <1>10, <2>2 DEF Derived, Callers
  <2>4. old \in BookingRows
    BY <1>1, <2>3 DEF IInv, TInv, TypeOK
  <2>5. old.runner = c.runner /\ old.runner # NoRunner
    BY <2>3, <2>4, PermittedMeans, NoRunnerAssumption DEF Transitions
  <2>6. c.bk.runner = NoRunner
    BY <2>3, <2>4, SuccessorFields DEF Transitions, Callers
  <2>7. v > 1 /\ v - 1 \in 1 .. (Len(history'[b]) - 1) /\ (v - 1) + 1 = v
    BY <1>7, <1>8, <1>9, <1>10, <2>3
  <2>8. history'[b][v - 1] = old /\ history'[b][v] = c.bk
    BY <1>7, <1>8, <1>10, <2>3
  <2>9. Released(history'[b], v - 1)
    BY <2>5, <2>6, <2>7, <2>8 DEF Released
  <2> QED BY <2>7, <2>9 DEF Told
<1> QED BY <1>4, <1>11, <1>12

\* NothingUnannounced: as long as nothing fails, every change but a decline is
\* announced or about to be, by however many calls they are made.
THEOREM EverythingToldWhenCalm ==
  ASSUME Faults = {}
  PROVE  Spec => []NothingUnannounced
<1>1. Init => NothingUnannounced
  BY DEF Init, NothingUnannounced
<1>2. EventInv /\ NothingUnannounced /\ [Next]_vars => NothingUnannounced'
  <2> SUFFICES ASSUME EventInv, NothingUnannounced, [Next]_vars,
                      NEW b \in Bookings, NEW v \in 1 .. Len(history'[b])
               PROVE  Told(b, v)'
    BY DEF NothingUnannounced, Told, OnTopic, Pending
  <2>1. IInv
    BY DEF EventInv, LedgerInv
  <2>2. CASE UNCHANGED vars
    <3>1. Told(b, v)
      BY <2>2 DEF vars, NothingUnannounced, Told, OnTopic, Pending
    <3>2. v \in 1 .. Len(history[b]) /\ \A x \in Requests : StillTells(x)
      BY <2>2 DEF vars, StillTells
    <3> QED BY <3>1, <3>2, ToldStays
  <2>3. ASSUME NEW q \in Requests, Arrive(q) \/ Continue(q)
        PROVE  Told(b, v)'
    <3>1. Ask(q) \/ Progress(q) \/ Respond(q)
      BY <2>3 DEF Arrive, Continue, Work, Failure, ReadFails, StatementFails, CommitUnseen,
           PublishFails
    <3>2. CASE v \in 1 .. Len(history[b])
      <4>1. Told(b, v)
        BY <3>2 DEF NothingUnannounced, Told, OnTopic, Pending
      <4>2. \A x \in Requests : StillTells(x)
        BY <2>1, <3>1, CalmStillTells
      <4> QED BY <3>2, <4>1, <4>2, ToldStays
    <3>3. CASE v \notin 1 .. Len(history[b])
      BY <3>1, <3>3, CommitTold
    <3> QED BY <3>2, <3>3
  <2>4. ~Crash
    BY DEF Crash
  <2> QED BY <2>2, <2>3, <2>4 DEF Next
<1> QED BY <1>1, <1>2, EventsHold, PTL DEF Spec

=============================================================================
