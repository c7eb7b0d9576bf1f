---------------------------- MODULE BookingService ----------------------------
(***************************************************************************)
(* application/booking_service.go over the booking and decline-reason       *)
(* repositories: any number of goroutines serve calls at once, and a call   *)
(* is a sequence of steps between which the others run.                     *)
(*                                                                          *)
(*   idle -> read the row, change the copy -> update -> publish -> reply    *)
(*   idle -> read the row, change the copy -> update -> insert -> reply     *)
(*                                              (decline: one transaction)  *)
(*   idle -> build the aggregate -> save -> publish -> reply                *)
(*                                                                          *)
(* The bookings table is the only state the calls share.  A write of it     *)
(* succeeds only if the row still has the version the copy was read at.     *)
(* history is an auxiliary variable: the rows ever committed, per booking.  *)
(***************************************************************************)
EXTENDS Booking, Sequences

CONSTANTS Bookings,    \* booking ids
          NoRow,       \* an id with no row in the bookings table
          NoBooking,   \* the booking of a call that has none
          Requests,    \* the goroutines that serve calls
          NoRequest,   \* the holder of a free row lock
          MaxDeclines, \* bound: declines of one booking
          Faults       \* what may go wrong: "db", "broker", "crash"

ASSUME NoRowAssumption == NoRow \notin BookingRows
ASSUME NoBookingAssumption == NoBooking \notin Bookings
ASSUME NoRequestAssumption == NoRequest \notin Requests
ASSUME MaxDeclinesAssumption == MaxDeclines \in Nat
ASSUME FaultsAssumption == Faults \subseteq {"db", "broker", "crash"}

VARIABLES
  bookings,       \* table bookings, by id: a row or NoRow
  declineReasons, \* table booking_decline_reasons: the runners, per booking
  rowLock,        \* the transaction that has updated a row and not ended
  calls,          \* the call each goroutine is serving
  topic,          \* booking events accepted by the broker, per booking
  history         \* the rows committed so far, per booking

tables == <<bookings, declineReasons, rowLock, history>>
vars == <<bookings, declineReasons, rowLock, calls, topic, history>>

Operations == Transitions \cup {"create"}

Refusals == {"not_found", "forbidden", "conflict", "invalid_state", "validation", "error"}

Calls ==
  [pc : {"idle", "save", "update", "insert", "publish", "reply"},
   op : Operations \cup {"none"}, booking : Bookings \cup {NoBooking},
   runner : Runners \cup {NoRunner}, bk : BookingRows \cup {NoRow},
   reply : Refusals \cup {"ok", "none"}]

Idle == [pc |-> "idle", op |-> "none", booking |-> NoBooking,
         runner |-> NoRunner, bk |-> NoRow, reply |-> "none"]

\* A refused call keeps nothing but the error it answers.
Refused(reason) == [Idle EXCEPT !.pc = "reply", !.reply = reason]

\* A call that has read booking b, and one that has built it.
Updating(op, b, r, bk) ==
  [pc |-> "update", op |-> op, booking |-> b, runner |-> r, bk |-> bk, reply |-> "none"]

Saving(b, bk) ==
  [pc |-> "save", op |-> "create", booking |-> b, runner |-> NoRunner, bk |-> bk,
   reply |-> "none"]

\* A booking event: version is the committed version it announces, known to
\* the model and not to the consumers of the topic.
Events ==
  [type : Operations, version : Nat \ {0}, runner : Runners \cup {NoRunner}]

\* Mutant: the event names the runner the call came from.
CallerEvent(c) == [type |-> c.op, version |-> c.bk.version, runner |-> c.runner]

EventFor(c) ==
  [type |-> c.op, version |-> c.bk.version,
   runner |-> IF c.op \in {"create", "cancel"} THEN NoRunner ELSE c.bk.runner]

Init ==
  /\ bookings = [b \in Bookings |-> NoRow]
  /\ declineReasons = [b \in Bookings |-> << >>]
  /\ rowLock = [b \in Bookings |-> NoRequest]
  /\ calls = [q \in Requests |-> Idle]
  /\ topic = [b \in Bookings |-> << >>]
  /\ history = [b \in Bookings |-> << >>]

-----------------------------------------------------------------------------
(* A call arrives.  FindByID, the guards and the domain operation touch     *)
(* only the copy, so one step reads the row and either refuses the call or  *)
(* leaves it with the changed copy to write.                                *)

\* The caller of each route whose identity the service uses.
Callers(op) == IF op \in {"accept", "decline"} THEN Runners ELSE {NoRunner}

\* Mutant: any runner may decline.
UnownedRefusal(op, bk, r) ==
  IF op = "decline" /\ bk.status # StatusAccepted THEN "conflict"
  ELSE IF ~CanTransitionTo(bk.status, Target(op)) THEN "invalid_state"
  ELSE "ok"

Refusal(op, bk, r) ==
  IF op = "decline" /\ bk.runner # r THEN "forbidden"
  ELSE IF op = "decline" /\ bk.status # StatusAccepted THEN "conflict"
  ELSE IF op = "cancel" /\ ~CanBeCancelled(bk.status) THEN "invalid_state"
  ELSE IF ~CanTransitionTo(bk.status, Target(op)) THEN "invalid_state"
  ELSE "ok"

Successor(op, bk, r) == IncrementVersion(Apply(op, bk, r))

Begin(q, op, b, r) ==
  /\ calls[q] = Idle
  /\ calls' = [calls EXCEPT ![q] =
       IF bookings[b] = NoRow THEN Refused("not_found")
       ELSE IF Refusal(op, bookings[b], r) # "ok"
            THEN Refused(Refusal(op, bookings[b], r))
            ELSE Updating(op, b, r, Successor(op, bookings[b], r))]
  /\ UNCHANGED <<tables, topic>>

AcceptBooking(q, b) == \E r \in Callers("accept") : Begin(q, "accept", b, r)

StartBookingDelivery(q, b) == \E r \in Callers("pickup") : Begin(q, "pickup", b, r)

ConfirmBookingDelivery(q, b) == \E r \in Callers("deliver") : Begin(q, "deliver", b, r)

CompleteBooking(q, b) == \E r \in Callers("complete") : Begin(q, "complete", b, r)

CancelBooking(q, b) == \E r \in Callers("cancel") : Begin(q, "cancel", b, r)

DeclineBooking(q, b) ==
  /\ Len(declineReasons[b]) < MaxDeclines
  /\ \E r \in Callers("decline") : Begin(q, "decline", b, r)

\* A malformed request, an invalid decline reason, a pricing or NewBooking
\* validation error: answered before anything is read.
RejectRequest(q) ==
  /\ calls[q] = Idle
  /\ calls' = [calls EXCEPT ![q] = Refused("validation")]
  /\ UNCHANGED <<tables, topic>>

\* uuid.New: no row and no other call has the id.
FreshId(b) ==
  /\ bookings[b] = NoRow
  /\ \A q \in Requests : calls[q].pc = "save" => calls[q].booking # b

BeginCreate(q, owner, price) ==
  \E b \in Bookings, n \in Numbers :
    /\ FreshId(b)
    /\ calls' = [calls EXCEPT ![q] = Saving(b, NewBooking(n, owner, price))]

CreateBooking(q) ==
  /\ calls[q] = Idle
  /\ \E owner \in Owners, price \in Prices : BeginCreate(q, owner, price)
  /\ UNCHANGED <<tables, topic>>

\* RebookBooking prices the same journey of the same pet again.
RebookBooking(q, b, owner) ==
  /\ calls[q] = Idle
  /\ IF bookings[b] = NoRow
       THEN calls' = [calls EXCEPT ![q] = Refused("not_found")]
       ELSE IF bookings[b].owner # owner
         THEN calls' = [calls EXCEPT ![q] = Refused("forbidden")]
         ELSE BeginCreate(q, owner, bookings[b].estimatedPrice)
  /\ UNCHANGED <<tables, topic>>

-----------------------------------------------------------------------------
(* The statements of the repositories.  PostgreSQL runs them at READ        *)
(* COMMITTED: a statement sees committed rows, an update of a row that      *)
(* another transaction has updated waits until that one ends and then       *)
(* evaluates its WHERE clause again.                                        *)

\* Mutant: the UNIQUE constraint is missing.
NumberNeverTaken(n) == FALSE

\* UNIQUE(booking_number).
NumberTaken(n) == \E b \in Bookings : bookings[b] # NoRow /\ bookings[b].number = n

\* Mutant: UPDATE ... WHERE id = ?.
AnyVersion(b, bk) == TRUE

\* UPDATE ... WHERE id = ? AND version = ?, expectedVersion := bk.Version() - 1.
VersionMatches(b, bk) == bookings[b].version = bk.version - 1

CommitRow(b, bk) ==
  /\ bookings' = [bookings EXCEPT ![b] = bk]
  /\ history' = [history EXCEPT ![b] = Append(@, bk)]

SaveRow(c) ==
  /\ c.pc = "save"
  /\ ~NumberTaken(c.bk.number)
  /\ CommitRow(c.booking, c.bk)
  /\ UNCHANGED <<declineReasons, rowLock>>

UpdateRow(c) ==
  /\ c.pc = "update" /\ c.op # "decline"
  /\ VersionMatches(c.booking, c.bk)
  /\ rowLock[c.booking] = NoRequest
  /\ CommitRow(c.booking, c.bk)
  /\ UNCHANGED <<declineReasons, rowLock>>

\* Mutant: the decline reason is inserted outside the transaction and lost.
DeclineWithoutReason(c) ==
  /\ c.pc = "insert"
  /\ CommitRow(c.booking, c.bk)
  /\ rowLock' = [rowLock EXCEPT ![c.booking] = NoRequest]
  /\ UNCHANGED declineReasons

\* Mutant: the transaction is never ended.
DeclineLeftOpen(c) ==
  /\ c.pc = "insert"
  /\ CommitRow(c.booking, c.bk)
  /\ declineReasons' = [declineReasons EXCEPT ![c.booking] = Append(@, c.runner)]
  /\ UNCHANGED rowLock

\* RecordDecline and the COMMIT of the decline transaction.
DeclineRows(c) ==
  /\ c.pc = "insert"
  /\ CommitRow(c.booking, c.bk)
  /\ declineReasons' = [declineReasons EXCEPT ![c.booking] = Append(@, c.runner)]
  /\ rowLock' = [rowLock EXCEPT ![c.booking] = NoRequest]

\* Mutant: a failed transaction is not rolled back.
KeepLocks(q) == rowLock

\* ROLLBACK.
LocksWithout(q) == [b \in Bookings |-> IF rowLock[b] = q THEN NoRequest ELSE rowLock[b]]

-----------------------------------------------------------------------------
(* A call goes on. *)

\* Mutant: the call is answered without an event.
CommittedSilently(c) == [c EXCEPT !.pc = "reply", !.reply = "ok"]

Committed(c) == [c EXCEPT !.pc = "publish"]

Answered(c) == [c EXCEPT !.pc = "reply", !.reply = "ok"]

Save(q) ==
  /\ SaveRow(calls[q])
  /\ calls' = [calls EXCEPT ![q] = Committed(@)]
  /\ UNCHANGED topic

NumberCollides(q) ==
  /\ calls[q].pc = "save"
  /\ NumberTaken(calls[q].bk.number)
  /\ calls' = [calls EXCEPT ![q] = Refused("error")]
  /\ UNCHANGED <<tables, topic>>

Update(q) ==
  /\ UpdateRow(calls[q])
  /\ calls' = [calls EXCEPT ![q] = Committed(@)]
  /\ UNCHANGED topic

\* Mutant: RowsAffected is not looked at.
ConflictIgnored(q) ==
  /\ calls[q].pc = "update"
  /\ ~VersionMatches(calls[q].booking, calls[q].bk)
  /\ calls' = [calls EXCEPT ![q] = Committed(@)]
  /\ UNCHANGED <<tables, topic>>

\* RowsAffected = 0.
Conflict(q) ==
  /\ calls[q].pc = "update"
  /\ ~VersionMatches(calls[q].booking, calls[q].bk)
  /\ calls' = [calls EXCEPT ![q] = Refused("conflict")]
  /\ UNCHANGED <<tables, topic>>

\* txBookingRepo.Update: the row is updated, and locked, but not committed.
UpdateInTransaction(q) ==
  LET c == calls[q] IN
  /\ c.pc = "update" /\ c.op = "decline"
  /\ VersionMatches(c.booking, c.bk)
  /\ rowLock[c.booking] = NoRequest
  /\ rowLock' = [rowLock EXCEPT ![c.booking] = q]
  /\ calls' = [calls EXCEPT ![q].pc = "insert"]
  /\ UNCHANGED <<bookings, declineReasons, topic, history>>

\* No event: the TODO(decline-event) of DeclineBooking.
CommitDecline(q) ==
  /\ DeclineRows(calls[q])
  /\ calls' = [calls EXCEPT ![q] = Answered(@)]
  /\ UNCHANGED topic

\* publishEvent only logs a failure, so the call is answered either way.
Publish(q) ==
  /\ calls[q].pc = "publish"
  /\ topic' = [topic EXCEPT ![calls[q].booking] = Append(@, EventFor(calls[q]))]
  /\ calls' = [calls EXCEPT ![q] = Answered(@)]
  /\ UNCHANGED tables

Respond(q) ==
  /\ calls[q].pc = "reply"
  /\ calls' = [calls EXCEPT ![q] = Idle]
  /\ UNCHANGED <<tables, topic>>

-----------------------------------------------------------------------------
(* What may go wrong. *)

\* FindByID fails.
ReadFails(q) ==
  /\ "db" \in Faults
  /\ calls[q] = Idle
  /\ calls' = [calls EXCEPT ![q] = Refused("error")]
  /\ UNCHANGED <<tables, topic>>

\* A statement fails or the request's context is cancelled before it runs.
StatementFails(q) ==
  /\ "db" \in Faults
  /\ calls[q].pc \in {"save", "update", "insert"}
  /\ calls' = [calls EXCEPT ![q] = Refused("error")]
  /\ rowLock' = LocksWithout(q)
  /\ UNCHANGED <<bookings, declineReasons, topic, history>>

\* The database commits and the answer is lost: the service sees an error.
CommitUnseen(q) ==
  /\ "db" \in Faults
  /\ \/ SaveRow(calls[q])
     \/ UpdateRow(calls[q])
     \/ DeclineRows(calls[q])
  /\ calls' = [calls EXCEPT ![q] = Refused("error")]
  /\ UNCHANGED topic

\* The broker is away or the client's context is cancelled by now.
PublishFails(q) ==
  /\ "broker" \in Faults
  /\ calls[q].pc = "publish"
  /\ calls' = [calls EXCEPT ![q] = Answered(@)]
  /\ UNCHANGED <<tables, topic>>

\* The process dies and starts again; the database rolls back what was open.
Crash ==
  /\ "crash" \in Faults
  /\ calls' = [q \in Requests |-> Idle]
  /\ rowLock' = [b \in Bookings |-> NoRequest]
  /\ UNCHANGED <<bookings, declineReasons, topic, history>>

-----------------------------------------------------------------------------
\* A call is refused at once or has something to write.
Ask(q) ==
  \/ RejectRequest(q)
  \/ CreateBooking(q)
  \/ \E b \in Bookings :
       \/ AcceptBooking(q, b)
       \/ StartBookingDelivery(q, b)
       \/ ConfirmBookingDelivery(q, b)
       \/ CompleteBooking(q, b)
       \/ CancelBooking(q, b)
       \/ DeclineBooking(q, b)
       \/ \E owner \in Owners : RebookBooking(q, b, owner)

Arrive(q) == Ask(q) \/ ReadFails(q)

Progress(q) ==
  \/ Save(q) \/ NumberCollides(q)
  \/ Update(q) \/ Conflict(q)
  \/ UpdateInTransaction(q) \/ CommitDecline(q)
  \/ Publish(q)

Failure(q) == StatementFails(q) \/ CommitUnseen(q) \/ PublishFails(q)

Work(q) == Progress(q) \/ Failure(q)

Continue(q) == Work(q) \/ Respond(q)

Next == Crash \/ \E q \in Requests : Arrive(q) \/ Continue(q)

Spec == Init /\ [][Next]_vars

\* A goroutine that has begun a call is scheduled until it has answered.
Fairness == \A q \in Requests : WF_vars(Continue(q))

FairSpec == Spec /\ Fairness

=============================================================================
