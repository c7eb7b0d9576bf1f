---------------------------- MODULE BookingSafety ----------------------------
(***************************************************************************)
(* What the booking service promises whatever the interleaving of its calls *)
(* and whatever fails: properties of BookingService.                        *)
(***************************************************************************)
EXTENDS BookingService

\* Every variable has its type: rows are aggregates, calls are the records
\* the steps of a service method pass on (booking_service.go:85-433).
TypeOK ==
  /\ bookings \in [Bookings -> BookingRows \cup {NoRow}]
  /\ declineReasons \in [Bookings -> Seq(Runners)]
  /\ rowLock \in [Bookings -> Requests \cup {NoRequest}]
  /\ calls \in [Requests -> Calls]
  /\ topic \in [Bookings -> Seq(Events)]
  /\ history \in [Bookings -> Seq(BookingRows)]

Exists(b) == bookings[b] # NoRow

LegalStep(old, new) ==
  \E op \in Transitions : \E r \in Callers(op) :
    /\ Refusal(op, old, r) = "ok"
    /\ new = Successor(op, old, r)

\* No lost update: every committed version of a booking is one permitted
\* domain operation away from the version committed just before it, however
\* many calls changed copies of it meanwhile (booking_repository.go:156-197).
LegalHistory ==
  \A b \in Bookings : \A v \in 1 .. Len(history[b]) :
    IF v = 1
      THEN \E n \in Numbers, o \in Owners, p \in Prices :
             history[b][1] = NewBooking(n, o, p)
      ELSE LegalStep(history[b][v - 1], history[b][v])

Count(P) == IF P THEN 1 ELSE 0

\* The version counts what happened to the booking: its creation, two for
\* each decline on record (the accept and the decline) and one for each
\* milestone reached.  A write lost, doubled or half done breaks the count
\* (booking.go:316-319, booking_service.go:411-423).
VersionIsLedger ==
  \A b \in Bookings : Exists(b) =>
    LET bk == bookings[b] IN
    bk.version = 1 + 2 * Len(declineReasons[b])
                   + Count(bk.runner # NoRunner) + Count(bk.pickedUp)
                   + Count(bk.delivered) + Count(bk.finalPrice # NoPrice)
                   + Count(bk.cancelled)

\* The status a row stores agrees with the milestones it stores: a runner is
\* assigned exactly from accepted on (a cancelled booking keeps the one it
\* had), a booking is picked up before it is delivered and delivered before
\* it is paid for, and the final price is the estimate (booking.go:239-313).
MilestonesAgree(bk) ==
  /\ bk.status = StatusRequested =>
       bk.runner = NoRunner /\ ~bk.pickedUp
  /\ bk.status \in {StatusAccepted, StatusInProgress, StatusDelivered, StatusCompleted} =>
       bk.runner # NoRunner
  /\ bk.pickedUp => bk.runner # NoRunner /\ bk.status # StatusAccepted
  /\ bk.status \in {StatusInProgress, StatusDelivered, StatusCompleted} => bk.pickedUp
  /\ bk.delivered <=> bk.status \in {StatusDelivered, StatusCompleted}
  /\ bk.cancelled <=> bk.status = StatusCancelled
  /\ bk.finalPrice = IF bk.status = StatusCompleted THEN bk.estimatedPrice ELSE NoPrice

StatusMatchesMilestones ==
  \A b \in Bookings : Exists(b) => MilestonesAgree(bookings[b])

\* *bk.RunnerID() in StartDelivery and ConfirmDelivery is never a nil
\* dereference (booking_service.go:187, 218): no stale copy and no decline in
\* between leaves a call announcing a pickup or a delivery without a runner.
NoNilDereference ==
  \A q \in Requests :
    calls[q].pc = "publish" /\ calls[q].op \in {"pickup", "deliver"} =>
      calls[q].bk.runner # NoRunner

Succeeded(c) == c.pc = "publish" \/ c.reply = "ok"

\* Of the calls that changed copies of the same version of a booking at most
\* one succeeds: two runners are never both told the booking is theirs
\* (booking_repository.go:164-193).
OneWriterPerVersion ==
  \A q1, q2 \in Requests :
    /\ Succeeded(calls[q1]) /\ Succeeded(calls[q2])
    /\ calls[q1].booking = calls[q2].booking
    /\ calls[q1].bk.version = calls[q2].bk.version
    => q1 = q2

\* A call that succeeds answers with a booking that was committed, as it was
\* committed, although other calls may have changed it since.
RepliesAreCommitted ==
  \A q \in Requests : Succeeded(calls[q]) =>
    LET c == calls[q] IN
    /\ c.bk.version \in 1 .. Len(history[c.booking])
    /\ history[c.booking][c.bk.version] = c.bk

Released(h, v) ==
  v \in 1 .. (Len(h) - 1) /\ h[v].runner # NoRunner /\ h[v + 1].runner = NoRunner

\* at[i] is the version of history h that reason i of rs goes back to.
Audits(at, rs, h) ==
  /\ at \in [1 .. Len(rs) -> 1 .. Len(h)]
  /\ \A i, j \in 1 .. Len(rs) : i < j => at[i] < at[j]
  /\ \A v \in 1 .. Len(h) : Released(h, v) <=> \E i \in 1 .. Len(rs) : at[i] = v
  /\ \A i \in 1 .. Len(rs) : rs[i] = h[at[i]].runner

\* The decline reasons on record are those of the runners who gave the
\* booking back, in that order, whatever failed in or after the transaction
\* (booking_service.go:411-423).
DeclinesAudited ==
  \A b \in Bookings : LET rs == declineReasons[b]  h == history[b] IN
    \E at \in [1 .. Len(rs) -> 1 .. Len(h)] : Audits(at, rs, h)

EventStatus(op) == IF op = "create" THEN StatusRequested ELSE Target(op)

\* Every event announces a version that was committed, with the runner and
\* the kind of change of that version, and no version is announced twice,
\* although events are sent after the commit and by many goroutines
\* (booking_service.go:528-563).
EventsReflectCommits ==
  \A b \in Bookings : \A i \in 1 .. Len(topic[b]) :
    LET e == topic[b][i] IN
    /\ e.version \in 1 .. Len(history[b])
    /\ history[b][e.version].status = EventStatus(e.type)
    /\ e.type \notin {"create", "cancel"} => e.runner = history[b][e.version].runner
    /\ \A j \in 1 .. Len(topic[b]) : topic[b][j].version = e.version => i = j

\* While nothing fails, every committed change but a decline is on the topic
\* or about to be put there by the call that made it.
NothingUnannounced ==
  \A b \in Bookings : \A v \in 1 .. Len(history[b]) :
    \/ v > 1 /\ Released(history[b], v - 1)
    \/ \E i \in 1 .. Len(topic[b]) : topic[b][i].version = v
    \/ \E q \in Requests : /\ calls[q].pc = "publish"
                           /\ calls[q].booking = b
                           /\ calls[q].bk.version = v

\* A row is locked only by a decline in its transaction, on the version it
\* read: no path out of the transaction, failed or not, leaves the row locked.
LocksAreOwned ==
  \A b \in Bookings : rowLock[b] # NoRequest =>
    LET c == calls[rowLock[b]] IN
    c.pc = "insert" /\ c.booking = b /\ bookings[b].version = c.bk.version - 1

-----------------------------------------------------------------------------
(* What one step may do to the tables. *)

CreateStep(b) ==
  \E n \in Numbers, o \in Owners, p \in Prices :
    /\ bookings[b] = NoRow
    /\ \A a \in Bookings : Exists(a) => bookings[a].number # n
    /\ CommitRow(b, NewBooking(n, o, p))
    /\ UNCHANGED declineReasons

OperationStep(b, op, r) ==
  /\ bookings[b] # NoRow
  /\ Refusal(op, bookings[b], r) = "ok"
  /\ CommitRow(b, Successor(op, bookings[b], r))
  /\ declineReasons' = IF op = "decline"
                         THEN [declineReasons EXCEPT ![b] = Append(@, r)]
                         ELSE declineReasons

TableStep ==
  \/ UNCHANGED <<bookings, declineReasons, history>>
  \/ \E b \in Bookings :
       \/ CreateStep(b)
       \/ \E op \in Transitions : \E r \in Callers(op) : OperationStep(b, op, r)

\* Serializability: the tables change only by the creation of one booking under
\* a number that no other has, or by one permitted operation on one row as it
\* is at that moment, with a decline's reason recorded in the same step,
\* although every write is of a copy that was read and judged earlier, and a
\* number is drawn before it is looked up (booking_service.go:85-433).
StepsAreAtomic == [][TableStep]_vars

\* A completed or cancelled booking never changes again, even by a call that
\* read it before it ended (booking_status.go:18-25, 47-54).
TerminalIsFinal ==
  [][\A b \in Bookings :
       Exists(b) /\ IsTerminal(bookings[b].status) => bookings'[b] = bookings[b]]_vars

\* A runner who holds a booking loses it only by a decline of its own, and
\* in the step that clears the runner the reason is put on record under that
\* runner's name: there is no reassignment and no unrecorded release.
RunnerLeavesByDecline ==
  [][\A b \in Bookings :
       /\ Exists(b) /\ bookings[b].runner # NoRunner
          /\ bookings'[b].runner # bookings[b].runner
          => /\ bookings'[b].runner = NoRunner
             /\ declineReasons'[b] = Append(declineReasons[b], bookings[b].runner)
       /\ declineReasons'[b] # declineReasons[b]
          => Exists(b) /\ bookings[b].runner # NoRunner /\ bookings'[b].runner = NoRunner]_vars

\* No conflict is spurious: a call told of a conflict has lost to another that
\* committed, by a permitted operation on the very row this call read, the
\* version this call meant to write.  Refused writes never starve everybody,
\* and a booking is never stuck behind a version nobody reached
\* (booking_repository.go:164-193, booking_service.go:148-151).
ConflictsHaveWinners ==
  [][\A q \in Requests : Conflict(q) =>
       LET h == history[calls[q].booking]  v == calls[q].bk.version IN
       /\ v \in 2 .. Len(h)
       /\ Refusal(calls[q].op, h[v - 1], calls[q].runner) = "ok"
       /\ LegalStep(h[v - 1], h[v])]_vars

-----------------------------------------------------------------------------
\* Every call is answered: a goroutine waits for nothing but a row lock, and
\* a lock is let go by its transaction whatever happens to it.
CallsAnswered ==
  \A q \in Requests : calls[q] # Idle ~> calls[q] = Idle

\* What of this needs no fairness.  The steps a call has still to take:
StepsLeft(c) ==
  CASE c.pc \in {"save", "update"}    -> 3
    [] c.pc \in {"insert", "publish"} -> 2
    [] c.pc = "reply"                 -> 1
    [] c.pc = "idle"                  -> 0

\* No method loops or retries: whatever another call or a failure does to it, a
\* call that has begun is left alone or has fewer steps to take than before,
\* so it is answered in three at most (booking_service.go:85-433).
CallsMoveOn ==
  [][\A q \in Requests : calls[q].pc # "idle" /\ calls'[q] # calls[q] =>
       StepsLeft(calls'[q]) < StepsLeft(calls[q])]_vars

\* The one step that may have to wait: the update of a row that a transaction
\* has updated.  Every other step of a call is enabled as soon as it is next.
Waits(q) ==
  /\ calls[q].pc = "update"
  /\ VersionMatches(calls[q].booking, calls[q].bk)
  /\ rowLock[calls[q].booking] # NoRequest

\* No deadlock: whoever waits, waits for another call that is in the middle of
\* the decline of the same booking and waits for nobody, and the version that
\* the waiting call counts on is the one this decline will replace
\* (booking_service.go:411-423).
WaitsAreShort ==
  \A q \in Requests : Waits(q) =>
    LET h == rowLock[calls[q].booking] IN
    /\ h \in Requests \ {q}
    /\ ~Waits(h)
    /\ calls[h].pc = "insert" /\ calls[h].op = "decline"
    /\ calls[h].booking = calls[q].booking
    /\ calls[h].bk.version = calls[q].bk.version

\* While nothing fails, each change but a decline is eventually announced.
CommitsAnnounced ==
  \A b \in Bookings : \A v \in 1 .. 5 + 2 * MaxDeclines :
    (Len(history[b]) >= v /\ ~(v > 1 /\ Released(history[b], v - 1)))
      ~> (\E i \in 1 .. Len(topic[b]) : topic[b][i].version = v)
-----------------------------------------------------------------------------
(* What the comments and the README say and the code does not do. *)

\* booking.go:287 and booking_service.go:268: a booking "not yet in a terminal
\* state" can be cancelled.  delivered is not terminal and is refused.
CancelRefusedOnlyWhenTerminal ==
  [][\A q \in Requests, b \in Bookings :
       CancelBooking(q, b) /\ Exists(b) /\ calls'[q].pc = "reply"
         => IsTerminal(bookings[b].status)]_vars

\* README.md:16: "Kafka event publishing for state changes".  A decline
\* changes the state and publishes nothing.
EveryChangeAnnounced ==
  \A b \in Bookings : \A v \in 1 .. Len(history[b]) :
    \/ \E i \in 1 .. Len(topic[b]) : topic[b][i].version = v
    \/ \E q \in Requests : /\ calls[q].pc = "publish"
                           /\ calls[q].booking = b
                           /\ calls[q].bk.version = v

=============================================================================
