------------------------ MODULE BookingServiceRefines ------------------------
(***************************************************************************)
(* BookingService implements BookingLifecycle, BookingColumns and           *)
(* BookingFeed.  The stage of a job is read off the milestones of its row   *)
(* and never off its status: that the two agree is part of what is shown.   *)
(***************************************************************************)
EXTENDS BookingSafety

StageOf(bk) ==
  IF bk = NoRow THEN "unposted"
  ELSE IF bk.cancelled THEN "abandoned"
  ELSE IF bk.finalPrice # NoPrice THEN "settled"
  ELSE IF bk.delivered THEN "arrived"
  ELSE IF bk.pickedUp THEN "moving"
  ELSE IF bk.runner # NoRunner THEN "taken"
  ELSE "open"

CarrierOf(bk) == IF bk = NoRow THEN NoRunner ELSE bk.runner

Life == INSTANCE BookingLifecycle WITH
  Jobs <- Bookings, Carriers <- Runners, NoCarrier <- NoRunner,
  stage <- [b \in Bookings |-> StageOf(bookings[b])],
  carrier <- [b \in Bookings |-> CarrierOf(bookings[b])],
  givenBack <- declineReasons

\* Seen through the bookings and decline-reason tables, concurrent calls with
\* stale copies, row locks, failures and crashes are one atomic lifecycle per
\* booking: each commit is one step of it and nothing else is visible.
LifecycleImplemented == Life!Lifecycle

\* The columns of the lists, each as a set of at most one value.
OwnerColumn ==
  [b \in Bookings |-> IF bookings[b] = NoRow THEN {} ELSE {bookings[b].owner}]

RunnerColumn ==
  [b \in Bookings |-> IF CarrierOf(bookings[b]) = NoRunner THEN {} ELSE {CarrierOf(bookings[b])}]

Cols == INSTANCE BookingColumns WITH
  Ids <- Bookings, Owners <- {{o} : o \in Owners}, Runners <- {{r} : r \in Runners},
  Nobody <- {}, owner <- OwnerColumn, runner <- RunnerColumn

\* What the lists look at changes only as BookingPages assumes: a booking gets
\* its owner once and for good, and a runner comes by an accept and goes by a
\* decline, whichever calls race, fail or crash (booking_repository.go:83-140).
ColumnsImplemented == Cols!ColumnsSpec

-----------------------------------------------------------------------------
\* The operation that leaves a booking in a status, a decline apart.
OperationTo ==
  [s \in Statuses |-> CHOOSE op \in Operations \ {"decline"} : EventStatus(op) = s]

DeclineNotice == [type |-> "decline", runner |-> NoRunner]

\* The notice version v of history h owes: nobody is told of a decline, and of
\* the runner only where a runner is at work.
NoticeOf(h, v) ==
  IF v > 1 /\ Released(h, v - 1) THEN DeclineNotice
  ELSE [type |-> OperationTo[h[v].status],
        runner |-> IF h[v].status \in {StatusRequested, StatusCancelled}
                     THEN NoRunner ELSE h[v].runner]

NoticesOwed == [b \in Bookings |-> [v \in 1 .. Len(history[b]) |-> NoticeOf(history[b], v)]]

NoticesGiven ==
  [b \in Bookings |-> [i \in 1 .. Len(topic[b]) |->
     [change |-> topic[b][i].version,
      notice |-> [type |-> topic[b][i].type, runner |-> topic[b][i].runner]]]]

NoticesDue == [type : Operations \ {"decline"}, runner : Runners \cup {NoRunner}]

Feed == INSTANCE BookingFeed WITH
  Jobs <- Bookings, Notices <- NoticesDue, Silence <- DeclineNotice,
  owed <- NoticesOwed, given <- NoticesGiven

\* What is on the topic is a feed of the committed changes: sent after its
\* commit by whichever goroutine made it, an event is never early, never
\* doubled by a race or a lost answer, and never tells of another version than
\* its own; order and completeness are not promised
\* (booking_service.go:528-563).
FeedImplemented == Feed!Feed

=============================================================================
