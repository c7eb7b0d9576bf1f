---------------------------- MODULE BookingStatus ----------------------------
(***************************************************************************)
(* The booking state machine of domain/booking/booking_status.go: the six   *)
(* statuses and the table of the transitions a booking may make.            *)
(***************************************************************************)

StatusRequested  == "requested"
StatusAccepted   == "accepted"
StatusInProgress == "in_progress"
StatusDelivered  == "delivered"
StatusCompleted  == "completed"
StatusCancelled  == "cancelled"

Statuses == {StatusRequested, StatusAccepted, StatusInProgress,
             StatusDelivered, StatusCompleted, StatusCancelled}

\* Mutant: a completed booking may still be cancelled.
ReopeningTransitions ==
  [s \in Statuses |->
     CASE s = StatusRequested  -> {StatusAccepted, StatusCancelled}
       [] s = StatusAccepted   -> {StatusInProgress, StatusCancelled, StatusRequested}
       [] s = StatusInProgress -> {StatusDelivered, StatusCancelled}
       [] s = StatusDelivered  -> {StatusCompleted}
       [] s = StatusCompleted  -> {StatusCancelled}
       [] s = StatusCancelled  -> {}]

validTransitions ==
  [s \in Statuses |->
     CASE s = StatusRequested  -> {StatusAccepted, StatusCancelled}
       [] s = StatusAccepted   -> {StatusInProgress, StatusCancelled, StatusRequested}
       [] s = StatusInProgress -> {StatusDelivered, StatusCancelled}
       [] s = StatusDelivered  -> {StatusCompleted}
       [] s = StatusCompleted  -> {}
       [] s = StatusCancelled  -> {}]

CanTransitionTo(s, target) ==
  s \in DOMAIN validTransitions /\ target \in validTransitions[s]

IsTerminal(s) == s \in DOMAIN validTransitions => validTransitions[s] = {}

CanBeCancelled(s) == CanTransitionTo(s, StatusCancelled)

=============================================================================
