------------------------------- MODULE Booking -------------------------------
(***************************************************************************)
(* The booking aggregate of domain/booking/booking.go.  A booking is a      *)
(* record: the fields the lifecycle reads or writes are kept, a timestamp   *)
(* that is nil until a milestone is reached is a BOOLEAN, an amount is a    *)
(* member of Prices, and the pet, the addresses and the notes, which no     *)
(* transition looks at, are left out.  The same record stands for the row   *)
(* of the bookings table, which the repository maps field by field.         *)
(***************************************************************************)
EXTENDS BookingStatus, Naturals

CONSTANTS Owners,    \* users with the owner role
          Runners,   \* users with the runner role
          NoRunner,  \* the nil RunnerID
          Prices,    \* the amounts in play
          NoPrice,   \* the nil FinalPriceCents
          Numbers    \* the booking numbers the generator can draw

ASSUME NoRunnerAssumption == NoRunner \notin Runners
ASSUME NoPriceAssumption == NoPrice \notin Prices

BookingRows ==
  [number : Numbers, owner : Owners, runner : Runners \cup {NoRunner},
   status : Statuses, estimatedPrice : Prices, finalPrice : Prices \cup {NoPrice},
   pickedUp : BOOLEAN, delivered : BOOLEAN, cancelled : BOOLEAN,
   version : Nat \ {0}]

\* Mutant: the version starts at 0.
NewBookingUnversioned(number, owner, price) ==
  [number |-> number, owner |-> owner, runner |-> NoRunner,
   status |-> StatusRequested, estimatedPrice |-> price, finalPrice |-> NoPrice,
   pickedUp |-> FALSE, delivered |-> FALSE, cancelled |-> FALSE, version |-> 0]

\* NewBooking: the checks on its arguments are requests the service rejects
\* (RejectRequest of BookingService).
NewBooking(number, owner, price) ==
  [number |-> number, owner |-> owner, runner |-> NoRunner,
   status |-> StatusRequested, estimatedPrice |-> price, finalPrice |-> NoPrice,
   pickedUp |-> FALSE, delivered |-> FALSE, cancelled |-> FALSE, version |-> 1]

Accept(bk, r) == [bk EXCEPT !.runner = r, !.status = StatusAccepted]

StartDelivery(bk) == [bk EXCEPT !.status = StatusInProgress, !.pickedUp = TRUE]

ConfirmDelivery(bk) == [bk EXCEPT !.status = StatusDelivered, !.delivered = TRUE]

Complete(bk, price) == [bk EXCEPT !.status = StatusCompleted, !.finalPrice = price]

Cancel(bk) == [bk EXCEPT !.status = StatusCancelled, !.cancelled = TRUE]

\* Mutant: the status goes back to requested, the runner stays.
DeclineKeepingRunner(bk) == [bk EXCEPT !.status = StatusRequested]

\* Mutant: the runner is cleared, the status stays.
DeclineKeepingStatus(bk) == [bk EXCEPT !.runner = NoRunner]

Decline(bk) == [bk EXCEPT !.status = StatusRequested, !.runner = NoRunner]

\* Mutant: the operation and the service both count the version up.
IncrementVersionTwice(bk) == [bk EXCEPT !.version = @ + 2]

IncrementVersion(bk) == [bk EXCEPT !.version = @ + 1]

-----------------------------------------------------------------------------
(* The domain operation behind each service method that changes a booking. *)

Transitions == {"accept", "pickup", "deliver", "complete", "cancel", "decline"}

\* The status the guard of each domain operation asks CanTransitionTo about.
Target(op) ==
  CASE op = "accept"   -> StatusAccepted
    [] op = "pickup"   -> StatusInProgress
    [] op = "deliver"  -> StatusDelivered
    [] op = "complete" -> StatusCompleted
    [] op = "cancel"   -> StatusCancelled
    [] op = "decline"  -> StatusRequested

\* The aggregate op leaves behind; r is the caller where op stores it.
Apply(op, bk, r) ==
  CASE op = "accept"   -> Accept(bk, r)
    [] op = "pickup"   -> StartDelivery(bk)
    [] op = "deliver"  -> ConfirmDelivery(bk)
    [] op = "complete" -> Complete(bk, bk.estimatedPrice)
    [] op = "cancel"   -> Cancel(bk)
    [] op = "decline"  -> Decline(bk)

=============================================================================
