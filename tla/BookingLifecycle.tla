--------------------------- MODULE BookingLifecycle ---------------------------
(***************************************************************************)
(* What the booking service promises its users, with no calls, versions,    *)
(* rows or transactions in sight: a job is posted, taken, perhaps given     *)
(* back, carried out and settled, one step at a time, or abandoned before   *)
(* the pet arrives.  BookingServiceRefines shows that BookingService        *)
(* implements it.                                                           *)
(***************************************************************************)
EXTENDS Sequences

CONSTANTS Jobs, Carriers, NoCarrier

VARIABLES
  stage,    \* "unposted", "open", "taken", "moving", "arrived", "settled", "abandoned"
  carrier,  \* who has taken it
  givenBack \* who has taken it and given it back, in order

lifecycleVars == <<stage, carrier, givenBack>>

LifecycleInit ==
  /\ stage = [j \in Jobs |-> "unposted"]
  /\ carrier = [j \in Jobs |-> NoCarrier]
  /\ givenBack = [j \in Jobs |-> << >>]

Advance(j, from, to) ==
  /\ stage[j] = from
  /\ stage' = [stage EXCEPT ![j] = to]

Post(j) == Advance(j, "unposted", "open") /\ UNCHANGED <<carrier, givenBack>>

Take(j, r) ==
  /\ Advance(j, "open", "taken")
  /\ carrier' = [carrier EXCEPT ![j] = r]
  /\ UNCHANGED givenBack

GiveBack(j) ==
  /\ Advance(j, "taken", "open")
  /\ carrier' = [carrier EXCEPT ![j] = NoCarrier]
  /\ givenBack' = [givenBack EXCEPT ![j] = Append(@, carrier[j])]

PickUp(j) == Advance(j, "taken", "moving") /\ UNCHANGED <<carrier, givenBack>>

Deliver(j) == Advance(j, "moving", "arrived") /\ UNCHANGED <<carrier, givenBack>>

Settle(j) == Advance(j, "arrived", "settled") /\ UNCHANGED <<carrier, givenBack>>

Abandon(j) ==
  /\ \E from \in {"open", "taken", "moving"} : Advance(j, from, "abandoned")
  /\ UNCHANGED <<carrier, givenBack>>

LifecycleNext ==
  \E j \in Jobs :
    \/ Post(j) \/ GiveBack(j) \/ PickUp(j) \/ Deliver(j) \/ Settle(j) \/ Abandon(j)
    \/ \E r \in Carriers : Take(j, r)

Lifecycle == LifecycleInit /\ [][LifecycleNext]_lifecycleVars

=============================================================================
