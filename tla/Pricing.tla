------------------------------- MODULE Pricing -------------------------------
(***************************************************************************)
(* What a booking costs: the crate rules of pet_specification.go, the price *)
(* formula of pricing.go and the two methods of booking_service.go that use *)
(* them.  A row keeps what the price was made of.                           *)
(*                                                                          *)
(* Money is in sen, a weight in grams, a distance in metres: 250 sen for    *)
(* 1000 metres is a sen for 4.  haversineDistance may also yield NaN (its   *)
(* square root of 1 - a, when a rounds to more than 1); int64(NaN) is 0 or  *)
(* the least int64, depending on the machine the service was built for.     *)
(***************************************************************************)
EXTENDS Integers, Sequences, FiniteSets

CONSTANTS Distances,  \* lengths of journeys
          NaN,        \* the length that is not a number
          Weights,    \* weights a request may carry
          OtherTypes, \* pet types the code does not know
          MaxInt64,   \* the greatest int64
          MaxCreated, \* bound: rows that are no rebookings
          MaxRows     \* bound: rows of the table

ASSUME DistancesAssumption == Distances \subseteq Nat
ASSUME NaNAssumption == NaN \notin Int
ASSUME WeightsAssumption == Weights \subseteq Int
ASSUME MaxInt64Assumption == MaxInt64 \in Nat /\ MaxInt64 > 10000
ASSUME MaxCreatedAssumption == MaxCreated \in Nat
ASSUME MaxRowsAssumption == MaxRows \in Nat

PetTypes == {"cat", "dog", "bird", "rabbit", "reptile", "other"}

ASSUME OtherTypesAssumption == OtherTypes \cap PetTypes = {}

VARIABLES
  rows,  \* the bookings created, oldest first
  build  \* what int64(NaN) is on this machine

pricingVars == <<rows, build>>

MinInt64 == -1 - MaxInt64

CrateSizes == {"small", "medium", "large", "xlarge"}

\* What a client asks for: a pet, a journey, and perhaps a time.
PriceRequests ==
  [petType : PetTypes \cup OtherTypes, weight : Weights,
   distance : Distances \cup {NaN}, scheduled : BOOLEAN]

-----------------------------------------------------------------------------
(* pet_specification.go *)

\* Mutant: the first limit is exclusive.
CrateSizeShifted(weight) ==
  IF weight < 5000 THEN "small"
  ELSE IF weight <= 15000 THEN "medium"
  ELSE IF weight <= 30000 THEN "large"
  ELSE "xlarge"

MinimumSize(weight) ==
  IF weight <= 5000 THEN "small"
  ELSE IF weight <= 15000 THEN "medium"
  ELSE IF weight <= 30000 THEN "large"
  ELSE "xlarge"

DetermineCrateRequirement(petType, weight) ==
  [minimumSize |-> MinimumSize(weight), needsTempControl |-> petType = "reptile"]

-----------------------------------------------------------------------------
(* pricing.go *)

\* var totalCents int64 = 500: a literal, no configuration reaches it.
BaseFare == 500

\* Only the six known types have a surcharge, any other is an error.
petTypeSurcharge ==
  [t \in PetTypes |->
     CASE t = "dog" -> 500 [] t = "cat" -> 300 [] t = "bird" -> 200
       [] t = "reptile" -> 800 [] t = "rabbit" -> 300 [] t = "other" -> 500]

\* Mutant: the two larger sizes are swapped.
CrateSurchargeSwapped ==
  [s \in CrateSizes |->
     CASE s = "small" -> 0 [] s = "medium" -> 500
       [] s = "large" -> 2000 [] s = "xlarge" -> 1000]

crateSizeSurcharge ==
  [s \in CrateSizes |->
     CASE s = "small" -> 0 [] s = "medium" -> 500
       [] s = "large" -> 1000 [] s = "xlarge" -> 2000]

\* int64(params.DistanceKm * 250)
DistanceCharge(distance) ==
  IF distance = NaN THEN build ELSE distance \div 4

\* Whether Calculate returns no error.  NaN < 0 is false.
Calculable(petType, distance) ==
  /\ distance # NaN => distance >= 0
  /\ petType \in PetTypes

\* Mutant: a scheduled journey costs more.
CalculateWithSchedule(petType, size, distance, scheduled) ==
  BaseFare + DistanceCharge(distance) + petTypeSurcharge[petType] + crateSizeSurcharge[size]
      + IF scheduled THEN 200 ELSE 0

\* IsScheduled is a parameter of Calculate and changes nothing.
Calculate(petType, size, distance, scheduled) ==
  BaseFare + DistanceCharge(distance) + petTypeSurcharge[petType] + crateSizeSurcharge[size]

-----------------------------------------------------------------------------
(* booking_service.go *)

EstimatedPrice(req) ==
  Calculate(req.petType, MinimumSize(req.weight), req.distance, req.scheduled)

\* Mutant: NewBooking does not look at the price.
AcceptedUnpriced(req) ==
  /\ Calculable(req.petType, req.distance)
  /\ req.weight > 0

\* Pricing has no error and NewBooking finds the pet type, the weight and the
\* price acceptable; its other checks do not concern the price.
Accepted(req) ==
  /\ Calculable(req.petType, req.distance)
  /\ req.weight > 0
  /\ EstimatedPrice(req) > 0

Row(req, original) ==
  [request |-> req, crate |-> DetermineCrateRequirement(req.petType, req.weight),
   price |-> EstimatedPrice(req), original |-> original]

CreateBookingFrom(req, original) ==
  /\ Len(rows) < MaxRows
  /\ Accepted(req)
  /\ rows' = Append(rows, Row(req, original))
  /\ UNCHANGED build

CreateBooking ==
  /\ Cardinality({i \in DOMAIN rows : rows[i].original = 0}) < MaxCreated
  /\ \E req \in PriceRequests : CreateBookingFrom(req, 0)

\* The pet, the addresses and the notes are those of the original; a time is
\* not carried over, and crate and price are worked out again.
RebookBooking(i) ==
  CreateBookingFrom([rows[i].request EXCEPT !.scheduled = FALSE], i)

\* Any other request is answered with a validation error.
RefuseRequest ==
  /\ ~ \A req \in PriceRequests : Accepted(req)
  /\ UNCHANGED pricingVars

PricingInit ==
  /\ rows = << >>
  /\ build \in {0, MinInt64}

PricingNext ==
  \/ CreateBooking \/ RefuseRequest
  \/ \E i \in DOMAIN rows : RebookBooking(i)

PricingSpec == PricingInit /\ [][PricingNext]_pricingVars

-----------------------------------------------------------------------------
Rows ==
  [request : PriceRequests, crate : [minimumSize : CrateSizes, needsTempControl : BOOLEAN],
   price : Nat \ {0}, original : Nat]

PricingTypeOK ==
  /\ rows \in Seq(Rows)
  /\ build \in {0, MinInt64}

\* The weight limits of the crates, in grams.
Holds(size, weight) ==
  CASE size = "small" -> weight <= 5000
    [] size = "medium" -> weight <= 15000
    [] size = "large" -> weight <= 30000
    [] size = "xlarge" -> TRUE

Smaller(s, t) == crateSizeSurcharge[s] < crateSizeSurcharge[t]

\* The price on a row is the exact fare of its journey rounded down to a sen,
\* with the surcharge of the crate stored beside it, and that crate is the
\* smallest that holds the pet (pricing.go:34-56, pet_specification.go:75-100).
\* The base is the MYR 5.00 of pricing.go:30; the one README.md:64 configures is
\* BaseFareIsConfigured's.
PriceIsFare ==
  \A i \in DOMAIN rows : LET row == rows[i] IN
    /\ Holds(row.crate.minimumSize, row.request.weight)
    /\ \A s \in CrateSizes :
         Smaller(s, row.crate.minimumSize) => ~Holds(s, row.request.weight)
    /\ row.request.distance # NaN =>
         LET owed == 4 * (BaseFare + petTypeSurcharge[row.request.petType]
                              + crateSizeSurcharge[row.crate.minimumSize])
                     + row.request.distance
         IN  4 * row.price <= owed /\ owed < 4 * row.price + 4

\* A longer journey of a heavier pet of the same type never costs less: no
\* crate limit and no rounding turns the order round (pricing.go:34-92).
FartherCostsMore ==
  \A i, j \in DOMAIN rows : LET a == rows[i].request  b == rows[j].request IN
    /\ a.petType = b.petType /\ a.weight <= b.weight
    /\ a.distance # NaN /\ b.distance # NaN
    /\ a.distance <= b.distance
    => rows[i].price <= rows[j].price

\* Whatever int64(NaN) is, no booking is stored below the base fare that the
\* code charges (pricing.go:30, not README.md:64) and the surcharge of its pet:
\* the check of NewBooking stops a price that a distance without a value has
\* made negative (pricing.go:43, booking.go:88).
NeverBelowBase ==
  \A i \in DOMAIN rows : rows[i].price >= BaseFare + petTypeSurcharge[rows[i].request.petType]

\* A rebooking costs what the booking it repeats did, and so, in a chain of
\* rebookings, what the first did, although each is priced anew from what a row
\* kept and a scheduled original is rebooked without its time
\* (booking_service.go:341-382).
RebooksCostTheSame ==
  \A i \in DOMAIN rows :
    rows[i].original # 0 => rows[i].price = rows[rows[i].original].price

-----------------------------------------------------------------------------
\* README.md:53-65: "The service requires the following environment variables",
\* among them BASE_FARE=10.0 beside PRICE_PER_KM=2.5, the MYR a kilometre costs.
\* A service configured like that charges MYR 10.00 before anything else; this
\* one has its own base fare and reads neither variable.
BaseFareIsConfigured ==
  \A i \in DOMAIN rows : LET req == rows[i].request IN
    req.distance # NaN =>
      rows[i].price = 1000 + DistanceCharge(req.distance) + petTypeSurcharge[req.petType]
                           + crateSizeSurcharge[rows[i].crate.minimumSize]

=============================================================================
