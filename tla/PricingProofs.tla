---------------------------- MODULE PricingProofs ----------------------------
(***************************************************************************)
(* The properties of Pricing for every set of distances and weights.  What  *)
(* makes them inductive is that a row is what its request costs, and that a *)
(* rebooking has the request of its original but for the time.              *)
(***************************************************************************)
EXTENDS Pricing, TLAPS

USE DEF BaseFare

RowSound(i) ==
  LET row == rows[i] IN
  /\ Accepted(row.request)
  /\ row = Row(row.request, row.original)
  /\ row.original \in 0 .. i - 1
  /\ row.original # 0 =>
       row.request = [rows[row.original].request EXCEPT !.scheduled = FALSE]

\* Type correctness and the soundness of every row (pricing.go:34-56).
RowsInv == PricingTypeOK /\ \A i \in DOMAIN rows : RowSound(i)

LEMMA ConstantTypes ==
  /\ petTypeSurcharge \in [PetTypes -> {200, 300, 500, 800}]
  /\ crateSizeSurcharge \in [CrateSizes -> {0, 500, 1000, 2000}]
  /\ MinInt64 \in Int /\ MinInt64 < 0 - 10000
BY MaxInt64Assumption DEF petTypeSurcharge, crateSizeSurcharge, PetTypes, CrateSizes, MinInt64

LEMMA SizeType == \A w \in Int : MinimumSize(w) \in CrateSizes
BY DEF MinimumSize, CrateSizes

\* The price of a request on a journey that has a length.
LEMMA PriceOf ==
  ASSUME NEW req \in PriceRequests, build \in {0, MinInt64}, req.petType \in PetTypes
  PROVE  LET extra == petTypeSurcharge[req.petType]
                        + crateSizeSurcharge[MinimumSize(req.weight)]
         IN  /\ req.distance # NaN => EstimatedPrice(req) = 500 + (req.distance \div 4) + extra
             /\ req.distance = NaN => EstimatedPrice(req) = 500 + build + extra
             /\ EstimatedPrice(req) \in Int
<1> DEFINE pet == petTypeSurcharge[req.petType]
           crate == crateSizeSurcharge[MinimumSize(req.weight)]
<1>1. req.weight \in Int /\ (req.distance \in Nat \/ req.distance = NaN)
  BY WeightsAssumption, DistancesAssumption DEF PriceRequests
<1>2. pet \in Int /\ crate \in Int
  BY <1>1, ConstantTypes, SizeType
<1>3. EstimatedPrice(req) = 500 + DistanceCharge(req.distance) + pet + crate
  BY DEF EstimatedPrice, Calculate
<1>4. CASE req.distance = NaN
  <2>1. DistanceCharge(req.distance) = build /\ build \in Int
    BY <1>4, ConstantTypes DEF DistanceCharge
  <2> QED BY <1>2, <1>3, <1>4, <2>1
<1>5. CASE req.distance # NaN
  <2>1. DistanceCharge(req.distance) = req.distance \div 4 /\ req.distance \div 4 \in Int
    BY <1>1, <1>5 DEF DistanceCharge
  <2> QED BY <1>2, <1>3, <1>5, <2>1
<1> QED BY <1>4, <1>5

-----------------------------------------------------------------------------
LEMMA RowType ==
  ASSUME NEW req \in PriceRequests, NEW original \in Nat, build \in {0, MinInt64}, Accepted(req)
  PROVE  Row(req, original) \in Rows
<1>1. req.petType \in PetTypes /\ EstimatedPrice(req) > 0
  BY DEF Accepted, Calculable
<1>2. EstimatedPrice(req) \in Nat \ {0}
  BY <1>1, PriceOf
<1>3. MinimumSize(req.weight) \in CrateSizes
  BY SizeType, WeightsAssumption DEF PriceRequests
<1>4. DetermineCrateRequirement(req.petType, req.weight)
        \in [minimumSize : CrateSizes, needsTempControl : BOOLEAN]
  BY <1>3 DEF DetermineCrateRequirement
<1> QED BY <1>2, <1>4 DEF Row, Rows

\* A creation appends a sound row to sound rows.
LEMMA AppendSound ==
  ASSUME RowsInv, NEW req \in PriceRequests, NEW original \in 0 .. Len(rows),
         CreateBookingFrom(req, original),
         original # 0 => req = [rows[original].request EXCEPT !.scheduled = FALSE]
  PROVE  RowsInv'
<1>0. rows \in Seq(Rows) /\ build \in {0, MinInt64} /\ original \in Nat
  BY DEF RowsInv, PricingTypeOK
<1>1. Accepted(req) /\ rows' = Append(rows, Row(req, original)) /\ build' = build
  BY DEF CreateBookingFrom
<1>2. Row(req, original) \in Rows
  BY <1>0, <1>1, RowType
<1>3. PricingTypeOK'
  BY <1>0, <1>1, <1>2 DEF PricingTypeOK
<1>4. /\ DOMAIN rows = 1 .. Len(rows) /\ DOMAIN rows' = 1 .. Len(rows) + 1
      /\ \A i \in 1 .. Len(rows) : rows'[i] = rows[i]
      /\ rows'[Len(rows) + 1] = Row(req, original)
  BY <1>0, <1>1, <1>2
<1>5. \A r : (Accepted(r))' <=> Accepted(r)
  BY <1>1 DEF Accepted, Calculable, EstimatedPrice, Calculate, DistanceCharge
<1>6. \A r, o : (Row(r, o))' = Row(r, o)
  BY <1>1 DEF Row, EstimatedPrice, Calculate, DistanceCharge
<1>7. ASSUME NEW i \in 1 .. Len(rows) PROVE RowSound(i)'
  <2>1. RowSound(i)
    BY <1>4, <1>7 DEF RowsInv
  <2>2. rows[i].original \in 0 .. i - 1
    BY <2>1 DEF RowSound
  <2>3. rows[i].original # 0 => rows'[rows[i].original] = rows[rows[i].original]
    BY <1>0, <1>4, <2>2
  <2> QED BY <1>4, <1>5, <1>6, <2>1, <2>3 DEF RowSound
<1>8. ASSUME NEW n, n = Len(rows) + 1 PROVE RowSound(n)'
  <2>1. rows'[n].request = req /\ rows'[n].original = original
    BY <1>4, <1>8 DEF Row
  <2>2. original \in 0 .. n - 1
    BY <1>0, <1>8
  <2>3. original # 0 => rows'[original] = rows[original]
    BY <1>0, <1>4
  <2>4. rows'[n] = Row(req, original)
    BY <1>4, <1>8
  <2> QED BY <1>1, <1>5, <1>6, <2>1, <2>2, <2>3, <2>4 DEF RowSound
<1>9. ASSUME NEW i \in DOMAIN rows' PROVE RowSound(i)'
  <2>1. i \in 1 .. Len(rows) \/ i = Len(rows) + 1
    BY <1>0, <1>4
  <2> QED BY <1>7, <1>8, <2>1
<1> QED BY <1>3, <1>9 DEF RowsInv

LEMMA RowsInvInit == PricingInit => RowsInv
<1> SUFFICES ASSUME PricingInit PROVE RowsInv OBVIOUS
<1>1. rows = << >> /\ build \in {0, MinInt64}
  BY DEF PricingInit
<1>2. rows \in Seq(Rows) /\ DOMAIN rows = {}
  BY <1>1
<1> QED BY <1>1, <1>2 DEF RowsInv, PricingTypeOK

LEMMA RowsInvStep == RowsInv /\ [PricingNext]_pricingVars => RowsInv'
<1> SUFFICES ASSUME RowsInv, [PricingNext]_pricingVars PROVE RowsInv'
  OBVIOUS
<1>0. rows \in Seq(Rows)
  BY DEF RowsInv, PricingTypeOK
<1>1. CASE CreateBooking
  <2>1. PICK req \in PriceRequests : CreateBookingFrom(req, 0)
    BY <1>1 DEF CreateBooking
  <2>2. 0 \in 0 .. Len(rows)
    BY <1>0
  <2> QED BY <2>1, <2>2, AppendSound
<1>2. ASSUME NEW i \in DOMAIN rows, RebookBooking(i) PROVE RowsInv'
  <2> DEFINE req == [rows[i].request EXCEPT !.scheduled = FALSE]
  <2>1. i \in 0 .. Len(rows) /\ rows[i] \in Rows
    BY <1>0
  <2>2. req \in PriceRequests
    BY <2>1 DEF Rows, PriceRequests
  <2>3. CreateBookingFrom(req, i)
    BY <1>2 DEF RebookBooking
  <2> HIDE DEF req
  <2>4. i # 0 => req = [rows[i].request EXCEPT !.scheduled = FALSE]
    BY DEF req
  <2> QED BY <2>1, <2>2, <2>3, <2>4, AppendSound
<1>3. CASE RefuseRequest \/ UNCHANGED pricingVars
  <2>1. rows' = rows /\ build' = build
    BY <1>3 DEF RefuseRequest, pricingVars
  <2>2. PricingTypeOK'
    BY <2>1 DEF RowsInv, PricingTypeOK
  <2>3. \A i : RowSound(i)' <=> RowSound(i)
    BY <2>1 DEF RowSound, Accepted, Calculable, Row, EstimatedPrice, Calculate, DistanceCharge
  <2> QED BY <2>1, <2>2, <2>3 DEF RowsInv
<1> QED BY <1>1, <1>2, <1>3 DEF PricingNext

\* Every row of the table is what its request costs, at any time.
THEOREM RowsAreSound == PricingSpec => []RowsInv
BY RowsInvInit, RowsInvStep, PTL DEF PricingSpec

\* Type correctness: prices are positive, crates have one of the four sizes.
THEOREM PricingTypeCorrect == PricingSpec => []PricingTypeOK
<1>1. RowsInv => PricingTypeOK
  BY DEF RowsInv
<1> QED BY <1>1, RowsAreSound, PTL

-----------------------------------------------------------------------------
\* Whatever is on a row under the invariant.
LEMMA RowFacts ==
  ASSUME RowsInv, NEW i \in DOMAIN rows
  PROVE  LET req == rows[i].request IN
         /\ req \in PriceRequests /\ req.petType \in PetTypes
         /\ req.weight \in Int
         /\ req.distance # NaN => req.distance \in Nat
         /\ rows[i].price = EstimatedPrice(req)
         /\ rows[i].price > 0
         /\ rows[i].crate.minimumSize = MinimumSize(req.weight)
         /\ build \in {0, MinInt64}
<1>1. rows[i] \in Rows /\ RowSound(i) /\ build \in {0, MinInt64}
  BY DEF RowsInv, PricingTypeOK
<1>2. rows[i].request \in PriceRequests
  BY <1>1 DEF Rows
<1>3. rows[i].request.weight \in Int
      /\ (rows[i].request.distance # NaN => rows[i].request.distance \in Nat)
  BY <1>2, WeightsAssumption, DistancesAssumption DEF PriceRequests
<1>4. Accepted(rows[i].request) /\ rows[i] = Row(rows[i].request, rows[i].original)
  BY <1>1 DEF RowSound
<1>5. rows[i].price = EstimatedPrice(rows[i].request)
      /\ rows[i].crate.minimumSize = MinimumSize(rows[i].request.weight)
  BY <1>4 DEF Row, DetermineCrateRequirement
<1>6. rows[i].request.petType \in PetTypes /\ EstimatedPrice(rows[i].request) > 0
  BY <1>4 DEF Accepted, Calculable
<1> QED BY <1>1, <1>2, <1>3, <1>5, <1>6

\* A quarter rounded down: the two facts about it that a price rests on.
LEMMA Quarters ==
  /\ \A d \in Nat : 4 * (d \div 4) <= d /\ d < 4 * (d \div 4) + 4 /\ d \div 4 \in Nat
  /\ \A d, e \in Nat : d <= e => d \div 4 <= e \div 4
OBVIOUS

\* The crate chosen for a weight is the smallest that holds it.
LEMMA SmallestCrate ==
  ASSUME NEW w \in Int
  PROVE  /\ Holds(MinimumSize(w), w)
         /\ \A s \in CrateSizes : Smaller(s, MinimumSize(w)) => ~Holds(s, w)
<1>2. CASE w <= 5000
  <2>1. MinimumSize(w) = "small"
    BY <1>2 DEF MinimumSize
  <2>2. \A s \in CrateSizes : ~Smaller(s, "small")
    BY DEF Smaller, CrateSizes, crateSizeSurcharge
  <2>3. Holds("small", w)
    BY <1>2 DEF Holds
  <2> QED BY <2>1, <2>2, <2>3
<1>3. CASE w > 5000 /\ w <= 15000
  <2>1. MinimumSize(w) = "medium"
    BY <1>3 DEF MinimumSize
  <2>2. \A s \in CrateSizes : Smaller(s, "medium") => s = "small"
    BY DEF Smaller, CrateSizes, crateSizeSurcharge
  <2>3. ~Holds("small", w) /\ Holds("medium", w)
    BY <1>3 DEF Holds
  <2> QED BY <2>1, <2>2, <2>3
<1>4. CASE w > 15000 /\ w <= 30000
  <2>1. MinimumSize(w) = "large"
    BY <1>4 DEF MinimumSize
  <2>2. \A s \in CrateSizes : Smaller(s, "large") => s \in {"small", "medium"}
    BY DEF Smaller, CrateSizes, crateSizeSurcharge
  <2>3. ~Holds("small", w) /\ ~Holds("medium", w) /\ Holds("large", w)
    BY <1>4 DEF Holds
  <2> QED BY <2>1, <2>2, <2>3
<1>5. CASE w > 30000
  <2>1. MinimumSize(w) = "xlarge"
    BY <1>5 DEF MinimumSize
  <2>2. \A s \in CrateSizes : Smaller(s, "xlarge") => s \in {"small", "medium", "large"}
    BY DEF Smaller, CrateSizes, crateSizeSurcharge
  <2>3. /\ ~Holds("small", w) /\ ~Holds("medium", w) /\ ~Holds("large", w)
        /\ Holds("xlarge", w)
    BY <1>5 DEF Holds
  <2> QED BY <2>1, <2>2, <2>3
<1> QED BY <1>2, <1>3, <1>4, <1>5

\* A heavier pet never has the cheaper crate.
LEMMA HeavierCrate ==
  ASSUME NEW v \in Int, NEW w \in Int, v <= w
  PROVE  crateSizeSurcharge[MinimumSize(v)] <= crateSizeSurcharge[MinimumSize(w)]
BY DEF MinimumSize, CrateSizes, crateSizeSurcharge

\* The price is the exact fare rounded down, for every distance and weight.
THEOREM FareExact == PricingSpec => []PriceIsFare
<1>1. RowsInv => PriceIsFare
  <2> SUFFICES ASSUME RowsInv, NEW i \in DOMAIN rows
      PROVE  LET row == rows[i] IN
        /\ Holds(row.crate.minimumSize, row.request.weight)
        /\ \A s \in CrateSizes :
             Smaller(s, row.crate.minimumSize) => ~Holds(s, row.request.weight)
        /\ row.request.distance # NaN =>
             LET owed == 4 * (BaseFare + petTypeSurcharge[row.request.petType]
                                  + crateSizeSurcharge[row.crate.minimumSize])
                         + row.request.distance
             IN  4 * row.price <= owed /\ owed < 4 * row.price + 4
      BY DEF PriceIsFare
  <2> DEFINE req == rows[i].request
             d == req.distance
             pet == petTypeSurcharge[req.petType]
             crate == crateSizeSurcharge[MinimumSize(req.weight)]
             p == rows[i].price
  <2>1. rows[i].crate.minimumSize = MinimumSize(req.weight) /\ req.weight \in Int
    BY RowFacts
  <2>2. pet \in Int /\ crate \in Int
    BY <2>1, RowFacts, ConstantTypes, SizeType
  <2>3. ASSUME d # NaN
        PROVE  LET owed == 4 * (500 + pet + crate) + d
               IN  4 * p <= owed /\ owed < 4 * p + 4
    <3>1. d \in Nat
      BY <2>3, RowFacts
    <3>2. p = 500 + (d \div 4) + (pet + crate)
      BY <2>3, RowFacts, PriceOf
    <3> HIDE DEF d, pet, crate, p
    <3> DEFINE q == d \div 4
    <3>3. 4 * q <= d /\ d < 4 * q + 4 /\ q \in Nat
      BY <3>1, Quarters
    <3> HIDE DEF q
    <3>4. p = 500 + q + (pet + crate)
      BY <3>2 DEF q
    <3> QED BY <2>2, <3>1, <3>3, <3>4
  <2> QED BY <2>1, <2>3, SmallestCrate
<1> QED BY <1>1, RowsAreSound, PTL

\* No crate limit and no rounding makes a longer or heavier journey cheaper.
THEOREM FareMonotone == PricingSpec => []FartherCostsMore
<1>1. RowsInv => FartherCostsMore
  <2> SUFFICES ASSUME RowsInv, NEW i \in DOMAIN rows, NEW j \in DOMAIN rows,
                      rows[i].request.petType = rows[j].request.petType,
                      rows[i].request.weight <= rows[j].request.weight,
                      rows[i].request.distance # NaN, rows[j].request.distance # NaN,
                      rows[i].request.distance <= rows[j].request.distance
               PROVE  rows[i].price <= rows[j].price
    BY DEF FartherCostsMore
  <2> DEFINE a == rows[i].request
             b == rows[j].request
             pet == petTypeSurcharge[a.petType]
             ca == crateSizeSurcharge[MinimumSize(a.weight)]
             cb == crateSizeSurcharge[MinimumSize(b.weight)]
             qa == a.distance \div 4
             qb == b.distance \div 4
  <2>1. ca \in Int /\ cb \in Int /\ pet \in Int
    BY RowFacts, ConstantTypes, SizeType
  <2>2. ca <= cb
    BY RowFacts, HeavierCrate
  <2>3. qa \in Nat /\ qb \in Nat /\ qa <= qb
    BY RowFacts, Quarters
  <2>4. rows[i].price = 500 + qa + (pet + ca)
    BY RowFacts, PriceOf
  <2>5. rows[j].price = 500 + qb + (pet + cb)
    BY RowFacts, PriceOf
  <2> HIDE DEF qa, qb, ca, cb, pet
  <2> QED BY <2>1, <2>2, <2>3, <2>4, <2>5
<1> QED BY <1>1, RowsAreSound, PTL

\* Neither outcome of int64(NaN) puts a price below the base on a row.
THEOREM FareAtLeastBase == PricingSpec => []NeverBelowBase
<1>1. RowsInv => NeverBelowBase
  <2> SUFFICES ASSUME RowsInv, NEW i \in DOMAIN rows
               PROVE  rows[i].price >= BaseFare + petTypeSurcharge[rows[i].request.petType]
    BY DEF NeverBelowBase
  <2> DEFINE req == rows[i].request
             pet == petTypeSurcharge[req.petType]
             crate == crateSizeSurcharge[MinimumSize(req.weight)]
             q == req.distance \div 4
  <2>1. pet \in 0 .. 800 /\ crate \in 0 .. 2000
    BY RowFacts, ConstantTypes, SizeType
  <2>2. CASE req.distance = NaN
    <3>1. rows[i].price = 500 + build + (pet + crate) /\ rows[i].price > 0
      BY <2>2, RowFacts, PriceOf
    <3>2. build \in Int /\ (build >= 0 \/ build < 0 - 10000)
      BY RowFacts, ConstantTypes
    <3> HIDE DEF pet, crate
    <3>0. 500 + build + (pet + crate) > 0
      BY <3>1
    <3>3. 500 + build + (pet + crate) >= 500 + pet
      BY <2>1, <3>0, <3>2, Z3
    <3> QED BY <3>1, <3>3 DEF pet
  <2>3. CASE req.distance # NaN
    <3>1. rows[i].price = 500 + q + (pet + crate) /\ rows[i].price > 0
      BY <2>3, RowFacts, PriceOf
    <3>2. q \in Int /\ q >= 0
      BY <2>3, RowFacts, Quarters
    <3> HIDE DEF pet, crate, q
    <3>0. 500 + q + (pet + crate) > 0
      BY <3>1
    <3>3. 500 + q + (pet + crate) >= 500 + pet
      BY <2>1, <3>0, <3>2, Z3
    <3> QED BY <3>1, <3>3 DEF pet
  <2> QED BY <2>2, <2>3
<1> QED BY <1>1, RowsAreSound, PTL

\* A rebooking costs what its original did.
THEOREM RebookingIsFair == PricingSpec => []RebooksCostTheSame
<1>1. RowsInv => RebooksCostTheSame
  <2> SUFFICES ASSUME RowsInv, NEW i \in DOMAIN rows, rows[i].original # 0
               PROVE  rows[i].price = rows[rows[i].original].price
    BY DEF RebooksCostTheSame
  <2> DEFINE o == rows[i].original
  <2>1. rows \in Seq(Rows) /\ RowSound(i)
    BY DEF RowsInv, PricingTypeOK
  <2>2. o \in DOMAIN rows
    BY <2>1 DEF RowSound
  <2>3. rows[i].request = [rows[o].request EXCEPT !.scheduled = FALSE]
    BY <2>1 DEF RowSound
  <2>4. /\ rows[i].request.petType = rows[o].request.petType
        /\ rows[i].request.weight = rows[o].request.weight
        /\ rows[i].request.distance = rows[o].request.distance
    BY <2>2, <2>3, RowFacts DEF PriceRequests
  <2>5. EstimatedPrice(rows[i].request) = EstimatedPrice(rows[o].request)
    BY <2>4 DEF EstimatedPrice, Calculate
  <2> QED BY <2>2, <2>5, RowFacts
<1> QED BY <1>1, RowsAreSound, PTL

=============================================================================
