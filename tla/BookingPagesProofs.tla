-------------------------- MODULE BookingPagesProofs --------------------------
(***************************************************************************)
(* What a walk over the pages of a changing list shows, for every number of *)
(* bookings and every page size.                                            *)
(***************************************************************************)
EXTENDS BookingPages, FiniteSetTheorems, WellFoundedInduction, TLAPS

-----------------------------------------------------------------------------
(* Ranks in a finite set of ids: they are 0, 1, 2, ... without a gap. *)

LEMMA NewerFinite ==
  ASSUME NEW L, IsFiniteSet(L), NEW b
  PROVE  /\ IsFiniteSet(Newer(L, b)) /\ Newer(L, b) \in SUBSET L
         /\ Rank(L, b) \in Nat /\ Rank(L, b) <= Cardinality(L)
<1>1. Newer(L, b) \in SUBSET L
  BY DEF Newer
<1> QED BY <1>1, FS_Subset, FS_CardinalityType DEF Rank

LEMMA RankMonotone ==
  ASSUME NEW L, NEW M, IsFiniteSet(L), IsFiniteSet(M), L \subseteq M, NEW b
  PROVE  Rank(L, b) <= Rank(M, b)
<1>1. Newer(L, b) \in SUBSET Newer(M, b) /\ IsFiniteSet(Newer(M, b))
  BY NewerFinite DEF Newer
<1> QED BY <1>1, FS_Subset DEF Rank

LEMMA RankBelowSize ==
  ASSUME NEW L \in SUBSET Nat, IsFiniteSet(L), NEW b \in L
  PROVE  Rank(L, b) < Cardinality(L)
<1>1. Newer(L, b) \in SUBSET (L \ {b})
  BY DEF Newer
<1>2. IsFiniteSet(L \ {b}) /\ Cardinality(L \ {b}) = Cardinality(L) - 1
  BY FS_RemoveElement
<1>3. Rank(L, b) <= Cardinality(L) - 1
  BY <1>1, <1>2, FS_Subset DEF Rank
<1>4. Rank(L, b) \in Nat /\ Cardinality(L) \in Nat
  BY NewerFinite, FS_CardinalityType
<1> QED BY <1>3, <1>4, Z3

\* Among subsets of a finite set there is a minimal one.
LEMMA MinimalSubset ==
  ASSUME NEW S, IsFiniteSet(S), NEW T, T # {}, \A t \in T : t \in SUBSET S
  PROVE  \E x \in T : \A y \in T : ~(y \subseteq x /\ y # x)
<1>1. T \subseteq FiniteSubsetsOf(S)
  BY FS_Subset DEF FiniteSubsetsOf
<1>2. IsWellFoundedOn(StrictSubsetOrdering(S), FiniteSubsetsOf(S))
  BY FS_StrictSubsetOrderingWellFounded
<1>3. PICK x \in T : \A y \in T : <<y, x>> \notin StrictSubsetOrdering(S)
  BY <1>1, <1>2, WFMin
<1>4. ASSUME NEW y \in T, y \subseteq x, y # x PROVE FALSE
  <2>1. <<y, x>> \in StrictSubsetOrdering(S)
    BY <1>4 DEF StrictSubsetOrdering
  <2> QED BY <1>3, <2>1
<1> QED BY <1>4

\* A non-empty finite set of naturals has a least element.
LEMMA LeastExists ==
  ASSUME NEW S \in SUBSET Nat, IsFiniteSet(S), S # {}
  PROVE  \E m \in S : \A k \in S : m <= k
<1> DEFINE Below(m) == {k \in S : k < m}
           T == {Below(m) : m \in S}
<1>1. T # {} /\ \A t \in T : t \in SUBSET S
  OBVIOUS
<1>2. \E x \in T : \A y \in T : ~(y \subseteq x /\ y # x)
  <2> HIDE DEF T
  <2> QED BY <1>1, MinimalSubset
<1>3. PICK m \in S : \A y \in T : ~(y \subseteq Below(m) /\ y # Below(m))
  BY <1>2
<1>4. ASSUME NEW k \in S, k < m PROVE FALSE
  <2>1. k \in Nat /\ m \in Nat
    OBVIOUS
  <2>2. k \in Below(m) /\ k \notin Below(k)
    BY <1>4, <2>1
  <2>3. ASSUME NEW j \in Below(k) PROVE j \in Below(m)
    <3>1. j \in S /\ j < k /\ j \in Nat
      OBVIOUS
    <3>2. j < m
      BY <1>4, <2>1, <3>1
    <3> QED BY <3>1, <3>2
  <2>4. Below(k) \in T
    OBVIOUS
  <2> HIDE DEF T, Below
  <2>5. Below(k) \subseteq Below(m)
    BY <2>3
  <2> QED BY <1>3, <2>2, <2>4, <2>5
<1> HIDE DEF T, Below
<1>5. ASSUME NEW k \in S PROVE m <= k
  <2>1. k \in Nat /\ m \in Nat
    OBVIOUS
  <2> QED BY <1>4, <2>1
<1> QED BY <1>5

\* Where there is a booking of rank n or more there is one of rank n.
LEMMA RankReached ==
  ASSUME NEW L \in SUBSET Nat, IsFiniteSet(L), NEW n \in Nat, NEW b \in L, Rank(L, b) >= n
  PROVE  \E c \in L : Rank(L, c) = n
<1> DEFINE C == {c \in L : Rank(L, c) >= n}
           T == {Newer(L, c) : c \in C}
<1>1. T # {} /\ \A t \in T : t \in SUBSET L
  BY DEF Newer
<1>2. \E x \in T : \A y \in T : ~(y \subseteq x /\ y # x)
  <2> HIDE DEF T
  <2> QED BY <1>1, MinimalSubset
<1>3. PICK c \in C : \A y \in T : ~(y \subseteq Newer(L, c) /\ y # Newer(L, c))
  BY <1>2
<1>4. c \in L /\ Rank(L, c) >= n /\ Rank(L, c) \in Nat /\ IsFiniteSet(Newer(L, c))
  BY NewerFinite
<1>5. ASSUME Rank(L, c) # n PROVE FALSE
  <2>1. Rank(L, c) > n
    BY <1>4, <1>5
  <2>2. Newer(L, c) # {}
    <3>1. Cardinality({}) = 0
      BY FS_EmptySet
    <3> QED BY <2>1, <3>1 DEF Rank
  <2>3. Newer(L, c) \in SUBSET Nat
    BY DEF Newer
  <2>4. PICK m \in Newer(L, c) : \A k \in Newer(L, c) : m <= k
    BY <1>4, <2>2, <2>3, LeastExists
  <2>5. m \in L /\ m \in Nat /\ c \in Nat /\ m > c
    BY <1>4, <2>4 DEF Newer
  <2>6. Newer(L, m) = Newer(L, c) \ {m}
    <3>1. ASSUME NEW k \in Newer(L, c) PROVE k > m <=> k # m
      <4>1. k \in Nat /\ m <= k
        BY <2>3, <2>4
      <4> QED BY <2>5, <4>1
    <3>2. ASSUME NEW k \in L, k > m PROVE k > c
      <4>1. k \in Nat
        OBVIOUS
      <4> QED BY <2>5, <3>2, <4>1
    <3> QED BY <3>1, <3>2 DEF Newer
  <2>7. Rank(L, m) = Rank(L, c) - 1
    <3>1. Cardinality(Newer(L, c) \ {m}) = Cardinality(Newer(L, c)) - 1
      BY <1>4, <2>4, FS_RemoveElement
    <3> QED BY <2>6, <3>1 DEF Rank
  <2>8. Rank(L, m) >= n
    BY <1>4, <2>1, <2>7
  <2>9. Newer(L, m) \in T
    BY <2>5, <2>8
  <2> HIDE DEF T
  <2>10. Newer(L, m) \subseteq Newer(L, c) /\ Newer(L, m) # Newer(L, c)
    BY <2>4, <2>6
  <2> QED BY <1>3, <2>9, <2>10
<1> QED BY <1>4, <1>5

\* A page that is not full is the last one: nothing comes after it.
LEMMA ShortPageIsLast ==
  ASSUME NEW L \in SUBSET Nat, IsFiniteSet(L), NEW lo \in Nat, NEW lim \in Nat \ {0},
         NEW b \in L, Rank(L, b) >= lo + lim
  PROVE  Cardinality({c \in L : Rank(L, c) >= lo /\ Rank(L, c) < lo + lim}) >= lim
<1> DEFINE P == {c \in L : Rank(L, c) >= lo /\ Rank(L, c) < lo + lim}
<1>1. Rank(L, b) \in Nat /\ Rank(L, b) >= lo
  BY NewerFinite
<1>2. PICK u \in L : Rank(L, u) = lo + lim
  BY RankReached
<1>3. PICK v \in L : Rank(L, v) = lo
  BY <1>1, RankReached
<1> DEFINE D == Newer(L, u) \ Newer(L, v)
<1>4. ASSUME NEW c \in D PROVE c \in P
  <2>1. c \in L /\ c > u /\ c <= v /\ c \in Nat /\ u \in Nat /\ v \in Nat
    BY <1>4 DEF Newer
  <2>2. Newer(L, v) \in SUBSET Newer(L, c) /\ Newer(L, c) \in SUBSET (Newer(L, u) \ {c})
    <3>1. ASSUME NEW k \in L PROVE (k > v => k > c) /\ (k > c => k > u /\ k # c)
      <4>1. k \in Nat
        OBVIOUS
      <4> QED BY <2>1, <4>1
    <3> QED BY <3>1 DEF Newer
  <2>3. IsFiniteSet(Newer(L, c)) /\ IsFiniteSet(Newer(L, u))
    BY NewerFinite
  <2>4. lo <= Rank(L, c)
    BY <1>3, <2>2, <2>3, FS_Subset DEF Rank
  <2>5. /\ IsFiniteSet(Newer(L, u) \ {c})
        /\ Cardinality(Newer(L, u) \ {c}) = Rank(L, u) - 1
    BY <1>4, <2>3, FS_RemoveElement DEF Rank
  <2>6. Rank(L, c) <= Rank(L, u) - 1
    BY <2>2, <2>5, FS_Subset DEF Rank
  <2> QED BY <1>2, <2>1, <2>4, <2>6, NewerFinite
<1>5. IsFiniteSet(P) /\ D \in SUBSET P
  BY <1>4, FS_Subset
<1>6. Cardinality(D) <= Cardinality(P) /\ Cardinality(P) \in Nat
  BY <1>5, FS_Subset, FS_CardinalityType
<1> DEFINE I == Newer(L, u) \cap Newer(L, v)
<1>7. Cardinality(D) = (lo + lim) - Cardinality(I)
  BY <1>2, NewerFinite, FS_Difference DEF Rank
<1>8. Cardinality(I) <= lo /\ Cardinality(I) \in Nat
  <2>1. I \in SUBSET Newer(L, v) /\ IsFiniteSet(Newer(L, v))
    BY NewerFinite
  <2>2. Cardinality(Newer(L, v)) = lo
    BY <1>3 DEF Rank
  <2> HIDE DEF I
  <2> QED BY <2>1, <2>2, FS_Subset, FS_CardinalityType
<1> HIDE DEF P, D, I
<1>9. Cardinality(P) >= lim
  BY <1>6, <1>7, <1>8
<1> QED BY <1>9 DEF P

-----------------------------------------------------------------------------
(* The inductive invariant: a booking that stayed and was not shown yet lies  *)
(* behind the offset unless one left the list, and a booking shown lies        *)
(* before it unless one joined.                                               *)

IdleInv ==
  walk.pc = "idle" =>
    /\ walk.shown = {} /\ walk.twice = {}
    /\ ~seen.left /\ ~seen.grew /\ ~seen.raced

OnlyRunnersLose == walk.list # "runner" => ~seen.left

StayedInv == Walking => seen.stayed \subseteq Listing

AheadInv ==
  Walking /\ ~seen.left =>
    \A b \in seen.stayed : b \in walk.shown \/ Rank(Listing, b) >= Offset

BehindInv ==
  Walking /\ ~seen.grew => \A b \in walk.shown \cap Listing : Rank(Listing, b) < Offset

TotalInv ==
  walk.pc = "select" /\ ~seen.raced => Cardinality(Listing) <= walk.total

PInv ==
  /\ PagesTypeOK /\ IdleInv /\ OnlyRunnersLose /\ StayedInv /\ AheadInv
  /\ BehindInv /\ TotalInv
  /\ FullWalkShowsAll /\ TotalWalkMissesByRace /\ TwiceOnlyIfGrown

LEMMA OffsetArithmetic ==
  ASSUME NEW page \in Nat \ {0}, NEW limit \in Nat \ {0}
  PROVE  /\ (page - 1) * limit \in Nat
         /\ ((page + 1) - 1) * limit = (page - 1) * limit + limit
         /\ page * limit = (page - 1) * limit + limit
<1>1. PICK k \in Nat : page = k + 1
  <2>1. page - 1 \in Nat /\ page = (page - 1) + 1
    OBVIOUS
  <2> QED BY <2>1
<1>2. k * limit \in Nat /\ limit \in Nat
  BY SMT
<1>3. (k + 1) * limit = k * limit + limit
  BY Z3
<1>4. page - 1 = k /\ (page + 1) - 1 = k + 1
  BY <1>1
<1> QED BY <1>1, <1>2, <1>3, <1>4

LEMMA LimitPositive ==
  ASSUME NEW list, NEW asked \in AskedLimits
  PROVE  Limit(list, asked) \in Nat \ {0}
BY LimitsAssumption DEF Limit

LEMMA ListedFinite ==
  ASSUME NEW list, NEW who
  PROVE  /\ Listed(list, who) \in SUBSET Ids
         /\ Listed(list, who) \in SUBSET Nat
         /\ IsFiniteSet(Listed(list, who))
<1>1. Listed(list, who) \in SUBSET Ids
  BY DEF Listed
<1> QED BY <1>1, FS_Subset, IdsAssumption

LEMMA PagesInitInv == PagesInit => PInv
BY DEF PagesInit, ColumnsInit, PInv, PagesTypeOK, IdleInv, OnlyRunnersLose, StayedInv,
       AheadInv, BehindInv, TotalInv, FullWalkShowsAll, TotalWalkMissesByRace,
       TwiceOnlyIfGrown, Walks, NoWalk, Sightings, Walking

LEMMA StartInv ==
  ASSUME PInv, NEW list \in {"owner", "runner", "all"},
         NEW who \in Owners \cup Runners \cup {Nobody}, StartWalk(list, who)
  PROVE  PInv'
<1>1. PICK asked \in AskedLimits, rule \in {"total", "full"} :
        walk' = [NoWalk EXCEPT !.pc = "count", !.list = list, !.who = who,
                               !.limit = Limit(list, asked), !.rule = rule]
  BY DEF StartWalk
<1>2. Limit(list, asked) \in Nat \ {0}
  BY LimitPositive
<1>3. walk' = [pc |-> "count", list |-> list, who |-> who, limit |-> Limit(list, asked),
               rule |-> rule, page |-> 1, total |-> 0, shown |-> {}, twice |-> {}]
  BY <1>1 DEF NoWalk
<1>4. seen \in Sightings /\ seen' = [seen EXCEPT !.stayed = Listed(list, who)]
  BY DEF PInv, PagesTypeOK, StartWalk
<1>5. ~seen.left /\ ~seen.grew /\ ~seen.raced
  BY DEF PInv, IdleInv, StartWalk
<1>6. owner' = owner /\ runner' = runner
  BY DEF StartWalk, columns
<1>7. Listing' = Listed(list, who)
  BY <1>3, <1>6 DEF Listing, Listed
<1>8. PagesTypeOK'
  <2>1. walk' \in Walks
    BY <1>2, <1>3 DEF Walks
  <2>2. seen' \in Sightings
    BY <1>4, ListedFinite DEF Sightings
  <2> QED BY <1>6, <2>1, <2>2 DEF PInv, PagesTypeOK
<1>9. ~seen'.left /\ ~seen'.grew /\ ~seen'.raced /\ seen'.stayed = Listing'
  BY <1>4, <1>5, <1>7 DEF Sightings
<1>10. AheadInv'
  <2>1. Offset' = 0
    BY <1>2, <1>3 DEF Offset
  <2>2. \A b : Rank(Listing', b) \in Nat
    BY <1>7, ListedFinite, NewerFinite
  <2> QED BY <2>1, <2>2 DEF AheadInv, Rank, Newer
<1> QED BY <1>3, <1>8, <1>9, <1>10
        DEF PInv, IdleInv, OnlyRunnersLose, StayedInv, BehindInv, TotalInv,
            FullWalkShowsAll, TotalWalkMissesByRace, TwiceOnlyIfGrown, Walking

LEMMA CountInv ==
  ASSUME PInv, Count
  PROVE  PInv'
<1>1. walk \in Walks /\ seen \in Sightings /\ walk.pc = "count"
  BY DEF PInv, PagesTypeOK, Count
<1>2. /\ walk' = [walk EXCEPT !.pc = "select", !.total = Cardinality(Listing)]
      /\ seen' = [seen EXCEPT !.raced = FALSE] /\ owner' = owner /\ runner' = runner
  BY DEF Count, columns
<1>3. Cardinality(Listing) \in Nat
  BY ListedFinite, FS_CardinalityType DEF Listing
<1>4. /\ walk'.pc = "select" /\ walk'.list = walk.list /\ walk'.who = walk.who
      /\ walk'.limit = walk.limit /\ walk'.page = walk.page /\ walk'.rule = walk.rule
      /\ walk'.shown = walk.shown /\ walk'.twice = walk.twice
      /\ walk'.total = Cardinality(Listing)
      /\ walk' \in Walks
  BY <1>1, <1>2, <1>3 DEF Walks
<1>5. /\ seen'.stayed = seen.stayed /\ seen'.left = seen.left /\ seen'.grew = seen.grew
      /\ seen' \in Sightings
  BY <1>1, <1>2 DEF Sightings
<1>6. Listing' = Listing /\ Offset' = Offset
  BY <1>2, <1>4 DEF Listing, Listed, Offset
<1>7. PagesTypeOK'
  BY <1>2, <1>4, <1>5 DEF PInv, PagesTypeOK
<1>8. IdleInv' /\ OnlyRunnersLose' /\ StayedInv'
  BY <1>1, <1>4, <1>5, <1>6 DEF PInv, IdleInv, OnlyRunnersLose, StayedInv, Walking
<1>9. AheadInv'
  BY <1>1, <1>4, <1>5, <1>6 DEF PInv, AheadInv, Walking, Rank, Newer
<1>10. BehindInv'
  BY <1>1, <1>4, <1>5, <1>6 DEF PInv, BehindInv, Walking, Rank, Newer
<1>11. TotalInv'
  BY <1>3, <1>4, <1>6 DEF TotalInv
<1> QED BY <1>4, <1>5, <1>7, <1>8, <1>9, <1>10, <1>11
        DEF PInv, FullWalkShowsAll, TotalWalkMissesByRace, TwiceOnlyIfGrown

LEMMA SelectInv ==
  ASSUME PInv, Select
  PROVE  PInv'
<1>1. walk \in Walks /\ seen \in Sightings /\ walk.pc = "select" /\ Walking
  BY DEF PInv, PagesTypeOK, Select, Walking
<1>2. seen' = seen /\ owner' = owner /\ runner' = runner
  BY DEF Select, columns
<1>3. /\ walk'.pc = IF LastPage THEN "done" ELSE "count"
      /\ walk'.page = IF LastPage THEN walk.page ELSE walk.page + 1
      /\ walk'.shown = walk.shown \cup Page
      /\ walk'.twice = walk.twice \cup (walk.shown \cap Page)
      /\ walk'.list = walk.list /\ walk'.who = walk.who
      /\ walk'.limit = walk.limit /\ walk'.rule = walk.rule /\ walk'.total = walk.total
  BY <1>1 DEF Select, Walks
<1>4. walk.page \in Nat \ {0} /\ walk.limit \in Nat \ {0} /\ walk.rule \in {"total", "full"}
  BY <1>1 DEF Walks
<1>5. Listing' = Listing
  BY <1>2, <1>3 DEF Listing, Listed
<1>6. Listing \in SUBSET Ids /\ Listing \in SUBSET Nat /\ IsFiniteSet(Listing)
  BY ListedFinite DEF Listing
<1>7. Page \in SUBSET Listing
  BY DEF Page
<1>8. \A b : Rank(Listing, b) \in Nat
  BY <1>6, NewerFinite
<1>9. /\ Offset \in Nat /\ walk.page * walk.limit = Offset + walk.limit
      /\ ~LastPage => Offset' = Offset + walk.limit
  BY <1>3, <1>4, OffsetArithmetic DEF Offset
<1>10. PagesTypeOK'
  <2>1. Page \in SUBSET Ids /\ walk.page + 1 \in Nat \ {0}
    BY <1>4, <1>6, <1>7
  <2>2. walk' \in Walks
    <3>1. CASE LastPage
      BY <1>1, <2>1, <3>1 DEF Select, Walks
    <3>2. CASE ~LastPage
      BY <1>1, <2>1, <3>2 DEF Select, Walks
    <3> QED BY <3>1, <3>2
  <2> QED BY <1>2, <2>2 DEF PInv, PagesTypeOK
\* What is left to show lies behind this page.
<1>11. ASSUME ~seen.left, NEW b \in seen.stayed
       PROVE  b \in walk'.shown \/ (b \in Listing /\ Rank(Listing, b) >= Offset + walk.limit)
  <2>1. b \in Listing
    BY <1>1 DEF PInv, StayedInv
  <2>2. b \in walk.shown \/ Rank(Listing, b) >= Offset
    BY <1>1, <1>11 DEF PInv, AheadInv
  <2>3. Rank(Listing, b) < Offset + walk.limit \/ Rank(Listing, b) >= Offset + walk.limit
    BY <1>4, <1>8, <1>9
  <2> QED BY <1>3, <2>1, <2>2, <2>3 DEF Page
<1>12. AheadInv'
  BY <1>2, <1>3, <1>5, <1>9, <1>11 DEF AheadInv, Walking, Rank, Newer
<1>13. ASSUME ~seen.grew PROVE walk.shown \cap Page = {}
  <2>1. SUFFICES ASSUME NEW b \in walk.shown \cap Page PROVE FALSE
    OBVIOUS
  <2>2. Rank(Listing, b) >= Offset /\ b \in Listing
    BY <2>1 DEF Page
  <2>3. Rank(Listing, b) < Offset
    BY <1>1, <1>13, <2>1, <2>2 DEF PInv, BehindInv
  <2> QED BY <1>8, <1>9, <2>2, <2>3
<1>14. TwiceOnlyIfGrown'
  BY <1>2, <1>3, <1>13 DEF PInv, TwiceOnlyIfGrown
<1>15. BehindInv'
  <2>1. SUFFICES ASSUME ~LastPage, ~seen.grew, NEW b \in walk'.shown \cap Listing
                 PROVE  Rank(Listing, b) < Offset + walk.limit
    BY <1>2, <1>3, <1>5, <1>9 DEF BehindInv, Walking, Rank, Newer
  <2>2. CASE b \in Page
    BY <2>2 DEF Page
  <2>3. CASE b \in walk.shown
    <3>1. Rank(Listing, b) < Offset
      BY <1>1, <2>1, <2>3 DEF PInv, BehindInv
    <3> QED BY <1>4, <1>8, <1>9, <3>1
  <2> QED BY <1>3, <2>2, <2>3
<1>16. FullWalkShowsAll'
  <2>1. SUFFICES ASSUME LastPage, walk.rule = "full", walk.list = "runner" => ~seen.left,
                        NEW b \in seen.stayed
                 PROVE  b \in walk'.shown
    BY <1>2, <1>3 DEF FullWalkShowsAll
  <2>2. ~seen.left
    BY <2>1 DEF PInv, OnlyRunnersLose
  <2>3. Cardinality(Page) < walk.limit
    BY <2>1 DEF LastPage
  <2>4. ASSUME b \in Listing, Rank(Listing, b) >= Offset + walk.limit PROVE FALSE
    <3>1. Cardinality(Page) >= walk.limit
      BY <1>4, <1>6, <1>9, <2>4, ShortPageIsLast DEF Page
    <3>2. Cardinality(Page) \in Nat
      BY <1>6, <1>7, FS_Subset, FS_CardinalityType
    <3> QED BY <1>4, <2>3, <3>1, <3>2
  <2> QED BY <1>11, <2>2, <2>4
<1>17. TotalWalkMissesByRace'
  <2>1. SUFFICES ASSUME LastPage, walk.rule = "total", ~seen.raced,
                        walk.list = "runner" => ~seen.left, NEW b \in seen.stayed
                 PROVE  b \in walk'.shown
    BY <1>2, <1>3 DEF TotalWalkMissesByRace
  <2>2. ~seen.left
    BY <2>1 DEF PInv, OnlyRunnersLose
  <2>3. Offset + walk.limit >= walk.total
    BY <1>9, <2>1 DEF LastPage
  <2>4. Cardinality(Listing) <= walk.total
    BY <1>1, <2>1 DEF PInv, TotalInv
  <2>5. ASSUME b \in Listing, Rank(Listing, b) >= Offset + walk.limit PROVE FALSE
    <3>1. Rank(Listing, b) < Cardinality(Listing)
      BY <1>6, <2>5, RankBelowSize
    <3>2. Cardinality(Listing) \in Nat /\ walk.total \in Nat
      BY <1>1, <1>6, FS_CardinalityType DEF Walks
    <3> QED BY <1>4, <1>8, <1>9, <2>3, <2>4, <2>5, <3>1, <3>2
  <2> QED BY <1>11, <2>2, <2>5
<1> QED BY <1>1, <1>2, <1>3, <1>5, <1>10, <1>12, <1>14, <1>15, <1>16, <1>17
        DEF PInv, IdleInv, OnlyRunnersLose, StayedInv, TotalInv, Walking

LEMMA ChangeInv ==
  ASSUME PInv, Change
  PROVE  PInv'
<1>1. /\ walk \in Walks /\ seen \in Sightings /\ walk' = walk
      /\ owner \in [Ids -> Owners \cup {Nobody}] /\ runner \in [Ids -> Runners \cup {Nobody}]
  BY DEF PInv, PagesTypeOK, Change
<1>2. /\ owner' \in [Ids -> Owners \cup {Nobody}]
      /\ runner' \in [Ids -> Runners \cup {Nobody}]
      /\ \A b \in Ids : owner[b] # Nobody => owner'[b] = owner[b]
  <2>1. PICK b \in Ids : Insert(b) \/ Assign(b) \/ Release(b)
    BY DEF Change, ColumnsNext
  <2>2. CASE Insert(b)
    BY <1>1, <2>2 DEF Insert
  <2>3. CASE Assign(b)
    BY <1>1, <2>3 DEF Assign
  <2>4. CASE Release(b)
    BY <1>1, <2>4 DEF Release
  <2> QED BY <2>1, <2>2, <2>3, <2>4
<1>3. walk.list # "runner" => Listing \subseteq Listing'
  BY <1>1, <1>2 DEF Listing, Listed
<1>4. Offset' = Offset /\ Walking' = Walking
  BY <1>1 DEF Offset, Walking
<1>5. seen' = IF ~Walking THEN seen ELSE
        [stayed |-> seen.stayed \cap Listing',
         left |-> seen.left \/ ~(Listing \subseteq Listing'),
         grew |-> seen.grew \/ ~(Listing' \subseteq Listing),
         raced |-> \/ seen.raced
                   \/ walk.pc = "select" /\ ~(Listing' \subseteq Listing)]
  BY DEF Change
<1>6. /\ Listing \in SUBSET Nat /\ IsFiniteSet(Listing) /\ IsFiniteSet(Listing')
      /\ Listing' \in SUBSET Ids
  <2>1. Listing' = {b \in Ids : /\ owner'[b] # Nobody
                                /\ walk'.list = "owner" => owner'[b] = walk'.who
                                /\ walk'.list = "runner" => runner'[b] = walk'.who}
    BY DEF Listing, Listed
  <2>2. Listing' \in SUBSET Ids
    BY <2>1
  <2> QED BY <2>2, ListedFinite, FS_Subset, IdsAssumption DEF Listing
<1>7. PagesTypeOK'
  <2>1. seen' \in Sightings
    BY <1>1, <1>5 DEF Sightings
  <2> QED BY <1>1, <1>2, <2>1 DEF PagesTypeOK
<1>8. CASE ~Walking
  <2>1. seen' = seen
    BY <1>5, <1>8
  <2> QED BY <1>1, <1>4, <1>7, <1>8, <2>1
          DEF PInv, IdleInv, OnlyRunnersLose, StayedInv, AheadInv, BehindInv, TotalInv,
              FullWalkShowsAll, TotalWalkMissesByRace, TwiceOnlyIfGrown, Walking
<1>9. CASE Walking
  <2>1. /\ seen'.stayed = seen.stayed \cap Listing'
        /\ seen'.left = (seen.left \/ ~(Listing \subseteq Listing'))
        /\ seen'.grew = (seen.grew \/ ~(Listing' \subseteq Listing))
        /\ seen'.raced = (\/ seen.raced
                          \/ walk.pc = "select" /\ ~(Listing' \subseteq Listing))
    BY <1>5, <1>9
  <2>2. \A b : Rank(Listing, b) \in Nat /\ Rank(Listing', b) \in Nat
    BY <1>6, NewerFinite
  <2>3. Offset \in Nat
    BY <1>1, OffsetArithmetic DEF Offset, Walks
  <2>4. AheadInv'
    <3>1. SUFFICES ASSUME ~seen.left, Listing \subseteq Listing', NEW b \in seen.stayed
                   PROVE  b \in walk.shown \/ Rank(Listing', b) >= Offset
      BY <1>1, <1>4, <2>1 DEF AheadInv, Rank, Newer
    <3>2. b \in walk.shown \/ Rank(Listing, b) >= Offset
      BY <1>9, <3>1 DEF PInv, AheadInv
    <3>3. Rank(Listing, b) <= Rank(Listing', b)
      BY <1>6, <3>1, RankMonotone
    <3> QED BY <2>2, <2>3, <3>2, <3>3
  <2>5. BehindInv'
    <3>1. SUFFICES ASSUME ~seen.grew, Listing' \subseteq Listing,
                          NEW b \in walk.shown \cap Listing'
                   PROVE  Rank(Listing', b) < Offset
      BY <1>1, <1>4, <2>1 DEF BehindInv, Rank, Newer
    <3>2. Rank(Listing, b) < Offset
      BY <1>9, <3>1 DEF PInv, BehindInv
    <3>3. Rank(Listing', b) <= Rank(Listing, b)
      BY <1>6, <3>1, RankMonotone
    <3> QED BY <2>2, <2>3, <3>2, <3>3
  <2>6. TotalInv'
    <3>1. SUFFICES ASSUME walk.pc = "select", ~seen.raced, Listing' \subseteq Listing
                   PROVE  Cardinality(Listing') <= walk.total
      BY <1>1, <2>1 DEF TotalInv
    <3>2. Cardinality(Listing) <= walk.total /\ walk.total \in Nat
      BY <1>1, <3>1 DEF PInv, TotalInv, Walks
    <3>3. Cardinality(Listing') <= Cardinality(Listing)
      BY <1>6, <3>1, FS_Subset
    <3>4. Cardinality(Listing) \in Nat /\ Cardinality(Listing') \in Nat
      BY <1>6, FS_CardinalityType
    <3> QED BY <3>2, <3>3, <3>4
  <2>7. OnlyRunnersLose'
    BY <1>1, <1>3, <2>1 DEF PInv, OnlyRunnersLose
  <2>8. IdleInv' /\ StayedInv'
    BY <1>1, <1>9, <2>1 DEF IdleInv, StayedInv, Walking
  <2>9. FullWalkShowsAll' /\ TotalWalkMissesByRace'
    BY <1>1, <1>9 DEF FullWalkShowsAll, TotalWalkMissesByRace, Walking
  <2>10. TwiceOnlyIfGrown'
    BY <1>1, <2>1 DEF PInv, TwiceOnlyIfGrown
  <2> QED BY <1>7, <2>4, <2>5, <2>6, <2>7, <2>8, <2>9, <2>10 DEF PInv
<1> QED BY <1>8, <1>9

LEMMA PagesStutterInv ==
  ASSUME PInv, UNCHANGED pagesVars
  PROVE  PInv'
<1>1. owner' = owner /\ runner' = runner /\ walk' = walk /\ seen' = seen
  BY DEF pagesVars
<1>2. Listing' = Listing /\ Offset' = Offset /\ Walking' = Walking
  BY <1>1 DEF Listing, Listed, Offset, Walking
<1> QED BY <1>1, <1>2
        DEF PInv, PagesTypeOK, IdleInv, OnlyRunnersLose, StayedInv, AheadInv, BehindInv,
            TotalInv, FullWalkShowsAll, TotalWalkMissesByRace, TwiceOnlyIfGrown, Rank, Newer

LEMMA PagesStepInv == PInv /\ [PagesNext]_pagesVars => PInv'
<1> SUFFICES ASSUME PInv, [PagesNext]_pagesVars PROVE PInv'
  OBVIOUS
<1>1. ASSUME NEW o \in Owners, StartWalk("owner", o) PROVE PInv'
  BY <1>1, StartInv
<1>2. ASSUME NEW r \in Runners, StartWalk("runner", r) PROVE PInv'
  BY <1>2, StartInv
<1>3. CASE StartWalk("all", Nobody)
  BY <1>3, StartInv
<1>4. CASE Count
  BY <1>4, CountInv
<1>5. CASE Select
  BY <1>5, SelectInv
<1>6. CASE Change
  BY <1>6, ChangeInv
<1>7. CASE UNCHANGED pagesVars
  BY <1>7, PagesStutterInv
<1> QED BY <1>1, <1>2, <1>3, <1>4, <1>5, <1>6, <1>7 DEF PagesNext

LEMMA PagesInductive == PagesSpec => []PInv
BY PagesInitInv, PagesStepInv, PTL DEF PagesSpec

-----------------------------------------------------------------------------
(* How long a walk can be. *)

\* Each page asked for before this one was full.
BoundInv ==
  /\ walk.total <= Cardinality(Ids)
  /\ (walk.page - 1) * walk.limit <= Cardinality(Ids)

LEMMA IdsCounted == Cardinality(Ids) \in Nat
BY IdsAssumption, FS_CardinalityType

\* Behind a full page the list has at least that many bookings.
LEMMA FullPagesFit ==
  ASSUME NEW L \in SUBSET Nat, IsFiniteSet(L), NEW lo \in Nat, NEW lim \in Nat \ {0},
         Cardinality({c \in L : Rank(L, c) >= lo /\ Rank(L, c) < lo + lim}) >= lim
  PROVE  lo + lim <= Cardinality(L)
<1> DEFINE P == {c \in L : Rank(L, c) >= lo /\ Rank(L, c) < lo + lim}
<1>1. P \in SUBSET L /\ IsFiniteSet(P) /\ Cardinality(P) \in Nat /\ Cardinality(P) >= lim
  <2>1. P \in SUBSET L
    OBVIOUS
  <2> QED BY <2>1, FS_Subset, FS_CardinalityType
<1>2. PICK b \in P : TRUE
  <2>1. Cardinality({}) = 0
    BY FS_EmptySet
  <2> HIDE DEF P
  <2>2. ASSUME P = {} PROVE FALSE
    <3>1. Cardinality(P) = 0
      BY <2>1, <2>2
    <3> QED BY <1>1, <3>1
  <2> QED BY <2>2
<1>3. PICK v \in L : Rank(L, v) = lo
  <2>1. b \in L /\ Rank(L, b) >= lo
    BY <1>2
  <2> QED BY <2>1, RankReached
<1> DEFINE N == Newer(L, v)
<1>4. IsFiniteSet(N) /\ N \in SUBSET L /\ Cardinality(N) = lo
  BY <1>3, NewerFinite DEF Rank
<1>5. ASSUME NEW c \in N \cap P PROVE FALSE
  <2>1. c \in L /\ c > v /\ c \in Nat /\ v \in Nat /\ Rank(L, c) >= lo
    BY <1>5 DEF Newer
  <2>2. Newer(L, c) \in SUBSET (N \ {c})
    <3>1. ASSUME NEW k \in L, k > c PROVE k > v /\ k # c
      <4>1. k \in Nat
        OBVIOUS
      <4> QED BY <2>1, <3>1, <4>1
    <3> QED BY <3>1 DEF Newer
  <2>3. IsFiniteSet(N \ {c}) /\ Cardinality(N \ {c}) = lo - 1
    <3>1. c \in N
      BY <1>5
    <3> HIDE DEF N
    <3> QED BY <1>4, <3>1, FS_RemoveElement
  <2>4. Rank(L, c) <= lo - 1 /\ Rank(L, c) \in Nat
    BY <2>2, <2>3, FS_Subset, NewerFinite DEF Rank
  <2> QED BY <2>1, <2>4
<1> HIDE DEF N, P
<1>6. IsFiniteSet(N \cup P) /\ Cardinality(N \cup P) = Cardinality(N) + Cardinality(P)
  <2>1. N \cap P = {}
    BY <1>5
  <2>2. Cardinality(N \cap P) = 0
    BY <2>1, FS_EmptySet
  <2> QED BY <1>1, <1>4, <2>2, FS_Union
<1>7. N \cup P \in SUBSET L
  BY <1>1, <1>4
<1>8. Cardinality(N \cup P) <= Cardinality(L) /\ Cardinality(L) \in Nat
  BY <1>7, FS_Subset, FS_CardinalityType
<1> QED BY <1>1, <1>4, <1>6, <1>8

\* No page is asked for unless all the pages before it were full.
LEMMA StepKeepsBound ==
  ASSUME PInv, BoundInv, [PagesNext]_pagesVars
  PROVE  BoundInv'
<1>1. walk \in Walks /\ Cardinality(Ids) \in Nat
  BY IdsCounted DEF PInv, PagesTypeOK
<1>2. walk.page \in Nat \ {0} /\ walk.limit \in Nat \ {0} /\ walk.total \in Nat
  BY <1>1 DEF Walks
<1>3. /\ Listing \in SUBSET Ids /\ Listing \in SUBSET Nat /\ IsFiniteSet(Listing)
      /\ Cardinality(Listing) <= Cardinality(Ids) /\ Cardinality(Listing) \in Nat
  BY ListedFinite, IdsAssumption, FS_Subset, FS_CardinalityType DEF Listing
<1>4. ASSUME NEW list, NEW who, StartWalk(list, who) PROVE BoundInv'
  <2>1. PICK asked \in AskedLimits, rule \in {"total", "full"} :
          walk' = [NoWalk EXCEPT !.pc = "count", !.list = list, !.who = who,
                                 !.limit = Limit(list, asked), !.rule = rule]
    BY <1>4 DEF StartWalk
  <2>2. walk'.page = 1 /\ walk'.total = 0 /\ walk'.limit \in Nat
    BY <2>1, LimitPositive DEF NoWalk
  <2> QED BY <1>1, <2>2 DEF BoundInv
<1>5. CASE Count
  <2>1. /\ walk'.page = walk.page /\ walk'.limit = walk.limit
        /\ walk'.total = Cardinality(Listing)
    BY <1>1, <1>5 DEF Count, Walks
  <2> QED BY <1>3, <2>1 DEF BoundInv
<1>6. CASE Select
  <2>1. /\ walk'.total = walk.total /\ walk'.limit = walk.limit
        /\ walk'.page = IF LastPage THEN walk.page ELSE walk.page + 1
    BY <1>1, <1>6 DEF Select, Walks
  <2>2. ASSUME ~LastPage PROVE walk.page * walk.limit <= Cardinality(Ids)
    <3>1. walk.page * walk.limit = Offset + walk.limit /\ Offset \in Nat
      BY <1>2, OffsetArithmetic DEF Offset
    <3>2. CASE walk.rule = "total"
      <4>1. walk.page * walk.limit < walk.total
        BY <1>2, <2>2, <3>1, <3>2 DEF LastPage
      <4> QED BY <1>1, <1>2, <3>1, <4>1 DEF BoundInv
    <3>3. CASE walk.rule # "total"
      <4>1. Cardinality(Page) \in Nat
        BY <1>3, FS_Subset, FS_CardinalityType DEF Page
      <4>2. Cardinality(Page) >= walk.limit
        BY <1>2, <2>2, <3>3, <4>1 DEF LastPage
      <4>3. Offset + walk.limit <= Cardinality(Listing)
        BY <1>2, <1>3, <3>1, <4>2, FullPagesFit DEF Page
      <4> QED BY <1>1, <1>2, <1>3, <3>1, <4>3
    <3> QED BY <3>2, <3>3
  <2>3. (walk'.page - 1) * walk'.limit <= Cardinality(Ids)
    <3>1. CASE LastPage
      BY <2>1, <3>1 DEF BoundInv
    <3>2. CASE ~LastPage
      <4>1. walk'.page - 1 = walk.page
        BY <1>2, <2>1, <3>2
      <4> QED BY <2>1, <2>2, <3>2, <4>1
    <3> QED BY <3>1, <3>2
  <2> QED BY <2>1, <2>3 DEF BoundInv
<1>7. CASE Change
  BY <1>7 DEF Change, BoundInv
<1>8. CASE UNCHANGED pagesVars
  BY <1>8 DEF pagesVars, BoundInv
<1> QED BY <1>4, <1>5, <1>6, <1>7, <1>8 DEF PagesNext

-----------------------------------------------------------------------------
\* The walk is a walk of the client's list with a limit of at least one row.
THEOREM PagesTypeCorrect == PagesSpec => []PagesTypeOK
<1>1. PInv => PagesTypeOK
  BY DEF PInv
<1> QED BY <1>1, PagesInductive, PTL

\* A walk that ends at a page that is not full has shown every booking that
\* stayed on its list, however many were inserted between its statements
\* (booking_repository.go:83-140, 200-226).
THEOREM FullWalkComplete == PagesSpec => []FullWalkShowsAll
<1>1. PInv => FullWalkShowsAll
  BY DEF PInv
<1> QED BY <1>1, PagesInductive, PTL

\* A walk that ends by the total misses a booking only if one joined the list
\* between the two statements of its last answer, or left a runner's list
\* (booking_repository.go:85-97).
THEOREM TotalWalkMisses == PagesSpec => []TotalWalkMissesByRace
<1>1. PInv => TotalWalkMissesByRace
  BY DEF PInv
<1> QED BY <1>1, PagesInductive, PTL

\* No booking is shown twice while nothing joins the list
\* (booking_repository.go:83-140).
THEOREM NoRepeats == PagesSpec => []TwiceOnlyIfGrown
<1>1. PInv => TwiceOnlyIfGrown
  BY DEF PInv
<1> QED BY <1>1, PagesInductive, PTL

\* A walk has as many pages as the table has bookings, and one more: none goes
\* on for ever, whoever writes meanwhile (booking_handler.go:253-269).
THEOREM WalksAreBounded == PagesSpec => []WalkIsBounded
<1>1. PagesInit => BoundInv
  BY IdsCounted DEF PagesInit, NoWalk, BoundInv
<1>2. PInv /\ BoundInv /\ [PagesNext]_pagesVars => BoundInv'
  BY StepKeepsBound
<1>3. PInv /\ BoundInv => WalkIsBounded
  <2> SUFFICES ASSUME PInv, BoundInv PROVE WalkIsBounded
    OBVIOUS
  <2>1. walk.page \in Nat \ {0} /\ walk.limit \in Nat \ {0} /\ Cardinality(Ids) \in Nat
    BY IdsCounted DEF PInv, PagesTypeOK, Walks
  <2>2. PICK k \in Nat : walk.page - 1 = k
    BY <2>1
  <2>3. k * walk.limit >= k
    BY <2>1, Z3
  <2>4. k * walk.limit \in Nat
    BY <2>1, SMT
  <2>5. k * walk.limit <= Cardinality(Ids)
    BY <2>2 DEF BoundInv
  <2> HIDE DEF BoundInv
  <2> QED BY <2>1, <2>2, <2>3, <2>4, <2>5 DEF WalkIsBounded
<1> QED BY <1>1, <1>2, <1>3, PagesInductive, PTL DEF PagesSpec

=============================================================================
