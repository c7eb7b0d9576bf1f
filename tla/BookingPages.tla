----------------------------- MODULE BookingPages -----------------------------
(***************************************************************************)
(* A client walks over the pages of a list of bookings while the bookings   *)
(* change.  Each answer takes two statements, a count and a page, and each  *)
(* page is another request, so others come in between all of them.          *)
(*                                                                          *)
(* An id is the booking's created_at: lists are ordered by it, newest       *)
(* first, and it is taken in NewBooking, before the row is inserted, so ids *)
(* are inserted in any order.  That no two bookings of a list share a       *)
(* created_at is assumed: the order of equal ones is PostgreSQL's choice.   *)
(*                                                                          *)
(* How a client ends its walk is its own affair; the two ways an answer     *)
(* allows are modelled: by the total it carries, or by a page that is not   *)
(* full.  seen is auxiliary: what happened to the list during the walk.     *)
(***************************************************************************)
EXTENDS BookingColumns, Integers, FiniteSets

CONSTANTS DefaultLimit, \* 20
          MaxLimit,     \* 100
          AskedLimits   \* the limits clients ask for

ASSUME IdsAssumption == Ids \subseteq Nat /\ IsFiniteSet(Ids)
ASSUME LimitsAssumption ==
  /\ AskedLimits \subseteq Int
  /\ DefaultLimit \in Nat \ {0} /\ MaxLimit \in Nat \ {0} /\ DefaultLimit <= MaxLimit

VARIABLES
  walk, \* the walk of the client
  seen  \* what happened to the list since the walk began

pagesVars == <<owner, runner, walk, seen>>

Walks ==
  [pc : {"idle", "count", "select", "done"}, list : {"owner", "runner", "all"},
   who : Owners \cup Runners \cup {Nobody}, limit : Nat \ {0}, rule : {"total", "full"},
   page : Nat \ {0}, total : Nat, shown : SUBSET Ids, twice : SUBSET Ids]

NoWalk == [pc |-> "idle", list |-> "all", who |-> Nobody, limit |-> 1, rule |-> "total",
           page |-> 1, total |-> 0, shown |-> {}, twice |-> {}]

\* stayed: listed all the time; left, grew: a booking left or joined the list;
\* raced: one joined between the last count and its page.
Sightings ==
  [stayed : SUBSET Ids, left : BOOLEAN, grew : BOOLEAN, raced : BOOLEAN]

\* The WHERE clauses of FindByOwnerID, FindByRunnerID and ListAll.
Listed(list, who) ==
  {b \in Ids : /\ owner[b] # Nobody
               /\ list = "owner" => owner[b] = who
               /\ list = "runner" => runner[b] = who}

Listing == Listed(walk.list, walk.who)

\* ORDER BY created_at DESC: what comes before b.
Newer(L, b) == {c \in L : c > b}

Rank(L, b) == Cardinality(Newer(L, b))

\* Mutant: offset := page * limit.
OffsetShifted == walk.page * walk.limit

\* Mutant: the offset is not handed on.
OffsetIgnored == 0

Offset == (walk.page - 1) * walk.limit

Page ==
  {b \in Listing : /\ Rank(Listing, b) >= Offset
                   /\ Rank(Listing, b) < Offset + walk.limit}

\* Mutant: only a negative limit is mended.
LimitAsAsked(list, asked) == IF asked < 0 THEN DefaultLimit ELSE asked

\* parsePagination, and the two tests of the admin's ListBookings.
Limit(list, asked) ==
  IF asked < 1 THEN DefaultLimit
  ELSE IF asked <= MaxLimit THEN asked
  ELSE IF list = "all" THEN DefaultLimit
  ELSE MaxLimit

PagesInit ==
  /\ ColumnsInit
  /\ walk = NoWalk
  /\ seen = [stayed |-> {}, left |-> FALSE, grew |-> FALSE, raced |-> FALSE]

\* ListBookings by role (a user of another role sees the list of an owner),
\* and the admin's list.
StartWalk(list, who) ==
  /\ walk.pc = "idle"
  /\ \E asked \in AskedLimits, rule \in {"total", "full"} :
       walk' = [NoWalk EXCEPT !.pc = "count", !.list = list, !.who = who,
                              !.limit = Limit(list, asked), !.rule = rule]
  /\ seen' = [seen EXCEPT !.stayed = Listed(list, who)]
  /\ UNCHANGED columns

\* Mutant: an empty list is answered as not found.
CountOfSome ==
  /\ walk.pc = "count" /\ Listing # {}
  /\ walk' = [walk EXCEPT !.pc = "select", !.total = Cardinality(Listing)]
  /\ seen' = [seen EXCEPT !.raced = FALSE]
  /\ UNCHANGED columns

Count ==
  /\ walk.pc = "count"
  /\ walk' = [walk EXCEPT !.pc = "select", !.total = Cardinality(Listing)]
  /\ seen' = [seen EXCEPT !.raced = FALSE]
  /\ UNCHANGED columns

LastPage ==
  IF walk.rule = "total" THEN walk.page * walk.limit >= walk.total
                         ELSE Cardinality(Page) < walk.limit

Select ==
  /\ walk.pc = "select"
  /\ walk' = [walk EXCEPT !.pc = IF LastPage THEN "done" ELSE "count",
                          !.page = IF LastPage THEN @ ELSE @ + 1,
                          !.shown = @ \cup Page,
                          !.twice = @ \cup (walk.shown \cap Page)]
  /\ UNCHANGED <<columns, seen>>

Walking == walk.pc \in {"count", "select"}

\* Any other call that changes a column a list looks at.
Change ==
  /\ ColumnsNext
  /\ UNCHANGED walk
  /\ seen' = IF ~Walking THEN seen ELSE
       [stayed |-> seen.stayed \cap Listing',
        left |-> seen.left \/ ~(Listing \subseteq Listing'),
        grew |-> seen.grew \/ ~(Listing' \subseteq Listing),
        raced |-> \/ seen.raced
                  \/ walk.pc = "select" /\ ~(Listing' \subseteq Listing)]

PagesNext ==
  \/ \E o \in Owners : StartWalk("owner", o)
  \/ \E r \in Runners : StartWalk("runner", r)
  \/ StartWalk("all", Nobody)
  \/ Count \/ Select \/ Change

PagesSpec == PagesInit /\ [][PagesNext]_pagesVars

\* A client that has begun a walk goes on with it.
FairPagesSpec == PagesSpec /\ WF_pagesVars(Count \/ Select)

-----------------------------------------------------------------------------
PagesTypeOK ==
  /\ owner \in [Ids -> Owners \cup {Nobody}]
  /\ runner \in [Ids -> Runners \cup {Nobody}]
  /\ walk \in Walks
  /\ seen \in Sightings

\* A walk that goes on until a page is not full has shown every booking that
\* was on the list all the time, whatever was created, accepted or declined
\* meanwhile; only a runner's walk during which one of its bookings left the
\* list may miss some (booking_repository.go:83-140, 200-226).
FullWalkShowsAll ==
  walk.pc = "done" /\ walk.rule = "full" /\ (walk.list = "runner" => ~seen.left)
    => seen.stayed \subseteq walk.shown

\* A walk that goes by the total may miss a booking even of a list that only
\* grows, but only if one joined it between the count and the page of the last
\* answer, which are two statements (booking_repository.go:85-97).
TotalWalkMissesByRace ==
  walk.pc = "done" /\ walk.rule = "total" /\ ~(seen.stayed \subseteq walk.shown)
    => seen.raced \/ (walk.list = "runner" /\ seen.left)

\* A walk shows a booking twice only if one joined the list during the walk.
TwiceOnlyIfGrown == walk.twice # {} => seen.grew

\* A client that has asked for n pages has been given n - 1 of at least one
\* booking each, so no walk is longer than the table: not a client that asks
\* for a limit of 0 or less, nor one whose list grows while it is read; this is
\* why WalkEnds (booking_handler.go:253-269).
WalkIsBounded == walk.page - 1 <= Cardinality(Ids)

\* Every walk ends, by either rule: the limit that the service makes of any
\* request is at least one row a page (booking_handler.go:253-269).
WalkEnds == Walking ~> walk.pc = "done"

=============================================================================
