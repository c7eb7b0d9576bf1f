SPECIFICATION FairPagesSpec
CONSTANTS
  Ids = {1, 2, 3}
  Owners = {o1, o2}
  Runners = {r1}
  Nobody = Nobody
  DefaultLimit = 1
  MaxLimit = 2
  AskedLimits = {0, 2, 3}
INVARIANTS
  FullWalkShowsAll
  TotalWalkMissesByRace
  TwiceOnlyIfGrown
  WalkIsBounded
PROPERTIES
  WalkEnds
