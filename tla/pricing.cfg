SPECIFICATION PricingSpec
CONSTANTS
  Distances = {3, 4, 1999, 20015000}
  NaN = NaN
  Weights = {0, 5000, 5001, 15000, 15001, 30000, 30001}
  OtherTypes = {"hamster"}
  MaxInt64 = 2147483646
  MaxCreated = 2
  MaxRows = 4
INVARIANTS
  PriceIsFare
  FartherCostsMore
  NeverBelowBase
  RebooksCostTheSame
