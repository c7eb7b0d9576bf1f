SPECIFICATION PricingSpec
CONSTANTS
  Distances = {3, 4000}
  NaN = NaN
  Weights = {5000, 5001}
  OtherTypes = {"hamster"}
  MaxInt64 = 2147483646
  MaxCreated = 1
  MaxRows = 1
INVARIANTS
  BaseFareIsConfigured
