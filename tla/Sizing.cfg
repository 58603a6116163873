\* Sizes, units and rates at the boundaries, in words of 6 bits
CONSTANTS
  Word = 64
  Align = 4
  KmallocMax = 12
  MaxBufCount = 5
  BaseRate = 50
  Requests <- SomeRequests
  Rates <- SomeRates
  DefaultUnit = 8
  Coordinated = TRUE
SPECIFICATION Spec
INVARIANTS  OkMeansEnough NothingLeaks DivisorKept RateReported
CHECK_DEADLOCK FALSE
