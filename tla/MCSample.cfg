SPECIFICATION SampleSpec
CONSTANTS
  NumChains = 2
  Dims = 2
  Traces <- MCTraces
  MaxWarmup = 1
  Unit = 4
  Rhos <- MCRhos
CHECK_DEADLOCK FALSE
INVARIANTS
  RoundTrip
  SummariesExact
  LagsWithinChain
  GeyerMonotone
