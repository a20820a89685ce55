SPECIFICATION FairSpec
CONSTANTS
  M = 3
  WarmupMin = 1
  WarmupMax = 3
  Stride = 2
  SamplingMin = 1
  SamplingMax = 2
  SpawnMayFail = TRUE
CHECK_DEADLOCK FALSE
INVARIANTS
  NoDanglingAccess
  LeavesWhenEnough
  ReturnsComplete
PROPERTIES
  HandlerOrder
  CallEnds
