SPECIFICATION FairSpec
CONSTANTS
  M = 2
  WarmupMin = 1
  WarmupMax = 3
  Stride = 2
  SamplingMin = 1
  SamplingMax = 2
  SpawnMayFail = TRUE
CHECK_DEADLOCK FALSE
PROPERTY StopIsObeyed
