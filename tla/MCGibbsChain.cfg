SPECIFICATION FairSpec
CONSTANTS
  NaN = NaN
  Unset = Unset
  None = None
  NoTheta = NoTheta
  N = 3
  K = 2
  HasCovariates = TRUE
  Values <- MCValues
  Trees <- MCTrees
  BurninChoices = {0, 2}
  SamplingChoices = {2}
  WarmupChoices = {0, 2}
CHECK_DEADLOCK FALSE
INVARIANTS
  ColumnsAgree
  LeavesOccupied
  RatioFresh
  RowsCoherent
  LifecycleLegal
  AdaptedBeforeFrozen
PROPERTIES
  ChainDelivers
  RejectedNotCollapsed
  ImplementsTwoPhase
