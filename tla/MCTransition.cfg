SPECIFICATION TransitionSpec
CONSTANTS
  NaN = NaN
  P = 5
  MaxError = 1
  MaxHalvings = 3
  MinMicro = 1
  Micro <- MCMicro
  State <- Phase
  Flip <- Flipped
  System <- MCSystem
  Flow <- MCFlow
  Energy <- MCEnergy
  Last = 7
  Turns = 2
  Heavy = {3}
  MaxDepth = 3
  NoSpan = NoSpan
  Line <- MCLine
  Linkings <- MostLinking
  Turnings <- FewTurning
  Weightings <- MCWeighting
CHECK_DEADLOCK FALSE
INVARIANTS
  AcceptedIsEdge
  RefusedIsNoEdge
  OrbitShared
  DetailedBalance
