SPECIFICATION OrbitSpec
CONSTANTS
  Last = 5
  Turns = 1
  Heavy = {}
  MaxDepth = 2
  NoSpan = NoSpan
  Line <- MCLine
  Linkings <- MostLinking
  Turnings <- FewTurning
  Weightings <- MCWeighting
CHECK_DEADLOCK FALSE
INVARIANT DepthWithinMax
