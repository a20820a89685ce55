SPECIFICATION Spec
CONSTANTS
  NumChains = 2
  Dims = 1
  StepArgs <- MCSteps
  StepListArgs <- MCStepLists
  VectorArgs <- MCVectors
  VectorListArgs <- MCVectorLists
  Normals <- MCNormals
  Scales <- MCScales
  Gradients <- MCGradients
  Smoothings <- MCSmoothings
  Curves <- MCCurves
  WarmupArgs <- MCWarmupArgs
  SamplingArgs <- MCSamplingArgs
  IterArgs <- MCIterArgs
  MaxCalls = 3
  Draws <- MCDraws
  Alphas <- MCAlphas
  MaxStatistics = 2
  MaxIter = 3
  StartCalls = 2
CHECK_DEADLOCK FALSE
INVARIANTS
  TypeOK
  BuiltWhole
  MeanIsDocumented
  MassUsable
  StepFollowsAcceptance
  AcceptedConfigsRun
