SPECIFICATION FitSpec
CONSTANTS
  NA = NA
  K = 2
  MaxInt = 4
  MaxChains = 3
  SeedChoices <- MCSeedChoices
  CoreChoices = {1, 2, 4}
  Results <- MCResults
  Lengths = {3, 4, 5}
CHECK_DEADLOCK FALSE
INVARIANTS
  StreamsDisjoint
  FitFaithful
  RHatFlagsStuck
PROPERTIES
  ImplementsAllOrNothing
  CallEnds
