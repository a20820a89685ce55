SPECIFICATION Spec
CONSTANTS
  NaN = NaN
  Unset = Unset
  None = None
  NoTheta = NoTheta
  Thetas = {1, 2}
  MaxWarmup = 4
  MaxKept = 3
INVARIANTS
  TypeOK
  SamplerCoherent
PROPERTIES
  PoisonIsFinal
  ImplementsTwoPhase
