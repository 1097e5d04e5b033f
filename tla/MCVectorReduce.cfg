SPECIFICATION Spec
CONSTANTS
  Inputs <- MCInputs
  VLMax = 3
  XMod = 64
INVARIANTS
  TypeOK
  ResultIsReduction
  CarriedSum
PROPERTIES
  ReductionEnds
CHECK_DEADLOCK FALSE
