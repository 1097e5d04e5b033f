SPECIFICATION FairSpec
CONSTANTS
  Addr <- MCAddr
  Modulus = 32
  Narrow = 8
  Inputs <- MCInputs
INVARIANTS
  TypeOK
  PrefixDone
  AccessesOnlyLaneCells
PROPERTIES
  ImplementsStatement
  LoopTerminates
CHECK_DEADLOCK FALSE
