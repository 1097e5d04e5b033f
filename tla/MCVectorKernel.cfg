SPECIFICATION FairSpec
CONSTANTS
  Addr <- MCAddr
  Modulus = 32
  Narrow = 8
  VLMax = 3
  XMod = 64
  Inputs <- MCInputs
INVARIANTS
  TypeOK
  StripWithinLength
  PrefixDone
  StripReadsInitialMemory
PROPERTIES
  ImplementsStatement
  LoopTerminates
CHECK_DEADLOCK FALSE
