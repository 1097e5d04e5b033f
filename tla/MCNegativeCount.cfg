SPECIFICATION FairSpec
CONSTANTS
  Addr <- NegativeAddr
  Modulus = 32
  Narrow = 8
  VLMax = 3
  XMod = 8
  Inputs <- NegativeInputs
INVARIANTS
  TailUnchanged
CHECK_DEADLOCK FALSE
