SPECIFICATION Spec
CONSTANTS
  Addr <- MCAddr
  Modulus = 16
  Programs <- MCPrograms
  VLMax = 3
  XMod = 64
INVARIANTS
  TypeOK
  AccumulatorIsPartialDot
  ProductPrefix
  CalleeSavedRestored
PROPERTIES
  ImplementsProduct
  MultiplyTerminates
CHECK_DEADLOCK FALSE
