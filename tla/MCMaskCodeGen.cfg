SPECIFICATION FairSpec
CONSTANTS
  Mask <- MCMask
  Lane <- MCLane
  Programs <- MCPrograms
  StackLimit = 6
INVARIANTS
  TypeOK
  ShallowMaskInV0
  LiveOperandsKept
  RecursionBounded
PROPERTIES
  CompilationEnds
CHECK_DEADLOCK FALSE
