SPECIFICATION FairSpec
CONSTANTS
  Mask <- MCMask
  Lane <- MCLane
  Programs <- MCDeepPrograms
  StackLimit = 6
INVARIANTS
  ConsumerMaskInV0
CHECK_DEADLOCK FALSE
