SPECIFICATION FairSpec
CONSTANTS
  Mask <- MCMask
  Lane <- MCLane
  Programs <- MCPrograms
  StackLimit = 6
INVARIANTS
  DefinedBeforeUse
CHECK_DEADLOCK FALSE
