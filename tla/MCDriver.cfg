SPECIFICATION Spec
CONSTANTS
  Invocations <- MCInvocations
INVARIANTS
  TypeOK
  SuccessIsComplete
  FailureIsReported
  OutputFromCompleteIR
  TemporariesRemoved
PROPERTIES
  RunEnds
CHECK_DEADLOCK FALSE
