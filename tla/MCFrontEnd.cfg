SPECIFICATION Spec
CONSTANT Nul <- MCNul
CONSTANT Sources <- MCSources
INVARIANT TokensTileSource
INVARIANT ParsedAsWritten
INVARIANT FailureIsDiagnosed
PROPERTY FrontEndEnds
CHECK_DEADLOCK FALSE
