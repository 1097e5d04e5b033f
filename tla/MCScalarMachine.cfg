SPECIFICATION FairSpec
CONSTANTS
  WordBits <- MCWordBits
  Fuel <- MCFuel
  Runs <- MCRuns
  Garbage <- MCGarbage
  OutLimit = 6
INVARIANTS
  ResultIsMeaning
  FirstCallGetsArguments
PROPERTIES
  ControlStaysInFunction
  FragmentReturns
CHECK_DEADLOCK FALSE
