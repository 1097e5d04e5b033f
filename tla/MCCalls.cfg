SPECIFICATION FairSpec
CONSTANTS
  WordBits <- MCWordBits
  Fuel <- MCFuel
  Runs <- CallsRuns
  Garbage <- MCGarbage
  OutLimit = 6
PROPERTIES
  CallsReturn
CHECK_DEADLOCK FALSE
