SPECIFICATION ConfigSpec
CONSTANTS
  Inputs <- MCDocumented
  StoiLimit <- MCStoiLimit
  Characters <- MCCharacters
INVARIANT FileTakesEffect
CHECK_DEADLOCK FALSE
