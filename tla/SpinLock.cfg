SPECIFICATION FairSpec
CONSTANTS
  n1 = n1
  n2 = n2
  n3 = n3
  Threads <- MCThreads
  Rounds = 2
  LineLength = 3
  HasTest = TRUE
INVARIANTS MutualExclusion NoLostIncrement
PROPERTY AllFinish
CHECK_DEADLOCK FALSE
