SPECIFICATION FairSpec
CONSTANTS
  MaxPackets = 1
  MaxTime = 2
  MaxSignals = 0
  MaxSpurious = 0
  DropOutcomes <- MCNever
  DelayOutcomes <- MCSometimes
  ReorderOutcomes <- MCNever
  Delays <- MCDelays
  Wrap = 8
PROPERTY DelayedIsSent
CHECK_DEADLOCK FALSE
