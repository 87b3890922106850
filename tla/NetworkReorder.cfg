SPECIFICATION FairSpec
CONSTANTS
  MaxPackets = 2
  MaxTime = 0
  MaxSignals = 0
  MaxSpurious = 0
  DropOutcomes <- MCNever
  DelayOutcomes <- MCNever
  ReorderOutcomes <- MCSometimes
  Delays <- MCDelays
  Wrap = 8
PROPERTY ReorderedIsOvertaken
CHECK_DEADLOCK FALSE
