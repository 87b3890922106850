SPECIFICATION FairSpec
CONSTANTS
  MaxPackets = 2
  MaxTime = 0
  MaxSignals = 2
  MaxSpurious = 0
  DropOutcomes <- MCNever
  DelayOutcomes <- MCNever
  ReorderOutcomes <- MCNever
  Delays <- MCDelays
  Wrap = 2
PROPERTIES EveryDatagramHandled StopReturns
CHECK_DEADLOCK FALSE
