SPECIFICATION Spec
CONSTANTS
  MaxPackets = 1
  MaxTime = 0
  MaxSignals = 1
  MaxSpurious = 1
  DropOutcomes <- MCNever
  DelayOutcomes <- MCNever
  ReorderOutcomes <- MCNever
  Delays <- MCDelays
  Wrap = 8
INVARIANT NeverTerminated
CHECK_DEADLOCK FALSE
