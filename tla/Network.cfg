SPECIFICATION Spec
CONSTANTS
  MaxPackets = 2
  MaxTime = 1
  MaxSignals = 2
  MaxSpurious = 1
  DropOutcomes <- MCSometimes
  DelayOutcomes <- MCSometimes
  ReorderOutcomes <- MCAlways
  Delays <- MCDelays
  Wrap = 2
INVARIANTS EachPacketOnce QueueNeverStranded
PROPERTIES NeverEarly StoppedIsSilent
CHECK_DEADLOCK FALSE
