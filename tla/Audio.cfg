SPECIFICATION FairSpec
CONSTANTS
  ChannelCounts <- MCChannels
  FramesPerBuffer = 2
  MaxBuffers = 5
  MaxSpurious = 1
  PlayFrames = 3
  TotalFrames <- MCTotalFrames
  PaexFrames = 2
INVARIANTS BuffersInOrder RecordedIsPlayed ArrayOutlivesCallbacks
PROPERTY RecordingEnds
CHECK_DEADLOCK FALSE
