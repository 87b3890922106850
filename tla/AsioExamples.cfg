SPECIFICATION FairSpec
CONSTANTS
  a = a
  b = b
  u1 = u1
  u2 = u2
  v1 = v1
  v2 = v2
  r1 = r1
  r2 = r2
  t1 = t1
  t2 = t2
  t3 = t3
  t4 = t4
  AsyncClients <- MCAsync
  BlockingClients <- MCBlocking
  MessageLengths <- MCLengths
  MaxLength = 3
  SocketBuffer = 3
  MaxLines = 2
  MaxResets = 1
  UdpClients <- MCUdpClients
  UdpServer = UdpServer
  MaxRequests = 2
  MaxLosses = 1
  MaxCopies = 1
  Viewers <- MCViewers
  DayLength = 3
  DayBuffer = 2
  MaxFaults = 1
  Receivers <- MCReceivers
  max_message_count = 2
  MaxDoubled = 1
  Main = Main
  Second = Second
  Workers <- MCWorkers
  Idle = Idle
  Timer1 = Timer1
  Timer2 = Timer2
  StrandLimit = 10
  TimerLimit = 5
  Posted = 10
INVARIANTS RepliesMatchRequests NoCountLost
PROPERTY ExamplesComplete
CHECK_DEADLOCK FALSE
