SPECIFICATION FairSpec
CONSTANTS
  c1 = c1
  c2 = c2
  t1 = t1
  t2 = t2
  t3 = t3
  Clients <- MCOneClient
  Tasks <- MCTwoTasks
  Requested = 4
  HardwareConcurrency = 2
  MaxSpurious = 1
  NoThread = NoThread
  NoTask = NoTask
PROPERTY NoWorkerBlockedByStop
CHECK_DEADLOCK FALSE
