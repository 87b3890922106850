SPECIFICATION FairSpec
CONSTANTS
  c1 = c1
  c2 = c2
  t1 = t1
  t2 = t2
  t3 = t3
  Clients <- MCClients
  Tasks <- MCTasks
  Requested = 4
  HardwareConcurrency = 3
  MaxSpurious = 1
  NoThread = NoThread
  NoTask = NoTask
INVARIANTS TypeOK EachTaskOnce NoSleeperMissed NothingLeftBehind DestroyedSettlesFutures
PROPERTIES ShutdownCompletes ImplementsFairExecutor
CHECK_DEADLOCK FALSE
