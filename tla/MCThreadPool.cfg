CONSTANTS
  c1 = c1
  c2 = c2
  w1 = w1
  w2 = w2
  k1 = k1
  k2 = k2
  k3 = k3
  NoThread = NoThread
  NoTask = NoTask
  Clients <- MCClients
  Workers <- MCWorkers
  Tasks <- MCTasks
  IdleGarbage = 7
  MaxSpurious = 1

SPECIFICATION FairSpec

INVARIANTS
  NoLostWakeup
  DrainedBeforeExit

PROPERTIES
  ClearsNoThread
  ImplementsExecutor
  QueuedTaskRuns
  DestructorReturns

CHECK_DEADLOCK FALSE
