CONSTANTS
  c1 = c1
  io = io
  Clients = {c1}
  IoThread = io
  MaxTasks = 3
  MaxStops = 1

SPECIFICATION FairSpec

INVARIANTS
  FrameAlive

PROPERTIES
  AnswerIsTrue
  SyncReturns
  StopEnds

CHECK_DEADLOCK FALSE
