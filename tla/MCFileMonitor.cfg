CONSTANTS
  cb1 = cb1
  Callbacks <- OneCallback
  MaxChanges = 3
  MaxStarts = 2
  MaxRegistered = 1
  BatchMax = 2
  QueueMax = 3

SPECIFICATION FairSpec

INVARIANTS
  OneInstance
  StoppedIsClean

PROPERTIES
  StopReturns
  ChangeNotified

CHECK_DEADLOCK FALSE
