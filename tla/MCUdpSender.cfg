CONSTANTS
  c1 = c1
  c2 = c2
  t1 = t1
  t2 = t2
  Callers = {c1}
  IoThreads = {t1, t2}
  MaxRequests = 3

SPECIFICATION FairSpec

INVARIANTS
  OneOperation
  EndsOnce

PROPERTIES
  RequestEnds

CHECK_DEADLOCK FALSE
