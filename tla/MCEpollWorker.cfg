SPECIFICATION FairSpec
CONSTANTS
  c1 = c1
  c2 = c2
  c3 = c3
  Clients <- MCClients
  MaxFds = 4
  Free = Free
INVARIANTS EventsCurrent ConnectionsKept ClosedAfterEcho
PROPERTIES EchoArrives
CHECK_DEADLOCK FALSE
