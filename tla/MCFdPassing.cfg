SPECIFICATION FairPassingSpec
CONSTANTS
  c1 = c1
  c2 = c2
  Clients <- MCClients
  Nobody = Nobody
  MaxCrashes = 1
INVARIANTS HandoverKeepsOpen NothingLeft
PROPERTIES ClientReturns
CHECK_DEADLOCK FALSE
