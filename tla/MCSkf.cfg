SPECIFICATION Spec
CONSTANTS
  l1 = l1
  l2 = l2
  l3 = l3
  d1 = d1
  d2 = d2
  a1 = a1
  c1 = c1
  Libs <- MCLibs
  Complete <- MCComplete
  Devs <- MCDevs
  Apps <- MCApps
  Containers <- MCContainers
  NoLib = NoLib
  Null = Null
  Closed = Closed
  Abandoned = Abandoned
  MaxAbandoned = 1
SYMMETRY MCSymmetry
INVARIANTS KeyValid NothingLeaks CacheMapped EnumerationTrue
PROPERTIES ImplementsEngine
