SPECIFICATION Spec
CONSTANTS
  writer = writer
  reader = reader
  v1 = v1
  v2 = v2
  v3 = v3
  Procs <- MCProcs
  Readers <- MCReaders
  Writer = writer
  Sizes <- MCSizes
  Values <- MCValues
  MaxSegs = 2
  MaxWrites = 4
  NULL = NULL
  Failed = Failed
  Zero = Zero
  Byte = 2
INVARIANTS AddressGood RingHoldsNewest SearchFindsSettled
CONSTRAINT OneRing
SYMMETRY MCSymmetry
