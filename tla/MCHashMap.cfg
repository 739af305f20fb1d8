CONSTANTS
  k1 = k1
  k2 = k2
  k3 = k3
  k4 = k4
  v1 = v1
  v2 = v2
  Garbage = Garbage
  Keys = {k1, k2, k3, k4}
  Values = {v1, v2}
  m_bucketCount = 7
  hash <- HashValues

SPECIFICATION Spec

INVARIANTS
  ChainsAscend
  GetIsSound

PROPERTIES
  NewKeyFound
