\* The same key may come twice, with another value; three directory entries.
SPECIFICATION FairSpec
CONSTANTS
  k1 = k1
  k2 = k2
  k3 = k3
  k4 = k4
  k5 = k5
  k6 = k6
  k7 = k7
  k8 = k8
  INVALID = INVALID
  NONE = NONE
  Uninit = Uninit
  NoOp = NoOp
  Keys = {k1, k2, k3, k4}
  Values = {v1, v2}
  Hash <- MCInnerHash
  HashBits = 7
  SegmentBits = 2
  PairsPerLine = 1
  CacheLines = 2
  InitCap = 3
  InitDepth = 1
  Pow2 <- MCPow2
  MaxCopies = 2
INVARIANTS
  UtilizationExact
  MapInv
PROPERTIES
  ImplementsMap
  InsertReturns
CHECK_DEADLOCK FALSE
