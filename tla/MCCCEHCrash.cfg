\* A crash at any store, then Recovery, then more insertions.
SPECIFICATION CrashSpec
CONSTANTS
  k1 = k1
  k2 = k2
  k3 = k3
  k4 = k4
  k5 = k5
  k6 = k6
  INVALID = INVALID
  NONE = NONE
  Uninit = Uninit
  NoOp = NoOp
  Keys = {k1, k2, k3, k4, k5, k6}
  Values = {v1}
  Hash <- MCHash
  HashBits = 7
  SegmentBits = 2
  PairsPerLine = 1
  CacheLines = 2
  InitCap = 2
  InitDepth = 1
  Pow2 <- MCPow2
  MaxCopies = 1
INVARIANTS
  RestartLosesOnlyInDoubling
  EarlyCrashIsHarmless
  RecoveryFailsOnlyInDeepening
PROPERTIES
  RecoveryRepairsNothing
CHECK_DEADLOCK FALSE
