\* Every program of bandwidth/ and microbenchmarks/, one after another.
SPECIFICATION Spec
CONSTANTS
  a1 = a1
  a2 = a2
  a3 = a3
  a4 = a4
  d1 = d1
  PO_NAME <- MCPO_NAME
  Names <- MCNames
  Addrs = {a1, a2, a3, a4}
  Pods = {d1}
  Chunks = 4
  BlockNum = 2
  MaxObjects = 1
  ThreadNum <- MCThreadNum
  LatBlocks = 5
  NR_THREAD = 3
  ponames <- MCponames
INVARIANTS
  TypeOK
  ObjectIsAddrs
  NoBlockShared
  RestoresKernel
PROPERTIES
  RoundMovesAll
  ProgramEnds
