\* The programs of numa_test/ and multiple_pages_test/, one after another.
SPECIFICATION Spec
CONSTANTS
  a1 = a1
  a2 = a2
  a3 = a3
  d1 = d1
  PO_NAME <- MCPO_NAME
  Names <- MCNames
  Addrs = {a1, a2, a3}
  Pods = {d1}
  Chunks = 3
  BlockNum = 2
  MaxObjects = 1
  ThreadNum <- MCThreadNum
  Drawn <- MCDrawn
INVARIANTS
  TypeOK
  ChunkPerThread
  LocalAndBalanced
  SandboxCheck
PROPERTIES
  ProgramEnds
