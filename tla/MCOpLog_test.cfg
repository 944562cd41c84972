\* The test with a kernel that keeps everything, and may refuse to extend.
SPECIFICATION Spec
CONSTANTS
  a1 = a1
  a2 = a2
  a3 = a3
  d1 = d1
  d2 = d2
  Names <- MCNames
  Addrs = {a1, a2, a3}
  Pods = {d1, d2}
  Failed = Failed
  NoAddr = NoAddr
  NoRecord = NoRecord
  ExtendMayFail = TRUE
  KernelLoses = FALSE
  MaxLog = 5
INVARIANTS
  TypeOK
  MemoryIsKernel
  OpenedAreDescriptors
  LogExplainsObjects
  ReplayFindsObjects
  NoFalseAlarm
  NullVectorOnlyWhenEmpty
PROPERTIES
  LeftoversUntouched
  ReplayEnds
