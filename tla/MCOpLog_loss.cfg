\* A kernel that loses a chunk in a crash.
SPECIFICATION Spec
CONSTANTS
  a1 = a1
  a2 = a2
  a3 = a3
  d1 = d1
  d2 = d2
  Names <- MCNames
  Addrs = {a1, a2, a3}
  Pods = {d1, d2}
  Failed = Failed
  NoAddr = NoAddr
  NoRecord = NoRecord
  ExtendMayFail = TRUE
  KernelLoses = TRUE
  MaxLog = 5
INVARIANT LossIsNoticed
