\* "this func will block": WriteLock returns while the lock is held.
SPECIFICATION Spec
CONSTANTS
  Thread = {t1, t2}
  kWriteStatus = 4
PROPERTIES
  WriteLockBlocks
