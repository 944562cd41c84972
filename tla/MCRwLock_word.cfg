\* The word counts its holders until a WriteLock meets a held lock.
SPECIFICATION Spec
CONSTANTS
  Thread = {t1, t2, t3}
  kWriteStatus = 4
SYMMETRY Symmetry
INVARIANTS
  TypeOK
  ExclusiveUntilContended
