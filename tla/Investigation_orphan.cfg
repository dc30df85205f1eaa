CONSTANTS
  Case = {c1}
  MaxConcurrent = 1
SPECIFICATION Spec
INVARIANT NoOrphanHistory
CHECK_DEADLOCK FALSE
