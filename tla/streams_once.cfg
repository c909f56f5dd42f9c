SPECIFICATION Spec
CONSTANTS
  Keys = {k1, k2}
  Views = {v1}
  None = None
  DeltaHistory = 1
  Window = 2
  MaxSeen = 3
  MaxSeq = 1
  MaxEvents = 4
  MaxInstances = 1
  MaxBreaks = 1
INVARIANTS HandedOnce
CHECK_DEADLOCK FALSE
