SPECIFICATION Spec
CONSTANTS
  Keys = {k1}
  Views = {v1, v2}
  None = None
  DeltaHistory = 1
  Window = 2
  MaxSeen = 4
  MaxSeq = 2
  MaxEvents = 0
  MaxInstances = 1
  MaxBreaks = 1
CHECK_DEADLOCK FALSE
INVARIANTS ReadyInSync
