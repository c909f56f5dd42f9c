SPECIFICATION FairSpec
CONSTANTS
  Keys = {k1}
  Views = {v1, v2}
  None = None
  DeltaHistory = 1
  Window = 2
  MaxSeen = 4
  MaxSeq = 2
  MaxEvents = 2
  MaxInstances = 2
  MaxBreaks = 1
INVARIANTS Handed
PROPERTIES Implements CatchesUp
CHECK_DEADLOCK FALSE
