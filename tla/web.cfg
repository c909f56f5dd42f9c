SPECIFICATION Spec
CONSTANTS
  MaxItems = 2
  MaxChars = 7
  MaxMessage = 5
  MaxOutput = 3
  Wide = {}
  Sessions = {s1, s2}
  MaxTranscripts = 1
  QueueEvents = 2
  Window = 2
  MaxLog = 2
  MaxBridges = 2
  MaxRevs = 4
INVARIANTS Followed FoldedOnce
SYMMETRY Alike
CHECK_DEADLOCK FALSE
