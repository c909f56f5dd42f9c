SPECIFICATION Spec
CONSTANTS
  MaxItems = 2
  MaxChars = 7
  MaxMessage = 5
  MaxOutput = 3
  Wide = {1, 2, 3, 4}
  Sessions = {s1}
  MaxTranscripts = 1
  QueueEvents = 2
  Window = 2
  MaxLog = 2
  MaxBridges = 2
  MaxRevs = 4
INVARIANTS Mirror
CHECK_DEADLOCK FALSE
