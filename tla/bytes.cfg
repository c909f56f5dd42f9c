SPECIFICATION Spec
CONSTANTS
  MaxFrameBytes = 2
  MaxFed = 5
  MaxFrames = 2
  WindowFrames = 2
  SilenceFrames = 4
  Pads = {2, 3}
  StartWindow = 3
  StartTrigger = 2
  EndWindow = 3
  EndTrigger = 2
  MaxAudio = 9
  References <- MCReferences
  Secrets <- MCSecrets
  Letters = {"a", "b"}
  MaxPendingBytes = 2
  Confirm = 1
  SequenceTimeout = 1
  ExitDrain = 1
  Loads <- MCLoads
INVARIANTS FramesKept SpeechScored Relayed
PROPERTIES WrapperEnds
CHECK_DEADLOCK FALSE
