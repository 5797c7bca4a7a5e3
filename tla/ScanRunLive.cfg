SPECIFICATION Spec
CONSTANTS
  Planned = 2
  Concurrency = 2
  ChannelDepth = 1
  BatchMax = 1
  Retries = 0
  Answers = {"open"}
  MaxPanics = 1
  SpawnMayFail = TRUE
  WriterMayFail = FALSE
  SpansEnabled = FALSE
PROPERTIES
  ForcedStopEnds
  InterruptEndsCollection
  RunEnds
