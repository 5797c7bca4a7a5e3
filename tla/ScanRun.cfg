SPECIFICATION Spec
CONSTANTS
  Planned = 3
  Concurrency = 2
  ChannelDepth = 1
  BatchMax = 2
  Retries = 1
  Answers = {"open", "timeout"}
  MaxPanics = 1
  SpawnMayFail = TRUE
  WriterMayFail = TRUE
  SpansEnabled = TRUE
INVARIANTS
  TypeOK
  OneHome
  NotStartedIsUntouched
  EveryIndexIsAccounted
  NoFinishedProbeIsAbandoned
  LabelIsEarned
  RecordBacksTheCounts
PROPERTIES
  LedgerIsKept
