SPECIFICATION Spec
CONSTANTS
  Partitions = {p1}
  p1 = p1
  LogEnd = 3
  NumWorkers = 1
  ChannelBuffer = 1
  BatchSize = 2
  EnableBatching = FALSE
  MaxInflight = 2
  PausePct = 80
  ResumePct = 50
  MaxFailures = 2
  MaxPanics = 1
  MaxCrashes = 1
  UsizeMod = 8
INVARIANTS
  CommittedWasProcessed
  FinalCommitCovers
PROPERTIES
  CommitsInOrder
CHECK_DEADLOCK FALSE
