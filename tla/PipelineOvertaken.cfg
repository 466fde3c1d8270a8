SPECIFICATION Spec
CONSTANTS
  Partitions = {p1}
  p1 = p1
  LogEnd = 2
  NumWorkers = 2
  ChannelBuffer = 2
  BatchSize = 2
  EnableBatching = FALSE
  MaxInflight = 2
  PausePct = 80
  ResumePct = 50
  MaxFailures = 2
  MaxPanics = 0
  MaxCrashes = 0
  UsizeMod = 8
INVARIANTS
  NothingSkipped
CHECK_DEADLOCK FALSE
