SPECIFICATION SteadySpec
CONSTANTS
  Partitions = {p1}
  p1 = p1
  LogEnd = 4
  NumWorkers = 2
  ChannelBuffer = 2
  BatchSize = 2
  EnableBatching = TRUE
  MaxInflight = 2
  PausePct = 100
  ResumePct = 50
  MaxFailures = 1
  MaxPanics = 2
  MaxCrashes = 0
  UsizeMod = 8
INVARIANTS
  TypeOK
  LossIsBounded
PROPERTIES
  EveryDeliveredSettles
CHECK_DEADLOCK FALSE
