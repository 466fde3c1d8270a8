SPECIFICATION DeliverySpec
CONSTANTS
  Partitions = {p1}
  p1 = p1
  LogEnd = 3
  NumWorkers = 1
  ChannelBuffer = 1
  BatchSize = 2
  EnableBatching = FALSE
  MaxInflight = 2
  PausePct = 80
  ResumePct = 50
  MaxFailures = 2
  MaxPanics = 0
  MaxCrashes = 0
  UsizeMod = 8
PROPERTIES
  ConsumptionGoesOn
CHECK_DEADLOCK FALSE
