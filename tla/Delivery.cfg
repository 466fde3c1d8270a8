SPECIFICATION Spec
CONSTANTS
  Workers = {w1, w2}
  Published <- PublishedMC
  Policies <- PoliciesMC
  DlqThresholds = {0, 2}
  MaxDlq = 2
  Updaters = {u1, u2}
  Exporters = {e}
  Resetters = {r}
  Partitions = {p}
  Offsets = {3, 5}
  Durations = {1, 2, 3}
  Capacity = 3
  None = None
  MaxPushes = 4
  MaxSteps = 4
INVARIANTS
  RetriesAreBounded
  FailedIsDead
  CountersAgree
  OriginIsKept
  StatsAreRecent
  ExportIsOneLook
  OnlyKnownDeadlock
PROPERTIES
  EveryTakenSettles
CHECK_DEADLOCK FALSE
