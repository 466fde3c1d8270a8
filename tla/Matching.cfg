SPECIFICATION MCSpec
CONSTANTS
  Entries <- MCEntries
  Events <- MCEvents
  Thread = {t1, t2}
  Text = {a, b, c}
  Capacities = {1, 2}
  EvictedShare = 2
  MaxMade = 3
  MaxPanics = 1
  MaxPoison = 3
INVARIANTS
  MeansItsEntry
  EscapesAgree
  OneArcWhileKept
  CapacityHolds
CHECK_DEADLOCK FALSE
