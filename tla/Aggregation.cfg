SPECIFICATION Spec
CONSTANTS
  Missing = Missing
  Unknown = "unknown"
  F64Max = 3
  Largest = 3
  Tasks = {t1, t2}
  t1 = t1
  t2 = t2
  Nodes <- MCNodes
  Events <- MCEvents
  TimeWindow = 2
  MaxEvaluations = 3
  MaxEvictions = 1
  Duration = 1
  Values <- MCValues
  Times = {0, 1, 2, 3}
  MaxAdds = 3
INVARIANTS
  NoStateLost
  AloneIsExact
  CacheIsSum
  InOrderIsExact
  QueryIsExact
CHECK_DEADLOCK FALSE
