SPECIFICATION Spec
CONSTANTS
  Missing = Missing
  Unknown = "unknown"
  F64Max = 3
  Largest = 3
  Tasks = {t1}
  t1 = t1
  Nodes <- CountNodes
  Events <- AliceEvents
  TimeWindow = 60
  MaxEvaluations = 3
  MaxEvictions = 0
  Duration = 1
  Values = {}
  Times = {}
  MaxAdds = 0
INVARIANTS
  CountIsWindowed
CHECK_DEADLOCK FALSE
