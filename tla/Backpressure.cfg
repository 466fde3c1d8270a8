SPECIFICATION Spec
CONSTANTS
  Callers = {c1, c2, c3}
  c1 = c1
  c2 = c2
  c3 = c3
  NoLimit = NoLimit
  MemoryLimit = 2
  Permits = 2
  PausePct = 80
  ResumePct = 50
  InitialAvg = 1
  Sizes = {11}
  MaxWaits = 1
  Methods = {"acquire", "try_acquire"}
  LimitCap = 2
  UsizeMod = 4
SYMMETRY Symmetry
INVARIANTS
  TypeOK
  SemaphoreAccounting
  InflightMatchesPermits
