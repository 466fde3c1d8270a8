SPECIFICATION FairSpec
CONSTANTS
  Contents <- ContentsMC
  Unreadable <- UnreadableMC
  RuleDirs <- RuleDirsMC
  IdMissing <- NoIdMC
  NoId <- NoIdMC
  MaxRulesPerDir = 3
  Connections = {c1, c2}
  Requests <- RequestsMC
  StreamRequests <- StreamRequestsMC
  MaxConcurrentRequests = 1
  MaxSamples = 1
  MaxStream = 2
  Callers = {a, b}
  Rules <- RulesMC
  MaxConcurrent = 1
  MaxCalls = 4
  MaxRules = 2
INVARIANTS
  TypeOK
  AllFilesAccounted
  MetricsAccount
  StreamInOrder
  EnabledIsCounted
  IndexLeadsToLast
  ResultIsOneLook
PROPERTIES
  AwaitedErrorEnds
  EveryRequestAnswered
  CallsReturn
CHECK_DEADLOCK FALSE
