SPECIFICATION FairSpec
CONSTANTS
  Selection = {s1, s2}
  s1 = s1
  s2 = s2
  Texts <- MCTexts
  ChannelBuffer = 2
  MaxTokens = 11
  MaxDepth = 2
INVARIANTS
  TypeOK
  MeansTheCondition
  OnlyBadRejected
PROPERTIES
  BothTasksEnd
CHECK_DEADLOCK FALSE
