SPECIFICATION Spec
CONSTANTS
  Selection = {s1, s2}
  s1 = s1
  s2 = s2
  Texts <- MCGlued
  ChannelBuffer = 2
  MaxTokens = 11
  MaxDepth = 2
INVARIANTS
  TokensAreTheText
CHECK_DEADLOCK FALSE
