SPECIFICATION FairSpec
CONSTANTS
  Requests = {r1, r2}
  Lives <- MCLives
  Margin <- MCMargin
  MaxLatency = 1
  MaxTokens = 2
  MaxNow = 2
  None = None
INVARIANTS
  TypeOK
  CachedTokenLives
  RefusedNotCached
PROPERTIES
  ImplementsTokenUse
  CallsEnd
