CONSTANTS
  KeepAlive = FALSE
  Misses = 3
SPECIFICATION FairSpec
PROPERTY CancelUnblocks
