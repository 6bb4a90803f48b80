CONSTANTS
  KeepAlive = TRUE
  Misses = 3
SPECIFICATION FairSpec
INVARIANT TypeOK
INVARIANT ReportsTheTruth
INVARIANT NoGoroutineLeft
PROPERTY ExecReturns
