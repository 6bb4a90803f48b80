CONSTANTS
  N = 3
  Concurrency = 2
  MaxFailures = 1
  Progress = TRUE
SPECIFICATION FairSpec
INVARIANT IInv
INVARIANT FailureBound
INVARIANT ReportComplete
INVARIANT ProgressAddsUp
PROPERTY ImplementsRollout
PROPERTY RunTerminates
