CONSTANTS
  Jobs <- MCJobs
  ConnectRetries = 1
  MaxEvents = 2
SPECIFICATION FairSpec
INVARIANT TypeOK
INVARIANT HostVerdict
INVARIANT SuccessMeansRan
INVARIANT NeverRunsTwice
INVARIANT NothingRunsAfterAStop
INVARIANT AfterRebootOnNewBoot
INVARIANT NoConnectionLeak
INVARIANT AuthFailureIsFinal
PROPERTY HostEnds
