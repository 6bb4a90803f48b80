CONSTANTS
  Jobs <- MCUploadJobs
  ConnectRetries = 0
  MaxEvents = 1
SPECIFICATION Spec
INVARIANT UploadedSuccessMeansRan
