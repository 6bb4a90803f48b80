CONSTANTS
  ConnectRetries = 9
  Bases <- MCBases
  MaxDelays <- MCMaxDelays
  Top = 32
SPECIFICATION FairSpec
INVARIANT TypeOK
INVARIANT OnlyTransientRetried
INVARIANT NothingLeftBehind
PROPERTY ConnectEnds
