CONSTANTS
  h1 = h1
  h2 = h2
  Hosts <- MCTwoHosts
  MaxTries = 2
SPECIFICATION FairSpec
INVARIANT TypeOK
INVARIANT SingleDial
INVARIANT PoolIsSound
PROPERTY EveryHostLeaves
