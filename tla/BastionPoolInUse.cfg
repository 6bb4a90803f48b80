CONSTANTS
  h1 = h1
  h2 = h2
  Hosts <- MCTwoHosts
  MaxTries = 1
SPECIFICATION Spec
INVARIANT InUseNeverClosed
