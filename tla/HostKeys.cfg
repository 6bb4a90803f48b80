CONSTANTS
  Conns = {"c1", "c2", "c3"}
  HostNames = {"web", "db"}
  Keys = {"k1", "k2"}
  Modes = {"strict", "accept-new", "insecure"}
  MaxEdits = 1
SPECIFICATION Spec
INVARIANT TypeOK
INVARIANT OneNewKeyPerHost
 
