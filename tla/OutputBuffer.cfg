CONSTANTS
  Byte = {0, 1}
  Pats <- MCPats
  Limit = 5
  MaxWrite = 7
  MaxStream = 10
SPECIFICATION Spec
INVARIANT TypeOK
INVARIANT FoundIsExact
INVARIANT KeepsBothEnds
