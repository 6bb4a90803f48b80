CONSTANTS
  Inputs <- MCInputs
  IntTop = 16
SPECIFICATION Spec
INVARIANT TypeOK
INVARIANT PreparedExactly
INVARIANT ShownIsClean
