SPECIFICATION ShmSpec
CONSTANTS
  Parts = {0, 1}
  MaxSyncs = 4
  Matrices <- MCMatrices
  VecLen = 3
  Line = 2
  Scripts <- MCPairs
INVARIANTS
  BuffersOutliveReads
CHECK_DEADLOCK FALSE
