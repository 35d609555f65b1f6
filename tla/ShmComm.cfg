SPECIFICATION FairShmSpec
CONSTANTS
  Parts = {0, 1, 2}
  MaxSyncs = 4
  Matrices <- MCMatrices
  VecLen = 3
  Line = 2
  Scripts <- MCPairs
INVARIANTS
  ShmInv
  DeliversInRankOrder
  NobodyOverwritesAReader
CHECK_DEADLOCK FALSE
PROPERTIES
  JobEnds
