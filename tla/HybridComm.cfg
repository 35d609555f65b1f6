SPECIFICATION FairHybridSpec
CONSTANTS
  R = 2
  S = 2
  VecLen = 3
  Line = 1
  Scripts <- MCJobs
  MaxSyncs = 8
  Breakable <- MCFailures
  MaxThrows = 1
INVARIANTS
  HybridTypeOK
  DeliversInWorldOrder
  RanksAgree
  InputsOutliveReads
  AbortsOnlyOnFailure
PROPERTIES
  EndsOrAborts
  UsesPartitionRounds
CHECK_DEADLOCK FALSE
