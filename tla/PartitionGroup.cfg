SPECIFICATION FairGroupSpec
CONSTANTS
  Parts = {p1, p2}
  p1 = p1
  p2 = p2
  GenMod = 2
  MaxSyncs = 2
  JobMod = 2
INVARIANTS
  GroupInv
  JobRunsOnce
  ReportsWhatHappened
PROPERTIES
  DrivesBarrier
  RunOnAllReturns
  StopJoins
