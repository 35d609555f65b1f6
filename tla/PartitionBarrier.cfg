SPECIFICATION FairSpec
CONSTANTS
  Parts = {p1, p2, p3}
  p1 = p1
  p2 = p2
  p3 = p3
  GenMod = 2
  MaxSyncs = 3
INVARIANTS
  IInv
  NoEarlyReturn
  FailsOnlyDoomedRounds
PROPERTIES
  ImplementsRounds
