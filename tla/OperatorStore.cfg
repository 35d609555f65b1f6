SPECIFICATION Spec
CONSTANTS
  Modes = 2
  MinSlots = 4
  InlineWidth = 2
  IndexCeiling = 9
  WordBits = 2
  PromoteDensityInv = 2
  BlockWords = 4
  Drift = 100
  MaxDrift = 2
  Setups <- MCSetups
  Dicts <- MCDicts
  Hash32 <- MCHash32
  Spread <- MCSpread
  Batches <- MCBatches
  Generators <- MCGenerators
INVARIANTS
  StoreTypeOK
  FindsEveryRow
  FoldsAnticommute
PROPERTY
  ImplementsTermStore
CHECK_DEADLOCK FALSE
