CONSTANTS
  Modes = 2
  Prime = 997
  MaxStamp = 2
  Hash <- MCHash
  Column <- MCColumn
  Jobs <- MCJobs

SPECIFICATION FunctionalSpec
INVARIANTS
  TypeOK
  BuildHoldsItsShare
  ReplayHoldsItsShare
  RotatesEachTermOnce
  LayersPairUp
  EnergyIsExact
  GradientIsExact
  TermValuesAreExact
  JobCompletes
CHECK_DEADLOCK FALSE
