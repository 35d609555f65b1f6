CONSTANTS
  Modes = 2
  Prime = 997
  MaxStamp = 2
  Hash <- MCHash
  Column <- MCColumn
  Jobs <- CapJobs

SPECIFICATION FunctionalSpec
INVARIANT CapSparesLongTerms
CHECK_DEADLOCK FALSE
