SPECIFICATION Spec
CONSTANTS
  p1 = p1
  p2 = p2
  Parts = {p1, p2}
  FirstPart = p1
  Circuits <- MCCircuits
  Pared = {TRUE, FALSE}
  MaxCalls = 4
  MaxFails = 1
INVARIANTS
  SessionInv
  ReplaysTheCircuit
  AxisMatchesSingleCircuit
  SeedsAtUsersPoint
  TermValuesSeeCompletedCalls
  ReweightInvalidates
CHECK_DEADLOCK FALSE
