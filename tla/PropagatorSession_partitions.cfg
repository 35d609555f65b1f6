SPECIFICATION Spec
CONSTANTS
  p1 = p1
  p2 = p2
  Parts = {p1, p2}
  FirstPart = p1
  Circuits <- MCShort
  Pared = {FALSE}
  MaxCalls = 4
  MaxFails = 1
INVARIANTS
  PartitionsAgree
CHECK_DEADLOCK FALSE
