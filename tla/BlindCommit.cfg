SPECIFICATION StalledSpec
CONSTANTS
  Server = {n1, n2, n3}
  Cmd = {x, y}
  None = None
  first = n1
  StepDownCap = 0
  MaxElections = 3
  MaxInFlight = 1
  MaxLate = 0
SYMMETRY LedSymmetry
INVARIANT CommittedAgree
CHECK_DEADLOCK FALSE
