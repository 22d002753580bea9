SPECIFICATION LedSpec
CONSTANTS
  Server = {n1, n2, n3}
  Cmd = {x, y}
  None = None
  first = n1
  StepDownCap = 1
  MaxElections = 2
  MaxInFlight = 1
  MaxLate = 0
SYMMETRY LedSymmetry
INVARIANT AckedSurvives
CHECK_DEADLOCK FALSE
