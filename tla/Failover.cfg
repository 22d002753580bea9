SPECIFICATION LedSpec
CONSTANTS
  Server = {n1, n2, n3}
  Cmd = {x}
  None = None
  first = n1
  StepDownCap = 1
  MaxElections = 2
  MaxInFlight = 1
  MaxLate = 1
SYMMETRY LedSymmetry
INVARIANT AckedSurvivesUnlessUsurped
CHECK_DEADLOCK FALSE
