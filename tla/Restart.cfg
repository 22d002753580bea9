SPECIFICATION LedCrashSpec
CONSTANTS
  Server = {n1, n2}
  Cmd = {x, y}
  None = None
  first = n1
  StepDownCap = 1
  MaxElections = 1
  MaxInFlight = 3
  MaxLate = 1
  MaxRestarts = 1
SYMMETRY LedSymmetry
INVARIANT LogsContiguous
INVARIANT NextIndexPositive
PROPERTY TermEntriesKept
CHECK_DEADLOCK FALSE
