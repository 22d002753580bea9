SPECIFICATION LedCrashFairSpec
CONSTANTS
  Server = {n1, n2, n3}
  Cmd = {x}
  None = None
  first = n1
  StepDownCap = 1
  MaxElections = 1
  MaxInFlight = 4
  MaxLate = 0
  MaxRestarts = 1
PROPERTY FollowersCatchUp
CHECK_DEADLOCK FALSE
