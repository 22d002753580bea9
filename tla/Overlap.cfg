SPECIFICATION SchedulesSpec
CONSTANTS
  Server = {n1, n2, n3}
  Cmd = {x, y}
  None = None
  first = n1
  StepDownCap = 1
  MaxElections = 2
  MaxInFlight = 2
  MaxLate = 1
SYMMETRY LedSymmetry
INVARIANT TypeOK
INVARIANT ElectionSafety
INVARIANT AckedOnMajority
 
INVARIANT ScansArePositions
 
PROPERTY TermsAndVotesStable
PROPERTY LeaderAppendOnly
 
CHECK_DEADLOCK FALSE
