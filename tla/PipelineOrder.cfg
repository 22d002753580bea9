SPECIFICATION Spec
CONSTANTS
  Caller = {g1, g2}
  ApplyChCap = 2
  MaxIndex = 2
  MaxFailures = 0
INVARIANT CaughtUpIsCurrent
