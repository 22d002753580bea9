SPECIFICATION FairSpec
CONSTANTS
  Caller = {g1, g2, g3}
  ApplyChCap = 2
  MaxIndex = 4
  MaxFailures = 1
INVARIANT TypeOK
INVARIANT AppliedOnce
INVARIANT InOrderUnlessOverlapping
PROPERTY CommittedIsApplied
