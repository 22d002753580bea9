SPECIFICATION Spec
CONSTANTS
  Key = {k1, k2}
  Value = {v1, v2, v3}
  LongValue = {v3}
  Absent = Absent
  Fragment = Fragment
  Garbled = Garbled
  snapshotInterval = 2
  MaxWrites = 3
  MaxFaults = 1
  MaxCrashes = 2
  Tears = TRUE
INVARIANT TypeOK
INVARIANT AckedDurable
INVARIANT SnapshotRedundant
PROPERTY StoreIsDurableMap
CHECK_DEADLOCK FALSE
