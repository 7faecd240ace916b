SPECIFICATION SpecOfTurns
CONSTANTS
  Tabs = {b1, b2}
  None = None
  Slots = {"one"}
  Guest = FALSE
  MaxSessions = 1
  MaxKeys = 2
  MaxDevices = 1
  MaxRevision = 1
  Kept = 5
  b1 = b1
  b2 = b2
  f1 = f1
  f2 = f2
  Turns = {t1, t2}
  Subjects <- MCSubjects
  Requests <- OneDevice
  Limit = 1
  Window = 1
  Lease = 1
  HoldLease = 1
  DispatchLease = 1
  Price = 2
  Costs = {3}
  CostCap = 3
  Buckets <- MCBuckets
  BucketsOf <- MCBucketsOf
  LimitOf <- MCLimitOf
  LockWait = 0
  MaxTime = 1
  LastServe = 1
SYMMETRY AnyTurn
INVARIANTS
  RefusedTurnCanBeRetried
CHECK_DEADLOCK FALSE
