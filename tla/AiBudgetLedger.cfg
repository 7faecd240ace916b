SPECIFICATION Spec
CONSTANTS
  Ids = {r1, r2, r3}
  Amounts = {1, 2}
  Charges = {3}
  AmountCap = 3
  DailyLimit = 3
  RowCap = 2
  ReserveLease = 1
  DispatchLease = 2
  LockWait = 1
  MaxTime = 3
  MCTicksPerDay = 2
  Days <- MCDays
  Months <- MCMonths
  DayOf <- MCDayOf
  MonthOf <- MCMonthOf
  ProviderTotals = {4}
  SomeRows <- MCRows
  SomeAggregates <- MCAggregates
CHECK_DEADLOCK FALSE
SYMMETRY MCSymmetry
INVARIANTS
  ReservedMatchesRunningRows
  ChargesMatchFinalizedRows
  CommittedWithinDailyLimit
  LoopIsOneSweep
