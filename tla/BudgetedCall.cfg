SPECIFICATION MCSpec
CONSTANTS
  c1 = c1
  c2 = c2
  Ids = {c1, c2}
  Calls = {c1, c2}
  h1 = h1
  Nobody = Nobody
  Ask <- MCAsk
  Amounts = {2}
  Charges = {1}
  AmountCap = 2
  DailyLimit = 3
  RowCap = 2
  ReserveLease = 1
  DispatchLease = 2
  LockWait = 1
  MaxTime = 6
  Days = {0}
  Months = {0}
  DayOf <- MCDayOf
  MonthOf <- MCMonthOf
  ProviderTotals = {}
  Attempts = 2
  LastStart = 1
  LastServe = 4
INVARIANTS
  ProviderNeedsBothMarkers
  MaybePaidIsNeverReleased
  RetryableMeansUnpaid
  ProviderSpendsWithinLimit
PROPERTIES
  BilledIsCharged
  EveryHoldEnds
  PaidIsSettled
