SPECIFICATION MCSpec
CONSTANTS
  None = None
  Handlers = {l1, l2, l3}
  Keys = {"k1", "k2"}
  Prints = {"p1"}
  Fallback = TRUE
  Codes = {"c1", "c2"}
  Lease = 2
  Duration = 1
  Day = 3
  Limit = 1
  MaxTime = 3
  Sources = {"s1", "s2"}
  MaxTries = 2
  MaxRevisions = 1
  Workers = {"w1"}
  Versions = {"v1"}
  MaxAttempts = 2
  MaxSyncs = 2
  MaxRetries = 1
  MaxCalls = 2
  Tabs = {t1, t2}
  Devices = {t1, t2}
  Questions = {q1}
  Elsewhere <- MCElsewhere
  MaxVersion = 1
  MaxSeen = 5
  MaxJobs = 1
  Plan <- MCPlan
  MaxStarts = 2
  MaxGone = 0
  MaxWrites = 1
  Home <- MCHome
  Retest = 2
  MaxEvidence = 2
  Drafts = {"blank", "a", "b"}
  Blank = "blank"
  MaxRequests = 3
  MaxGen = 3
  t1 = t1
  t2 = t2
  t3 = t3
  q1 = q1
  q2 = q2
  h1 = h1
  h2 = h2
  l1 = l1
  l2 = l2
  l3 = l3
CHECK_DEADLOCK FALSE
SYMMETRY AnyTabOrHandler
INVARIANTS
  FailedIsRepaired
  OneExecution
  ShownIsRecorded
  OnePaidAnswer
  KeepsWhatItSaid
  ShownIsOfDraft
  PaidTwiceIsAgreed
  CardPaidOnce
  SavedStays
PROPERTIES
  SprintOnlyAdvances
  CloudKeeps

