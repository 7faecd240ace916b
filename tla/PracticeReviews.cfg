SPECIFICATION Spec
CONSTANTS
  t1 = t1
  t2 = t2
  d1 = d1
  d2 = d2
  Tabs = {t1, t2}
  Devices = {d1, d2}
  Home <- TwoDevices
  None = None
  c1 = c1
  c2 = c2
  Calls = {c1, c2}
  Answers <- MCAnswers
  MaxChanges = 2
  MaxSent = 4
CHECK_DEADLOCK FALSE
SYMMETRY AnyCall
INVARIANTS
  RowsOfOneGeneration
  ScheduleFollowsLatest
  NoAnswerLost
PROPERTIES
  DailyAnswerIsFinal
