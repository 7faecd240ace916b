SPECIFICATION MCSpec
CONSTANTS
  t1 = t1
  t2 = t2
  t3 = t3
  c1 = c1
  c2 = c2
  Tabs = {t1, t2}
  Slots = {c1, c2}
  Works = {"a"}
  MaxKeys = 2
  MaxRevs = 5
  MaxRuns = 0
CHECK_DEADLOCK FALSE
SYMMETRY AnySlotOrTab
INVARIANTS
  OnePaidReport
  ShownIsGraded
  NoAnswerReverted
