SPECIFICATION Spec
CONSTANTS
  None = None
  Tabs = {"t1"}
  Devices = {"d1"}
  Home <- OneDevice
  Retest = 2
  MaxTime = 3
CHECK_DEADLOCK FALSE
PROPERTIES
  FirstDurableCopy
