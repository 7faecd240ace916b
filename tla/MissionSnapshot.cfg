SPECIFICATION FairSpec
CONSTANTS
  None = None
  Devices = {"d1", "d2"}
  MaxEvidence = 2
CHECK_DEADLOCK FALSE
PROPERTIES
  PlanSettles
