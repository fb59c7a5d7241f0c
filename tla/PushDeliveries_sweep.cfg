SPECIFICATION Spec
CONSTANTS
  Null = Null
  Scenarios = {"agreed"}
INVARIANT SweepAccepted
CHECK_DEADLOCK FALSE
