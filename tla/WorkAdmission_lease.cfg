CONSTANTS
  Null = Null
  Scenarios = {"execution"}
SPECIFICATION Spec
CHECK_DEADLOCK FALSE
INVARIANTS
  LeaseCoherent
