CONSTANTS
  Null = Null
  Scenarios = {"pool", "loop", "markers", "boot"}
SPECIFICATION LiveSpec
CHECK_DEADLOCK FALSE
PROPERTIES
  CallsEnd
  StartupEnds
