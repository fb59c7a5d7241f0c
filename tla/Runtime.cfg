CONSTANTS
  Null = Null
  Scenarios = {"pool", "reuse", "body", "loop", "narrow", "markers", "restart", "threads",
               "exclusion", "uploads", "purges", "siblings", "review"}
SPECIFICATION Spec
CHECK_DEADLOCK FALSE
INVARIANTS
  DatabaseSound
  
  
  ExclusionSound
  BytesSound
  PurgeSound
PROPERTIES
  RuntimeKept
