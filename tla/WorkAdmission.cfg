CONSTANTS
  Null = Null
  Scenarios = {"execution", "limit", "order", "arrival", "capacity", "replay", "retries",
               "fenced", "turns", "edited", "linked", "listed"}
SPECIFICATION Spec
CHECK_DEADLOCK FALSE
INVARIANTS
  CapacitySound
  ExecutionSound
  IdempotencySound
  DeliveriesSound
  AtlasSound
PROPERTIES
  AdmissionKept
