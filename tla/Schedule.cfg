SPECIFICATION Spec
CONSTANTS
  Null = Null
  Scenarios = {"cadence", "attempts", "episodes", "legacy", "effect", "waits", "approval",
               "work", "upkeep", "skills", "guided", "notes", "swept"}
INVARIANTS
  ScheduleSound
  AssignmentSound
  GuidanceSound
 
CHECK_DEADLOCK FALSE
