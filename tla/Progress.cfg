CONSTANTS
  Null = Null
  Scenarios = {"delivery", "admission", "storage", "push"}
SPECIFICATION LiveSpec
CHECK_DEADLOCK FALSE
PROPERTIES
  EntriesMove
  WorkMoves
  StorageMoves
  DeliveriesMove
