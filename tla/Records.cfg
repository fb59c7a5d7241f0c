SPECIFICATION Spec
CONSTANTS
  Null = Null
  Scenarios = {"reply", "saves", "journal", "claims", "rivals", "twins", "single",
               "chain", "members", "enrolled", "keys", "sessions", "minted", "grants",
               "effects", "racers", "bindings", "instances", "reports", "commands", "identity"}
INVARIANTS
  ConversationSound
  StoreSound
  
  ChainSound
  
  
 
CHECK_DEADLOCK FALSE
