CONSTANTS
  Entries = {1}
  Workers = {w1, w2}
  Null = Null
  Topics <- MCTopics
  Requests <- MCCanonical
  ClaimTopics <- MCClaimTopics
  Limits = {1}
  Lease = 1
  MaxAttempts = 2
  BaseDelay = 1
  MaxDelay = 3
  Skew = 0
  MaxTime = 3
  MaxCrashes = 0
  MaxBackoff = 40
SPECIFICATION Spec
CHECK_DEADLOCK FALSE
INVARIANTS
  ReplayIsNoop
