CONSTANTS
  Entries = {1, 2}
  Workers = {w1}
  Null = Null
  Topics <- MCTopics
  Requests <- MCMixed
  ClaimTopics <- MCClaimTopics
  Limits = {1}
  Lease = 1
  MaxAttempts = 2
  BaseDelay = 1
  MaxDelay = 3
  Skew = 0
  MaxTime = 1
  MaxCrashes = 0
  MaxBackoff = 40
SPECIFICATION LiveSpec
CHECK_DEADLOCK FALSE
PROPERTIES
  AvailableWorkClaimed
