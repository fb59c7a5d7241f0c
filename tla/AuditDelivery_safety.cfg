CONSTANTS
  Entries = {1, 2}
  Workers = {w1, w2}
  Null = Null
  Topics <- MCTopics
  Requests <- MCMixed
  ClaimTopics <- MCClaimTopics
  Limits = {1, 2}
  Lease = 1
  MaxAttempts = 2
  BaseDelay = 1
  MaxDelay = 3
  Skew = 1
  MaxTime = 2
  MaxCrashes = 1
  MaxBackoff = 40
SPECIFICATION BoundedSpec
CHECK_DEADLOCK FALSE
INVARIANTS
  ClaimsFenced
  ReportsDurable
  OutcomesHonest
PROPERTIES
  ContractKept
  RowsAdvance
