SPECIFICATION FairSpec
CONSTANTS
  Service = {s1}
  Agent = {a1}
  Panel = {s1}
  TTL = 3
  Every = 1
  PostLimit = 1
  None = None
  Config <- MCConfig
INVARIANTS ViewFollowsReports HealthyStaysLive
PROPERTIES DeadNotAsked ComesBack
CHECK_DEADLOCK FALSE
