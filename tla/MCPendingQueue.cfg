SPECIFICATION Spec
CONSTANTS
  Session = {s1, s2}
  MaxId = 2
  MaxRetries = 3
  StaleThreshold = 1
  MaxClock = 4
  MaxEvents = 2
  NULL = NULL
INVARIANTS
  TypeOK
  RetriesAccounted
  NothingLost
  ClaimsStayHealable
PROPERTIES
  LiveClaimsKept
  KeepsLedger
CHECK_DEADLOCK FALSE
