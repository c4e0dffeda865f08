SPECIFICATION AttendedOwners
CONSTANTS
  Session = {1}
  MaxId = 1
  MaxRetries = 2
  StaleThreshold = 1
  MaxClock = 10
  MaxEvents = 2
  NULL = NULL
  Hook = {h1}
  Drain = {d1}
  Provider = "agent"
  AgentId = {a1}
  ProviderTimeout = 2
  MaxMessages = 1
  MessageType = {"observation", "summarize"}
  MaxPosted = 1
  LocalFallback = TRUE
  MaxFaults = 1
INVARIANTS
  ObserverTypeOK
  ObservationsReachable
  ReportedAfterStored
  StoredOnce
  SummariesOnce
  FallbackCatchesAll
PROPERTIES
  RunningUndisturbed
  UsesQueue
  EventuallySettled
CHECK_DEADLOCK FALSE
