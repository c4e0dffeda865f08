SPECIFICATION OwnersSpec
CONSTANTS
  Session = {1}
  MaxId = 1
  MaxRetries = 2
  StaleThreshold = 1
  MaxClock = 3
  MaxEvents = 2
  NULL = NULL
  Hook = {h1}
  Drain = {d1, d2}
  Provider = "agent"
  AgentId = {a1}
  ProviderTimeout = 3
  MaxMessages = 1
  MessageType = {"observation", "summarize"}
  MaxPosted = 0
  LocalFallback = TRUE
  MaxFaults = 0
INVARIANTS
  FallbackOnFinalFailure
CHECK_DEADLOCK FALSE
