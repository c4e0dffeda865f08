SPECIFICATION UnattendedSpec
CONSTANTS
  Session = {1}
  MaxId = 1
  MaxRetries = 2
  StaleThreshold = 0
  MaxClock = 1
  MaxEvents = 2
  NULL = NULL
  Hook = {h1}
  Drain = {d1}
  Provider = "agent"
  AgentId = {}
  ProviderTimeout = 0
  MaxMessages = 2
  MessageType = {"observation"}
  MaxPosted = 0
  LocalFallback = TRUE
  MaxFaults = 1
PROPERTIES
  NoStrandedWork
CHECK_DEADLOCK FALSE
