SPECIFICATION Spec
CONSTANTS
  Name = {c1}
  Handler = {h1, h2, h3}
  SessionId = {s1, s2, s3}
  MaxStored = 1
  MaxRequests = 4
  MaxCrashes = 1
  NULL = NULL
INVARIANTS
  CorporaTypeOK
  SessionKnowsCorpus
  SerialRequestsExact
PROPERTIES
  RequestsReturn
CHECK_DEADLOCK FALSE
