CONSTANTS
  Caller = {c1, c2}
  Token <- Tokens
  Document <- TwoDocuments
  Allowed = {"RS256", "PS256", "rs512"}
  CheckIssuer = TRUE
  CheckAudience = FALSE
  Ttl = 1
  FetchTimeout = 1
  LastStart = 3
  MaxTime = 6
  MaxRotations = 1
  MaxFaults = 1
  None = None
SPECIFICATION Spec
INVARIANTS SingleFlight WithdrawnKeysAreForgotten MissesAreRecent WaitIsBounded
PROPERTIES CallsReturn
CHECK_DEADLOCK FALSE
