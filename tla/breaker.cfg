CONSTANTS
  Caller = {c1, c2, c3}
  MinVolume = 2
  Window = 2
  OpenDuration = 2
  RatioNum = 1
  RatioDen = 2
  MaxTime = 4
  MaxCalls = 5
  None = None
SPECIFICATION FairSpec
INVARIANTS AtMostOneProbe HalfOpenHasProbe
PROPERTIES ImplementsBreaker HalfOpenResolves
CHECK_DEADLOCK FALSE
