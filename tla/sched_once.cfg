CONSTANTS
  w1 = w1
  w2 = w2
  Worker = {w1, w2}
  Once = {o1}
  Cron = {}
  Unknown <- AllKnown
  BadSchedule = {}
  OnceTimes = {1}
  Firings <- EveryOther
  Horizon = 20
  LeaseTtl = 2
  ReapInterval = 1
  Hold = 20
  BatchSize = 1
  Skew <- NoSkew
  SkewMax = 0
  MaxTime = 6
  FaultsUntil = 3
  MaxFaults = 1
  None = None
SPECIFICATION FairSpec
INVARIANTS OverlapOnlyAfterExpiry
PROPERTY EventuallyDone
