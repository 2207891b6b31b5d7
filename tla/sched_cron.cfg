CONSTANTS
  w1 = w1
  w2 = w2
  Worker = {w1, w2}
  Once = {}
  Cron = {k1}
  Unknown <- SecondLacks
  BadSchedule = {}
  OnceTimes = {1}
  Firings <- ThenMuchLater
  Horizon = 4
  LeaseTtl = 2
  ReapInterval = 1
  Hold = 20
  BatchSize = 1
  Skew <- AheadSkew
  SkewMax = 1
  MaxTime = 5
  FaultsUntil = 5
  MaxFaults = 1
  None = None
SPECIFICATION Spec
INVARIANT NoJobLost
PROPERTY ImplementsJobQueue
