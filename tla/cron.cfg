CONSTANTS
  Exprs <- AllExprs
  Starts <- AllStarts
  MinutesPerHour = 2
  HoursPerDay = 2
SPECIFICATION Spec
INVARIANTS  GivenUpIsFar
CHECK_DEADLOCK FALSE
