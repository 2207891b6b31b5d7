CONSTANTS
  Providers <- PgNatsOss
  Features = {"postgres", "nats"}
  Configurable = {"postgres", "nats", "redis", "oss"}
  Connections = {c1, c2}
  MaxDrain = 2
  Budget <- Waits
  MaxBudget = 2
  LastCancel = 2
  MaxTime = 8
SPECIFICATION FairSpec
CHECK_DEADLOCK FALSE
INVARIANTS ServingMeansInitialised ReadyMeansRequiredUp ProvidersCloseLast StopsInTime
PROPERTIES ShutdownCompletes ImplementsProviderChain
