CONSTANTS
  Chains <- Pairs
  connect_timeout = 2
  op_timeout = 1
  probe_timeout = 1
  shutdown_timeout = 1
  check_timeout = 2
  MaxTime = 10
  MaxChanges = 1
  MaxProbes = 1
  None = None
SPECIFICATION Spec
INVARIANTS BootIsBounded ProbeIsBounded
PROPERTIES SamplerEnds ImplementsProviderChain
CHECK_DEADLOCK FALSE
