CONSTANTS
  Chains <- PostgresFirst
  connect_timeout = 2
  op_timeout = 1
  probe_timeout = 1
  shutdown_timeout = 1
  check_timeout = 2
  MaxTime = 8
  MaxChanges = 1
  MaxProbes = 1
  None = None
SPECIFICATION Spec
PROPERTIES SamplerNotices
CHECK_DEADLOCK FALSE
