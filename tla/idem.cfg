CONSTANTS
  Request = {r1, r2, r3}
  Tenant <- OneTenant
  ClientKey <- OneKey
  Operation = {x, y}
  Ttl = 1
  MaxTime = 2
  MaxFaults = 1
  None = None
SPECIFICATION Spec
SYMMETRY Symmetry
INVARIANTS AnswersAreHonest TenantsApart NoReExecution
CHECK_DEADLOCK FALSE
