CONSTANTS
  Request = {r1, r2, r3, r4}
  Ip = {a}
  User = {u}
  Tenant = {t}
  Route = {p}
  Capacity = 2
  WindowMs = 3
  Second = 2
  MaxTime = 4
  MaxFaults = 1
  None = None
SPECIFICATION Spec
SYMMETRY Symmetry
INVARIANTS AdmitsWithinRate RetryAfterIsExact
PROPERTIES ImplementsTokenBucket
CHECK_DEADLOCK FALSE
