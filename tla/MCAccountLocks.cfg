\* Wrong passwords for one account, fewer than the limiter refuses.
SPECIFICATION Spec
CONSTANTS
  Request = {r1, r2, r3}
  Key = {i1, a}
  Ip = {i1}
  Login = {a}
  NoKey = NoKey
  Limit = 3
  Window = 2
  MaxTime = 1
  RuntimePool = 2
  AuditPool = 1
  MaxFailed = 2
  LockTime = 2
SYMMETRY Symmetric
INVARIANTS
  AccountLocks
CHECK_DEADLOCK FALSE
