\* Four attempts under one address, one login.
SPECIFICATION Spec
CONSTANTS
  Request = {r1, r2, r3, r4}
  Key = {i1, a}
  Ip = {i1}
  Login = {a}
  NoKey = NoKey
  Limit = 2
  Window = 2
  MaxTime = 2
  RuntimePool = 2
  AuditPool = 1
  MaxFailed = 2
  LockTime = 2
SYMMETRY Symmetric
INVARIANTS
  GuessesLimited
  SomebodyMoves
  IInv
CHECK_DEADLOCK FALSE
