\* Two requests; some behaviours let them overlap and some do not.
\* Without an active user left nobody can send a request.
CHECK_DEADLOCK FALSE
SPECIFICATION Spec
CONSTANTS
  NoUser = NoUser
  User = {u1, u2, u3}
  Request = {r1, r2}
SYMMETRY Symmetric
INVARIANTS
  SequentiallyOwnerRemains
  IInv
PROPERTIES
  AppointedByOwner
  TerminatedIsFinal
