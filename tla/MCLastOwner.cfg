\* Two requests at a time, and the last owner.
SPECIFICATION Spec
CONSTANTS
  NoUser = NoUser
  User = {u1, u2}
  Request = {r1, r2}
SYMMETRY Symmetric
INVARIANTS
  OwnerRemains
