\* Two requests at a time.
SPECIFICATION Spec
CONSTANTS
  owner = owner
  manager = manager
  managers = managers
  other = other
  Role <- MCRole
  Perm <- MCPerm
  OwnerOnly <- MCOwnerOnly
  OwnerKeyed = {}
  Manage <- MCManage
  User <- MCUser
  Request = {r1, r2}
  RoleOf <- MCRoleOf
  Granted <- MCGranted
  Denied <- MCDenied
  NoUser = NoUser
  NoRole = NoRole
  MaxTx = 2
SYMMETRY Symmetric
INVARIANTS
  TypeOK
  OneRowPerKey
  OnlyOwnersDelegate
  IInv
PROPERTIES
  NothingOldRemains
  PutReplaces
  GiversHave
\* The transaction numbers run out.
CHECK_DEADLOCK FALSE
