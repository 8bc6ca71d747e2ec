---------------------------- MODULE MCRoleAdmin ----------------------------
\* Instances of RoleAdmin for TLC: an owner, and an administrator whose
\* custom role lets him manage roles.
EXTENDS RoleAdmin, TLC

CONSTANTS owner, manager, managers, other

MCUser == {owner, manager}
MCRole == {managers, other}
MCPerm == {"roles.permissions.manage", "roles.create", "planning.edit"}
MCOwnerOnly == {"roles.permissions.manage"}
MCManage == "roles.permissions.manage"
MCRoleOf == (owner :> Owner) @@ (manager :> managers)
MCGranted == (owner :> {}) @@ (manager :> {})
MCDenied == (owner :> {}) @@ (manager :> {"planning.edit"})

\* Requests are interchangeable.
Symmetric == Permutations(Request)
=============================================================================
