----------------------------- MODULE RoleAdmin ------------------------------
(***************************************************************************)
(* Roles of one company and their permissions: create_role and             *)
(* set_permissions of role_service on the tables roles and                 *)
(* role_permissions.                                                       *)
(*                                                                         *)
(* set_role_permissions deletes the rows of the role and inserts the rows  *)
(* asked for.  Under READ COMMITTED the DELETE works on the rows its       *)
(* snapshot shows, waits for those another transaction is deleting, and    *)
(* skips them when that transaction commits; rows inserted meanwhile are   *)
(* not in its snapshot.  The INSERT waits for a key another transaction is *)
(* inserting or deleting and fails on one that is committed (the primary   *)
(* key).                                                                   *)
(***************************************************************************)
EXTENDS Integers, FiniteSets

CONSTANTS Role,          \* custom roles of the company
          Perm,          \* the catalogue
          OwnerOnly,     \* OWNER_ONLY: what only an owner delegates
          Manage,        \* roles.permissions.manage
          User, Request,
          OwnerKeyed,    \* custom roles that carry the key of the owner's role
          RoleOf,        \* RoleOf[u]: a custom role, or the owner's
          Granted, Denied, \* user_permissions
          NoUser, NoRole, MaxTx

Owner == "super_admin"

ASSUME Catalogue == Manage \in OwnerOnly /\ OwnerOnly \subseteq Perm
ASSUME Users == RoleOf \in [User -> Role \cup {Owner}] /\ OwnerKeyed \subseteq Role
ASSUME Individual == Granted \in [User -> SUBSET Perm] /\ Denied \in [User -> SUBSET Perm]

VARIABLES roles,         \* the roles that exist
          rows,          \* committed rows of role_permissions
          req,           \* what each request knows
          deleted,       \* uncommitted deletions of each request
          inserted,      \* uncommitted insertions of each request
          nextTx         \* transaction numbers: they tell tuples apart

vars == <<roles, rows, req, deleted, inserted, nextTx>>

Row == [role : Role, perm : Perm, tx : Nat, by : User \cup {NoUser}]

RowsOf(role) == {row \in rows : row.role = role}
Held(role) == {row.perm : row \in RowsOf(role)}
HasSystemRole(u) == RoleOf[u] = Owner

\* The checks compare the key of the actor's role.
IsOwner(u) == HasSystemRole(u) \/ RoleOf[u] \in OwnerKeyed

\* auth_user_permissions and load_permissions: a deny wins.  The permissions of
\* the owner's system role are all there are, and nobody replaces them.
Effective(u) ==
  ((IF HasSystemRole(u) THEN Perm ELSE Held(RoleOf[u])) \cup Granted[u]) \ Denied[u]

Req == [pc     : {"idle", "delete", "wait", "insert", "commit"},
        actor  : User \cup {NoUser},
        role   : Role \cup {NoRole},
        keys   : SUBSET Perm,
        tx     : Nat,
        seen   : SUBSET Row,
        old    : SUBSET Row,   \* history: the rows of the role when it began
        beside : SUBSET Role]  \* history: roles replaced by requests it overlapped

NoReq == [pc |-> "idle", actor |-> NoUser, role |-> NoRole, keys |-> {},
          tx |-> 0, seen |-> {}, old |-> {}, beside |-> {}]

Running(r) == req[r].pc # "idle"

-----------------------------------------------------------------------------
\* Roles that users have exist; an owner has given them what they hold.
Init ==
  /\ roles \in SUBSET Role
  /\ \A u \in User : HasSystemRole(u) \/ RoleOf[u] \in roles
  /\ \E held \in [roles -> SUBSET Perm] :
       rows = UNION {{[role |-> x, perm |-> p, tx |-> 0, by |-> NoUser] :
                        p \in held[x]} : x \in roles}
  /\ req = [r \in Request |-> NoReq]
  /\ deleted = [r \in Request |-> {}]
  /\ inserted = [r \in Request |-> {}]
  /\ nextTx = 1

\* Mutant: what the actor holds is not checked.
MayGiveAnything(u, keys) == IsOwner(u) \/ keys \cap OwnerOnly = {}

\* Mutant: the delegation of the owner's permissions is not checked.
MayGiveAll(u, keys) == IsOwner(u) \/ keys \subseteq Effective(u)

\* _assert_no_escalation.
MayGive(u, keys) ==
  IsOwner(u) \/ (keys \cap OwnerOnly = {} /\ keys \subseteq Effective(u))

\* The key of a role is unique among those of the company: taken twice it is a
\* conflict.  The keys of system roles have an index of their own, so that a
\* custom role of OwnerKeyed is created like any other.
InsertRole(role) == role \notin roles /\ roles' = roles \cup {role}

\* create_role: a new role has no rows to delete, so the transaction is one step.
CreateRole(actor, role, keys) ==
  /\ "roles.create" \in Effective(actor)
  /\ MayGive(actor, keys)
  /\ nextTx <= MaxTx
  /\ InsertRole(role)
  /\ rows' = rows \cup {[role |-> role, perm |-> p, tx |-> nextTx, by |-> actor] : p \in keys}
  /\ nextTx' = nextTx + 1
  /\ UNCHANGED <<req, deleted, inserted>>

\* get_actor, require and _assert_no_escalation; then the transaction finds
\* the role, which is not a system role.
Authorize(r, actor, role, keys) ==
  /\ ~Running(r)
  /\ Manage \in Effective(actor)
  /\ MayGive(actor, keys)
  /\ role \in roles
  /\ nextTx <= MaxTx
  /\ req' = [p \in Request |->
       IF p = r
       THEN [pc |-> "delete", actor |-> actor, role |-> role, keys |-> keys,
             tx |-> nextTx, seen |-> {}, old |-> RowsOf(role),
             beside |-> {req[x].role : x \in {x \in Request : Running(x)}}]
       ELSE IF Running(p) THEN [req[p] EXCEPT !.beside = @ \cup {role}]
       ELSE req[p]]
  /\ nextTx' = nextTx + 1
  /\ UNCHANGED <<roles, rows, deleted, inserted>>

\* Mutant: the DELETE lost its role_id.
DeleteSnapshotEveryRole(r) ==
  /\ req[r].pc = "delete"
  /\ req' = [req EXCEPT ![r].pc = "wait", ![r].seen = rows]
  /\ UNCHANGED <<roles, rows, deleted, inserted, nextTx>>

\* DELETE FROM role_permissions takes its snapshot.
DeleteSnapshot(r) ==
  /\ req[r].pc = "delete"
  /\ req' = [req EXCEPT ![r].pc = "wait", ![r].seen = RowsOf(req[r].role)]
  /\ UNCHANGED <<roles, rows, deleted, inserted, nextTx>>

\* Mutant: the DELETE skips the rows others have locked.
DeleteRowsSkipping(r) ==
  LET locked == UNION {deleted[other] : other \in Request \ {r}} IN
  /\ req[r].pc = "wait"
  /\ deleted' = [deleted EXCEPT ![r] = (req[r].seen \cap rows) \ locked]
  /\ req' = [req EXCEPT ![r].pc = "insert", ![r].seen = {}]
  /\ UNCHANGED <<roles, rows, inserted, nextTx>>

\* It waits for the rows others are deleting and deletes what is left.
DeleteRows(r) ==
  /\ req[r].pc = "wait"
  /\ \A other \in Request \ {r} : deleted[other] \cap req[r].seen = {}
  /\ deleted' = [deleted EXCEPT ![r] = req[r].seen \cap rows]
  /\ req' = [req EXCEPT ![r].pc = "insert", ![r].seen = {}]
  /\ UNCHANGED <<roles, rows, inserted, nextTx>>

\* Keys of the role in rows.
KeysIn(S, role) == {row.perm : row \in {x \in S : x.role = role}}

\* The rows a request asks for.
RowsAsked(q) ==
  {[role |-> q.role, perm |-> p, tx |-> q.tx, by |-> q.actor] : p \in q.keys}

\* Mutant: the table has no primary key.
InsertRowsTwice(r) ==
  LET q == req[r] IN
  /\ q.pc = "insert"
  /\ inserted' = [inserted EXCEPT ![r] = RowsAsked(q)]
  /\ req' = [req EXCEPT ![r].pc = "commit"]
  /\ UNCHANGED <<roles, rows, deleted, nextTx>>

\* INSERT INTO role_permissions ... SELECT.
InsertRows(r) ==
  LET q == req[r] IN
  /\ q.pc = "insert"
  /\ \A other \in Request \ {r} :
       q.keys \cap KeysIn(deleted[other] \cup inserted[other], q.role) = {}
  /\ q.keys \cap KeysIn(rows \ deleted[r], q.role) = {}
  /\ inserted' = [inserted EXCEPT ![r] = RowsAsked(q)]
  /\ req' = [req EXCEPT ![r].pc = "commit"]
  /\ UNCHANGED <<roles, rows, deleted, nextTx>>

\* Mutant: the connection keeps its transaction.
EndKeepingRows(r) ==
  /\ req' = [req EXCEPT ![r] = NoReq]
  /\ UNCHANGED <<deleted, inserted>>

\* The end of the transaction.
End(r) ==
  /\ req' = [req EXCEPT ![r] = NoReq]
  /\ deleted' = [deleted EXCEPT ![r] = {}]
  /\ inserted' = [inserted EXCEPT ![r] = {}]

\* Mutant: the rows asked for are added to the old ones.
CommitKeepingOld(r) ==
  /\ req[r].pc = "commit"
  /\ rows' = rows \cup inserted[r]
  /\ End(r)
  /\ UNCHANGED <<roles, nextTx>>

\* The commit.  The answer is the role as get_role reads it once more in the
\* transaction; the audit entry, written afterwards, names the keys asked for.
Commit(r) ==
  /\ req[r].pc = "commit"
  /\ rows' = (rows \ deleted[r]) \cup inserted[r]
  /\ End(r)
  /\ UNCHANGED <<roles, nextTx>>

\* A key that is taken (500), a deadlock broken by the database, a lost
\* connection.
Fail(r) ==
  /\ Running(r)
  /\ End(r)
  /\ UNCHANGED <<roles, rows, nextTx>>

Next ==
  \/ \E actor \in User, role \in Role, keys \in SUBSET Perm :
       \/ CreateRole(actor, role, keys)
       \/ \E r \in Request : Authorize(r, actor, role, keys)
  \/ \E r \in Request :
       DeleteSnapshot(r) \/ DeleteRows(r) \/ InsertRows(r) \/ Commit(r) \/ Fail(r)

Spec == Init /\ [][Next]_vars

-----------------------------------------------------------------------------
(***************************************************************************)
(* Properties.                                                             *)
(***************************************************************************)

\* Rows and requests hold values of their kind; nothing uncommitted outlives
\* its request.
TypeOK ==
  /\ roles \subseteq Role
  /\ rows \subseteq Row
  /\ req \in [Request -> Req]
  /\ deleted \in [Request -> SUBSET Row] /\ inserted \in [Request -> SUBSET Row]
  /\ \A r \in Request : ~Running(r) => deleted[r] = {} /\ inserted[r] = {}
  /\ nextTx \in Nat

\* However requests interleave, a role has a permission once, and only roles
\* that exist have any.
OneRowPerKey ==
  /\ \A x, y \in rows : x.role = y.role /\ x.perm = y.perm => x = y
  /\ \A x \in rows : x.role \in roles

\* No interleaving delegates a permission of the owner without an owner.
OnlyOwnersDelegate ==
  \A row \in rows : row.perm \in OwnerOnly /\ row.by # NoUser => IsOwner(row.by)

Commits(r) == req[r].pc = "commit" /\ rows' # rows /\ req'[r].pc = "idle"
KeysAfter(role) == {row.perm : row \in {x \in rows' : x.role = role}}

\* A PUT that commits leaves none of the rows its role had when the PUT began,
\* whoever replaces the role beside it, commits before it or is rolled back
\* after it: a DELETE that meets a row another request is deleting must wait for
\* the outcome and delete the row if that request did not.  What may remain
\* beside the keys asked for was given by requests that overlapped this one.
NothingOldRemains ==
  [][\A r \in Request : Commits(r) => req[r].old \cap rows' = {}]_vars

\* A committed PUT that overlaps no other PUT of the role leaves the role with
\* exactly the keys it asked for, which is what the tests expect of it and its
\* audit entry says.
PutReplaces ==
  [][\A r \in Request :
       Commits(r) /\ req[r].role \notin req[r].beside =>
         req[r].keys = KeysAfter(req[r].role)]_vars

\* A request gives a role only what its actor has at that moment, unless the
\* actor's own role was being replaced meanwhile.
GiversHave ==
  [][\A r \in Request :
       Commits(r) /\ ~IsOwner(req[r].actor) /\ RoleOf[req[r].actor] \notin req[r].beside =>
         req[r].keys \subseteq Effective(req[r].actor)]_vars

-----------------------------------------------------------------------------
(***************************************************************************)
(* The inductive invariant behind the properties.                          *)
(***************************************************************************)

\* Users have roles that exist, and a request replaces one that exists,
\* gives what its actor may delegate and knows of the requests beside it.
RequestsAgree ==
  /\ \A u \in User : HasSystemRole(u) \/ RoleOf[u] \in roles
  /\ \A r \in Request : Running(r) =>
       /\ req[r].actor \in User /\ req[r].role \in roles
       /\ IsOwner(req[r].actor) \/ req[r].keys \cap OwnerOnly = {}
       /\ \A o \in Request : o # r /\ Running(o) => req[o].role \in req[r].beside

\* A waiting DELETE has seen rows of its role.
SeenAgrees ==
  \A r \in Request : \A x \in req[r].seen : x.role = req[r].role

\* Uncommitted deletions are of committed rows of the role, uncommitted
\* insertions are the rows asked for.
WritesAgree ==
  \A r \in Request :
    /\ \A x \in deleted[r] : x \in rows /\ x.role = req[r].role
    /\ deleted[r] # {} => req[r].pc \in {"insert", "commit"}
    /\ inserted[r] = IF req[r].pc = "commit" THEN RowsAsked(req[r]) ELSE {}

SameKey(x, y) == x.role = y.role /\ x.perm = y.perm

\* No two requests write one key, and what a request inserts is free once
\* its own deletions are made.
WritesApart ==
  /\ \A r, o \in Request : r # o =>
       /\ \A x \in deleted[r] : x \notin deleted[o]
       /\ \A x \in inserted[r], y \in inserted[o] : ~SameKey(x, y)
  /\ \A r \in Request : \A x \in inserted[r], y \in rows :
       SameKey(x, y) => y \in deleted[r]

\* A request with no other beside it on its role deletes every row of it.
AloneDeletesAll ==
  \A r \in Request, role \in Role :
    Running(r) /\ req[r].role = role /\ role \notin req[r].beside =>
      /\ req[r].pc = "wait" => req[r].seen = RowsOf(role)
      /\ req[r].pc \in {"insert", "commit"} => deleted[r] = RowsOf(role)

\* An actor whose role no other request replaces has what he gives.
ActorsHave ==
  \A r \in Request, u \in User :
    Running(r) /\ req[r].actor = u /\ ~IsOwner(u) /\ RoleOf[u] \notin req[r].beside =>
      req[r].keys \subseteq Effective(u)

\* A transaction number belongs to one transaction: rows that are or were
\* committed have numbers of transactions that are over.
NumbersApart ==
  /\ \A r \in Request : \A x \in rows \cup req[r].old :
       /\ x.tx < nextTx
       /\ \A o \in Request : Running(o) => x.tx # req[o].tx
  /\ \A r, o \in Request : Running(r) =>
       /\ req[r].tx < nextTx
       /\ o # r /\ Running(o) => req[o].tx # req[r].tx

\* Of the rows the role had when the request began, those still there are in
\* the snapshot of its DELETE, and then among its deletions.
OldAreDeleted ==
  \A r \in Request :
    /\ \A x \in req[r].old : x.role = req[r].role
    /\ req[r].pc = "wait" => req[r].old \cap rows \subseteq req[r].seen
    /\ req[r].pc \in {"insert", "commit"} => req[r].old \cap rows \subseteq deleted[r]

IInv ==
  /\ TypeOK /\ RequestsAgree /\ SeenAgrees /\ WritesAgree /\ WritesApart
  /\ AloneDeletesAll /\ ActorsHave /\ NumbersApart /\ OldAreDeleted
  /\ OneRowPerKey /\ OnlyOwnersDelegate
=============================================================================
