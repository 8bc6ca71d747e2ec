----------------------------- MODULE UserAdmin ------------------------------
(***************************************************************************)
(* Administration of the users of one company: create_user, update_user    *)
(* and deactivate_user of user_service.                                    *)
(*                                                                         *)
(* A request reads its actor in one transaction (get_actor), and the       *)
(* target, the number of owners and the write follow in another, each a    *)
(* statement with a snapshot of its own (READ COMMITTED, no row locked by  *)
(* a read).  The write is the last statement before the commit, so both    *)
(* are one step here; it changes the columns of the request alone.         *)
(***************************************************************************)
EXTENDS Integers, FiniteSets

CONSTANTS User, Request, NoUser

ASSUME FiniteUsers == IsFiniteSet(User)

VARIABLES users,        \* the rows of table users
          req,          \* what each request knows
          overlapped    \* history: two requests have run at the same time

vars == <<users, req, overlapped>>

Owner == "super_admin"
Role == {Owner, "admin", "deputy", "worker"}
Status == {"absent", "invited", "active", "terminated"}

\* What the permissions of migration 0002 let a role do to users.  A deputy
\* is a custom role that an owner has given everything he may give.
Grants(role) ==
  CASE role \in {Owner, "deputy"} -> {"create", "update", "deactivate"}
    [] role = "admin"           -> {"create", "update"}
    [] OTHER                    -> {}

Exists(row) == row.status # "absent"
IsActiveOwner(row) == row.role = Owner /\ row.status = "active"
ActiveOwners == {u \in User : IsActiveOwner(users[u])}

\* newRole is the role the payload asks for; keep stands for none.
Keep == "keep"

Req == [pc        : {"idle", "authorized", "count", "write"},
        op        : {"create", "update", "deactivate"},
        actor     : User \cup {NoUser},
        actorRole : Role,
        target    : User \cup {NoUser},
        newRole   : Role \cup {Keep}]

NoReq == [pc |-> "idle", op |-> "update", actor |-> NoUser,
          actorRole |-> "worker", target |-> NoUser, newRole |-> Keep]

-----------------------------------------------------------------------------
\* The seed leaves at least one active owner.
Init ==
  /\ users \in [User -> [role : Role, status : Status]]
  /\ \A u \in User : ~Exists(users[u]) => users[u].role = "worker"
  /\ ActiveOwners # {}
  /\ req = [r \in Request |-> NoReq]
  /\ overlapped = FALSE

Running(r) == req[r].pc # "idle"

End(r) ==
  /\ req' = [req EXCEPT ![r] = NoReq]
  /\ UNCHANGED overlapped

Goto(r, pc) ==
  /\ req' = [req EXCEPT ![r].pc = pc]
  /\ UNCHANGED overlapped

\* get_actor and require: the actor is active and its role, as the database
\* has it now, grants the operation.  UserCreate names a role, UserUpdate may.
Authorize(r, actor, op, target, newRole) ==
  /\ req[r].pc = "idle"
  /\ users[actor].status = "active"
  /\ op \in Grants(users[actor].role)
  /\ op = "create" => newRole # Keep
  /\ op = "deactivate" => newRole = Keep
  /\ req' = [req EXCEPT ![r] = [pc |-> "authorized", op |-> op, actor |-> actor,
                                actorRole |-> users[actor].role,
                                target |-> target, newRole |-> newRole]]
  /\ overlapped' = (overlapped \/ \E p \in Request : Running(p))
  /\ UNCHANGED users

\* Mutant: the role of the payload is compared with the role of the actor.
AsksForOwnerUnlessAdmin(q) == q.newRole = Owner /\ q.actorRole = "worker"

AsksForOwner(q) == q.newRole = Owner /\ q.actorRole # Owner

\* The unique e-mail is the identity of the user here.
InsertUser(u, role, status) ==
  /\ ~Exists(users[u])
  /\ users' = [users EXCEPT ![u] = [role |-> role, status |-> status]]

\* create_user: an invitation, or an active user when a password is given.
CreateUser(r, status) ==
  LET q == req[r] IN
  /\ q.pc = "authorized" /\ q.op = "create"
  /\ q.newRole \in Role /\ ~AsksForOwner(q)
  /\ status \in {"invited", "active"}
  /\ InsertUser(q.target, q.newRole, status)
  /\ End(r)

\* The role of the target is to change.
ChangesRole(q, before) == q.op = "update" /\ q.newRole \notin {Keep, before.role}

\* update_user and deactivate_user after get_user: every refusal that needs
\* the row.
Refused(q, before) ==
  \/ ~Exists(before)
  \/ q.op = "deactivate" /\ q.target = q.actor
  \/ ChangesRole(q, before) /\ (AsksForOwner(q) \/ q.target = q.actor)

\* Mutant: a deactivation does not ask for the other owners.
NeedsCountOnUpdate(q, before) == ChangesRole(q, before) /\ before.role = Owner

NeedsCount(q, before) ==
  (q.op = "deactivate" \/ ChangesRole(q, before)) /\ before.role = Owner

\* A payload with the role the row already has writes no role.
GetUser(r) ==
  LET q == req[r]
      before == users[q.target] IN
  /\ q.pc = "authorized" /\ q.op \in {"update", "deactivate"}
  /\ ~Refused(q, before)
  /\ req' = [req EXCEPT
               ![r].pc = IF NeedsCount(q, before) THEN "count" ELSE "write",
               ![r].newRole = IF ChangesRole(q, before) THEN @ ELSE Keep]
  /\ UNCHANGED <<users, overlapped>>

\* Mutant: the count is off by one.
CountOwnersOffByOne(r) ==
  /\ req[r].pc = "count"
  /\ Cardinality(ActiveOwners) >= 1
  /\ Goto(r, "write")
  /\ UNCHANGED users

\* count_active_owners() < 2 refuses.
CountOwners(r) ==
  /\ req[r].pc = "count"
  /\ Cardinality(ActiveOwners) >= 2
  /\ Goto(r, "write")
  /\ UNCHANGED users

\* Mutant: the row is written back whole, with the status get_user read.
WriteWholeRow(r) ==
  LET q == req[r] IN
  /\ q.pc = "write"
  /\ users' = [users EXCEPT ![q.target] =
                 IF q.op = "deactivate" THEN [@ EXCEPT !.status = "terminated"]
                 ELSE IF q.newRole = Keep THEN [@ EXCEPT !.status = "active"]
                 ELSE [role |-> q.newRole, status |-> "active"]]
  /\ End(r)

\* UPDATE users and the commit.  COALESCE keeps the role when none is given;
\* rows are never deleted, so the update always finds its row.
Write(r) ==
  LET q == req[r] IN
  /\ q.pc = "write"
  /\ users' = [users EXCEPT ![q.target] =
                 IF q.op = "deactivate" THEN [@ EXCEPT !.status = "terminated"]
                 ELSE IF q.newRole = Keep THEN @
                 ELSE [@ EXCEPT !.role = q.newRole]]
  /\ End(r)

\* A refusal, an error or a lost connection before the commit.
Fail(r) ==
  /\ Running(r)
  /\ End(r)
  /\ UNCHANGED users

Next ==
  \E r \in Request :
    \/ /\ ~Running(r)   \* spares TLC the arrivals of a running request
       /\ \E actor, target \in User, op \in {"create", "update", "deactivate"},
            newRole \in Role \cup {Keep} : Authorize(r, actor, op, target, newRole)
    \/ \E status \in Status : CreateUser(r, status)
    \/ GetUser(r)
    \/ CountOwners(r)
    \/ Write(r)
    \/ Fail(r)

Spec == Init /\ [][Next]_vars

-----------------------------------------------------------------------------
(***************************************************************************)
(* Properties.                                                             *)
(***************************************************************************)

\* Rows and requests hold values of their kind.
TypeOK ==
  /\ users \in [User -> [role : Role, status : Status]]
  /\ req \in [Request -> Req]
  /\ \A r \in Request : Running(r) => req[r].actor \in User /\ req[r].target \in User
  /\ overlapped \in BOOLEAN

\* The company keeps an active owner (user_service: the role "is not taken
\* from the last active one").
OwnerRemains == ActiveOwners # {}

\* As long as no two requests overlap, no sequence of them takes the last
\* active owner away.
SequentiallyOwnerRemains == overlapped \/ OwnerRemains

\* A role or a name being changed at the same time never brings a
\* deactivated user back.
TerminatedIsFinal ==
  [][\A u \in User : users[u].status = "terminated" => users'[u].status = "terminated"]_users

\* As long as no two requests overlap, who becomes an owner is appointed by
\* one who is an active owner at that moment.
AppointedByOwner ==
  [][~overlapped =>
       \A u \in User : users[u].role # Owner /\ users'[u].role = Owner =>
         \E r \in Request : req[r].actor \in ActiveOwners /\ req[r].target = u]_users

\* What a request has read still holds when it writes.
ReadsAreFresh ==
  \A r \in Request :
    LET q == req[r] IN
    /\ Running(r) =>
         /\ users[q.actor].role = q.actorRole
         /\ users[q.actor].status = "active"
         /\ q.op \in Grants(q.actorRole)
    /\ q.pc \in {"count", "write"} =>
         /\ q.op # "create" /\ ~AsksForOwner(q)
         /\ Exists(users[q.target])
         /\ q.newRole # users[q.target].role
         /\ (q.op = "deactivate" \/ q.newRole # Keep) => q.target # q.actor
    /\ q.pc = "write" /\ (q.op = "deactivate" \/ q.newRole # Keep) =>
         (IsActiveOwner(users[q.target]) => Cardinality(ActiveOwners) >= 2)

OneRuns == \A p, r \in Request : Running(p) /\ Running(r) => p = r

\* The invariant of requests that have never overlapped.
Sequential == OneRuns /\ ReadsAreFresh /\ OwnerRemains

IInv == TypeOK /\ (overlapped \/ Sequential)
=============================================================================
