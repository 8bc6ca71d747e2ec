-------------------------- MODULE UserAdminProofs --------------------------
(***************************************************************************)
(* Proofs about UserAdmin, for every finite set of users.                  *)
(***************************************************************************)
EXTENDS UserAdmin, FiniteSetTheorems, TLAPS

\* Every step keeps rows and requests of their kind.
LEMMA TypeStep ==
  ASSUME TypeOK, [Next]_vars
  PROVE  TypeOK'
<1> USE DEF TypeOK, Running
<1>1. NoReq \in Req /\ NoReq.pc = "idle"
  BY DEF NoReq, Req, Role, Owner
<1>2. ASSUME NEW r \in Request, End(r)
      PROVE  /\ req' \in [Request -> Req]
             /\ \A p \in Request : req'[p].pc # "idle" => req'[p].actor \in User /\ req'[p].target \in User
             /\ overlapped' \in BOOLEAN
  BY <1>1, <1>2 DEF End, Running
<1>3. ASSUME NEW r \in Request, NEW actor \in User, NEW target \in User,
             NEW op \in {"create", "update", "deactivate"},
             NEW newRole \in Role \cup {Keep}, Authorize(r, actor, op, target, newRole)
      PROVE  TypeOK'
  <2> DEFINE q == [pc |-> "authorized", op |-> op, actor |-> actor,
                   actorRole |-> users[actor].role, target |-> target,
                   newRole |-> newRole]
  <2>1. users[actor].role \in Role
    OBVIOUS
  <2>2. q \in Req
    BY <2>1 DEF Req
  <2>3. req' = [req EXCEPT ![r] = q] /\ users' = users
    BY <1>3 DEF Authorize
  <2>4. overlapped' \in BOOLEAN
    BY <1>3 DEF Authorize
  <2> QED  BY <2>2, <2>3, <2>4
<1>4. ASSUME NEW r \in Request, NEW status \in Status, CreateUser(r, status)
      PROVE  TypeOK'
  <2>1. [role |-> req[r].newRole, status |-> status] \in [role : Role, status : Status]
    BY <1>4 DEF CreateUser, InsertUser
  <2>2. users' = [users EXCEPT ![req[r].target] = [role |-> req[r].newRole, status |-> status]]
    BY <1>4 DEF CreateUser, InsertUser
  <2> QED  BY <1>2, <1>4, <2>1, <2>2 DEF CreateUser, InsertUser
<1>5. ASSUME NEW r \in Request, GetUser(r)
      PROVE  TypeOK'
  <2>1. PICK pc \in {"count", "write"}, newRole \in Role \cup {Keep} :
          req' = [req EXCEPT ![r].pc = pc, ![r].newRole = newRole]
    BY <1>5 DEF GetUser, Req
  <2>2. users' = users /\ overlapped' = overlapped /\ req[r].pc = "authorized"
    BY <1>5 DEF GetUser
  <2>3. [req[r] EXCEPT !.pc = pc, !.newRole = newRole] \in Req
    BY DEF Req
  <2>4. req'[r].actor = req[r].actor /\ req'[r].target = req[r].target
    BY <2>1 DEF Req
  <2>5. \A p \in Request : p # r => req'[p] = req[p]
    BY <2>1
  <2> QED  BY <2>1, <2>2, <2>3, <2>4, <2>5
<1>6. ASSUME NEW r \in Request, CountOwners(r)
      PROVE  TypeOK'
  <2>1. req' = [req EXCEPT ![r].pc = "write"] /\ users' = users /\ req[r].pc = "count"
        /\ overlapped' = overlapped
    BY <1>6 DEF CountOwners, Goto
  <2>2. [req[r] EXCEPT !.pc = "write"] \in Req
    BY DEF Req
  <2>3. req'[r].actor = req[r].actor /\ req'[r].target = req[r].target
    BY <2>1 DEF Req
  <2>4. \A p \in Request : p # r => req'[p] = req[p]
    BY <2>1
  <2> QED  BY <2>1, <2>2, <2>3, <2>4
<1>7. ASSUME NEW r \in Request, Write(r)
      PROVE  TypeOK'
  <2>1. users' \in [User -> [role : Role, status : Status]]
    <3>1. req[r].newRole \in Role \cup {Keep}
      BY DEF Req
    <3> QED  BY <1>7, <3>1 DEF Write, Status
  <2> QED  BY <1>2, <1>7, <2>1 DEF Write
<1>8. ASSUME NEW r \in Request, Fail(r)
      PROVE  TypeOK'
  BY <1>2, <1>8 DEF Fail
<1>9. CASE UNCHANGED vars
  BY <1>9 DEF vars
<1> QED  BY <1>3, <1>4, <1>5, <1>6, <1>7, <1>8, <1>9 DEF Next

\* Rows and requests hold values of their kind, however many requests run.
THEOREM TypeCorrectness == Spec => []TypeOK
<1>1. ASSUME Init
      PROVE  TypeOK
  BY <1>1 DEF Init, TypeOK, NoReq, Req, Role, Owner, Running
<1> QED  BY <1>1, TypeStep, PTL DEF Spec

\* No interleaving of requests brings a deactivated user back.
THEOREM DeactivationIsFinal == Spec => TerminatedIsFinal
<1> DEFINE Stays == \A u \in User :
                      users[u].status = "terminated" => users'[u].status = "terminated"
<1>1. TypeOK /\ [Next]_vars => [Stays]_users
  <2> SUFFICES ASSUME TypeOK, [Next]_vars
               PROVE  Stays \/ UNCHANGED users
    OBVIOUS
  <2>1. ASSUME NEW r \in Request, NEW status \in Status, CreateUser(r, status)
        PROVE  Stays
    BY <2>1 DEF CreateUser, InsertUser, Exists, TypeOK
  <2>2. ASSUME NEW r \in Request, Write(r)
        PROVE  Stays
    BY <2>2 DEF Write, TypeOK
  <2>3. ASSUME NEW r \in Request, NEW actor \in User, NEW target \in User, NEW op, NEW newRole,
               Authorize(r, actor, op, target, newRole)
        PROVE  UNCHANGED users
    BY <2>3 DEF Authorize
  <2>4. ASSUME NEW r \in Request, GetUser(r) \/ CountOwners(r) \/ Fail(r)
        PROVE  UNCHANGED users
    BY <2>4 DEF GetUser, CountOwners, Fail
  <2>5. CASE UNCHANGED vars
    BY <2>5 DEF vars
  <2> QED  BY <2>1, <2>2, <2>3, <2>4, <2>5 DEF Next
<1> QED  BY <1>1, TypeCorrectness, PTL DEF Spec, TerminatedIsFinal

-----------------------------------------------------------------------------
(***************************************************************************)
(* Requests that do not overlap.                                           *)
(***************************************************************************)

\* Of two or more owners, one is left when one goes.
LEMMA AnotherOwner ==
  ASSUME Cardinality(ActiveOwners) >= 2, NEW t
  PROVE  \E u \in ActiveOwners : u # t
<1> SUFFICES ASSUME \A u \in ActiveOwners : u = t
             PROVE  FALSE
  OBVIOUS
<1>1. ActiveOwners \subseteq {t}
  OBVIOUS
<1>2. IsFiniteSet({t}) /\ Cardinality({t}) = 1
  BY FS_Singleton
<1>3. Cardinality(ActiveOwners) <= 1 /\ Cardinality(ActiveOwners) \in Nat
  BY <1>1, <1>2, FS_Subset, FS_CardinalityType
<1> QED  BY <1>3

\* When the only request ends, nothing that was read is left.
LEMMA EndIsFresh ==
  ASSUME TypeOK, OneRuns, NEW r \in Request, Running(r), End(r)
  PROVE  OneRuns' /\ ReadsAreFresh'
<1>1. \A p \in Request : req'[p].pc = "idle"
  BY DEF End, NoReq, TypeOK, OneRuns, Running
<1> QED  BY <1>1 DEF ReadsAreFresh, OneRuns, Running

\* A request that has just been let in, alone, knows its actor.
LEMMA AuthorizeStep ==
  ASSUME TypeOK, Sequential, ~overlapped', NEW r \in Request,
         NEW actor \in User, NEW target \in User, NEW op, NEW newRole,
         Authorize(r, actor, op, target, newRole)
  PROVE  Sequential'
<1> DEFINE q == [pc |-> "authorized", op |-> op, actor |-> actor,
                 actorRole |-> users[actor].role, target |-> target, newRole |-> newRole]
<1>1. /\ users' = users /\ req' = [req EXCEPT ![r] = q]
      /\ users[actor].status = "active" /\ op \in Grants(users[actor].role)
      /\ \A p \in Request : ~Running(p)
  BY DEF Authorize
<1>2. req'[r] = q /\ \A p \in Request \ {r} : req'[p].pc = "idle"
  BY <1>1 DEF TypeOK, Running
<1>3. ReadsAreFresh'
  <2> SUFFICES ASSUME NEW p \in Request, req'[p].pc # "idle"
               PROVE  /\ users'[req'[p].actor].role = req'[p].actorRole
                      /\ users'[req'[p].actor].status = "active"
                      /\ req'[p].op \in Grants(req'[p].actorRole)
                      /\ req'[p].pc = "authorized"
    BY DEF ReadsAreFresh, Running
  <2> QED  BY <1>1, <1>2
<1>4. OwnerRemains'
  BY <1>1 DEF Sequential, OwnerRemains, ActiveOwners
<1>5. OneRuns'
  BY <1>2 DEF OneRuns, Running
<1> QED  BY <1>3, <1>4, <1>5 DEF Sequential

\* A step of the one request that runs leaves it the one.
LEMMA StillAlone ==
  ASSUME TypeOK, OneRuns, NEW r \in Request, Running(r),
         \A p \in Request \ {r} : req'[p] = req[p]
  PROVE  /\ OneRuns'
         /\ \A p \in Request : req'[p].pc # "idle" => p = r
BY DEF OneRuns, Running, TypeOK

\* What get_user read is enough for the refusals.
LEMMA GetUserStep ==
  ASSUME TypeOK, Sequential, NEW r \in Request, GetUser(r)
  PROVE  Sequential'
<1> DEFINE q == req[r]
           before == users[q.target]
           newRole == IF ChangesRole(q, before) THEN q.newRole ELSE Keep
           pc == IF NeedsCount(q, before) THEN "count" ELSE "write"
<1>1. /\ users' = users /\ q.pc = "authorized" /\ q.op \in {"update", "deactivate"}
      /\ ~Refused(q, before)
      /\ req' = [req EXCEPT ![r].pc = pc, ![r].newRole = newRole]
  BY DEF GetUser
<1>2. q \in Req /\ before \in [role : Role, status : Status]
  BY <1>1 DEF TypeOK, Running
<1>3. /\ req'[r].pc = pc /\ req'[r].newRole = newRole /\ req'[r].op = q.op
      /\ req'[r].actor = q.actor /\ req'[r].actorRole = q.actorRole
      /\ req'[r].target = q.target
  <2>1. req'[r] = [q EXCEPT !.pc = pc, !.newRole = newRole]
    BY <1>1 DEF TypeOK
  <2> HIDE DEF pc, newRole
  <2>2. q \in Req
    BY <1>2
  <2> HIDE DEF q
  <2> QED  BY <2>1, <2>2 DEF Req
<1>4. users[q.actor].role = q.actorRole /\ users[q.actor].status = "active"
      /\ q.op \in Grants(q.actorRole)
  BY <1>1 DEF Sequential, ReadsAreFresh, Running
<1>5. /\ Exists(before) /\ newRole # before.role
      /\ ~(newRole = Owner /\ q.actorRole # Owner)
      /\ (q.op = "deactivate" \/ newRole # Keep) => q.target # q.actor
  BY <1>1, <1>2 DEF Refused, ChangesRole, AsksForOwner, Keep, Role, Owner
<1>6. pc = "write" /\ (q.op = "deactivate" \/ newRole # Keep) => ~IsActiveOwner(before)
  BY DEF NeedsCount, IsActiveOwner
<1> HIDE DEF pc, newRole
<1>7. OneRuns' /\ \A p \in Request : req'[p].pc # "idle" => p = r
  <2>1. \A p \in Request \ {r} : req'[p] = req[p]
    BY <1>1 DEF TypeOK
  <2> QED  BY <1>1, <2>1, StillAlone DEF Sequential, Running
<1>8. ReadsAreFresh'
  <2> SUFFICES ASSUME NEW p \in Request, req'[p].pc # "idle"
               PROVE  /\ users'[req'[p].actor].role = req'[p].actorRole
                      /\ users'[req'[p].actor].status = "active"
                      /\ req'[p].op \in Grants(req'[p].actorRole)
                      /\ req'[p].op # "create"
                      /\ ~(req'[p].newRole = Owner /\ req'[p].actorRole # Owner)
                      /\ Exists(users'[req'[p].target])
                      /\ req'[p].newRole # users'[req'[p].target].role
                      /\ (req'[p].op = "deactivate" \/ req'[p].newRole # Keep)
                           => req'[p].target # req'[p].actor
                      /\ req'[p].pc = "write" /\ (req'[p].op = "deactivate" \/ req'[p].newRole # Keep)
                           => ~IsActiveOwner(users'[req'[p].target])
    BY DEF ReadsAreFresh, AsksForOwner, Running
  <2>1. p = r
    BY <1>7
  <2> QED  BY <1>1, <1>3, <1>4, <1>5, <1>6, <2>1
<1>9. OwnerRemains'
  BY <1>1 DEF Sequential, OwnerRemains, ActiveOwners
<1> QED  BY <1>7, <1>8, <1>9 DEF Sequential

\* The count holds until the write, since nothing else runs.
LEMMA CountOwnersStep ==
  ASSUME TypeOK, Sequential, NEW r \in Request, CountOwners(r)
  PROVE  Sequential'
<1> DEFINE q == req[r]
<1>1. /\ users' = users /\ q.pc = "count" /\ Cardinality(ActiveOwners) >= 2
      /\ req' = [req EXCEPT ![r].pc = "write"] /\ q \in Req
  BY DEF CountOwners, Goto, TypeOK
<1>2. /\ req'[r].newRole = q.newRole /\ req'[r].op = q.op
      /\ req'[r].actor = q.actor /\ req'[r].actorRole = q.actorRole
      /\ req'[r].target = q.target /\ req'[r].pc = "write"
  BY <1>1 DEF Req, TypeOK
<1>3. Cardinality(ActiveOwners)' >= 2
  BY <1>1 DEF ActiveOwners
<1>4. /\ users[q.actor].role = q.actorRole /\ users[q.actor].status = "active"
      /\ q.op \in Grants(q.actorRole)
      /\ q.op # "create" /\ ~AsksForOwner(q)
      /\ Exists(users[q.target]) /\ q.newRole # users[q.target].role
      /\ (q.op = "deactivate" \/ q.newRole # Keep) => q.target # q.actor
  BY <1>1 DEF Sequential, ReadsAreFresh, Running
<1>5. OneRuns' /\ \A p \in Request : req'[p].pc # "idle" => p = r
  <2>1. \A p \in Request \ {r} : req'[p] = req[p]
    BY <1>1 DEF TypeOK
  <2> QED  BY <1>1, <2>1, StillAlone DEF Sequential, Running
<1>6. ReadsAreFresh'
  <2> SUFFICES ASSUME NEW p \in Request, req'[p].pc # "idle"
               PROVE  /\ users'[req'[p].actor].role = req'[p].actorRole
                      /\ users'[req'[p].actor].status = "active"
                      /\ req'[p].op \in Grants(req'[p].actorRole)
                      /\ req'[p].op # "create"
                      /\ ~(req'[p].newRole = Owner /\ req'[p].actorRole # Owner)
                      /\ Exists(users'[req'[p].target])
                      /\ req'[p].newRole # users'[req'[p].target].role
                      /\ (req'[p].op = "deactivate" \/ req'[p].newRole # Keep)
                           => req'[p].target # req'[p].actor
    BY <1>3 DEF ReadsAreFresh, AsksForOwner, Running
  <2>1. p = r
    BY <1>5
  <2> QED  BY <1>1, <1>2, <1>4, <2>1 DEF AsksForOwner
<1>7. OwnerRemains'
  BY <1>1 DEF Sequential, OwnerRemains, ActiveOwners
<1> QED  BY <1>5, <1>6, <1>7 DEF Sequential

\* A new user takes no owner away.
LEMMA CreateUserStep ==
  ASSUME TypeOK, Sequential, NEW r \in Request, NEW status \in Status, CreateUser(r, status)
  PROVE  Sequential'
<1>1. \A u \in ActiveOwners : users'[u] = users[u]
  BY DEF CreateUser, InsertUser, ActiveOwners, IsActiveOwner, Exists, TypeOK
<1>2. OwnerRemains'
  BY <1>1 DEF Sequential, OwnerRemains, ActiveOwners
<1>3. Running(r) /\ End(r)
  BY DEF CreateUser, InsertUser, Running
<1> QED  BY <1>2, <1>3, EndIsFresh DEF Sequential

\* A write takes an owner away only while there is another.
LEMMA WriteStep ==
  ASSUME TypeOK, Sequential, NEW r \in Request, Write(r)
  PROVE  Sequential'
<1> DEFINE q == req[r]
<1>1. q.pc = "write" /\ q.target \in User /\ Running(r) /\ End(r)
  BY DEF Write, TypeOK, Running
<1>2. \A u \in User : u # q.target => users'[u] = users[u]
  BY DEF Write, TypeOK
<1>3. OneRuns' /\ ReadsAreFresh'
  BY <1>1, EndIsFresh DEF Sequential
<1>4. CASE q.op # "deactivate" /\ q.newRole = Keep
  <2>1. users' = users
    BY <1>1, <1>4 DEF Write, TypeOK
  <2> QED  BY <1>3, <2>1 DEF Sequential, OwnerRemains, ActiveOwners
<1>5. CASE q.op = "deactivate" \/ q.newRole # Keep
  <2>1. \E u \in ActiveOwners : u # q.target
    <3>1. CASE IsActiveOwner(users[q.target])
      <4>1. Cardinality(ActiveOwners) >= 2
        BY <1>1, <1>5, <3>1 DEF Sequential, ReadsAreFresh
      <4> QED  BY <4>1, AnotherOwner
    <3>2. CASE ~IsActiveOwner(users[q.target])
      BY <3>2 DEF Sequential, OwnerRemains, ActiveOwners
    <3> QED  BY <3>1, <3>2
  <2>2. OwnerRemains'
    BY <1>2, <2>1 DEF OwnerRemains, ActiveOwners
  <2> QED  BY <1>3, <2>2 DEF Sequential
<1> QED  BY <1>4, <1>5

\* Until two requests overlap, what a request has read holds when it writes,
\* and an active owner remains.
LEMMA IInvStep ==
  ASSUME IInv, [Next]_vars
  PROVE  IInv'
<1>1. TypeOK /\ TypeOK'
  BY TypeStep DEF IInv
<1>2. overlapped => overlapped'
  <2>1. ASSUME NEW r \in Request, NEW actor \in User, NEW target \in User,
               NEW op, NEW newRole, Authorize(r, actor, op, target, newRole)
        PROVE  overlapped => overlapped'
    BY <2>1 DEF Authorize
  <2>2. ASSUME NEW r \in Request, NEW status \in Status, CreateUser(r, status)
        PROVE  overlapped' = overlapped
    BY <2>2 DEF CreateUser, InsertUser, End
  <2>3. ASSUME NEW r \in Request, GetUser(r) \/ CountOwners(r) \/ Write(r) \/ Fail(r)
        PROVE  overlapped' = overlapped
    BY <2>3 DEF GetUser, CountOwners, Write, Fail, End, Goto
  <2>4. UNCHANGED vars => overlapped' = overlapped
    BY DEF vars
  <2> QED  BY <2>1, <2>2, <2>3, <2>4 DEF Next
<1> SUFFICES ASSUME ~overlapped'
             PROVE  Sequential'
  BY <1>1, <1>2 DEF IInv
<1>3. Sequential
  BY <1>2 DEF IInv
<1>4. CASE UNCHANGED vars
  BY <1>3, <1>4 DEF vars, Sequential, OneRuns, Running, ReadsAreFresh, OwnerRemains, ActiveOwners
<1>5. ASSUME NEW r \in Request, Fail(r)
      PROVE  Sequential'
  <2>1. users' = users /\ Running(r) /\ End(r)
    BY <1>5 DEF Fail
  <2> QED  BY <1>1, <1>3, <2>1, EndIsFresh DEF Sequential, OwnerRemains, ActiveOwners
<1> QED
  BY <1>1, <1>3, <1>4, <1>5, AuthorizeStep, GetUserStep, CountOwnersStep, CreateUserStep, WriteStep
  DEF Next

\* The initial state has an owner and no request.
LEMMA InitIInv == Init => IInv
<1> SUFFICES ASSUME Init
             PROVE  IInv
  OBVIOUS
<1>1. TypeOK
  BY DEF Init, TypeOK, NoReq, Req, Role, Owner, Running
<1>2. Sequential
  BY DEF Init, Sequential, OneRuns, Running, ReadsAreFresh, NoReq, OwnerRemains
<1> QED  BY <1>1, <1>2 DEF IInv

\* The inductive invariant: of requests that never overlapped, each still
\* finds what it has read.
THEOREM Invariance == Spec => []IInv
  BY InitIInv, IInvStep, PTL DEF Spec

\* Requests that do not overlap never leave a company without an active
\* owner, however many users it has and however long the sequence.
THEOREM LastOwnerIsSafe == Spec => []SequentiallyOwnerRemains
<1>1. IInv => SequentiallyOwnerRemains
  BY DEF IInv, Sequential, SequentiallyOwnerRemains
<1> QED  BY Invariance, <1>1, PTL

\* Requests that do not overlap let only an active owner make an owner.
THEOREM OwnersAppointOwners == Spec => AppointedByOwner
<1> DEFINE Appointed ==
      ~overlapped =>
        \A u \in User : users[u].role # Owner /\ users'[u].role = Owner =>
          \E r \in Request : req[r].actor \in ActiveOwners /\ req[r].target = u
<1>1. IInv /\ [Next]_vars => [Appointed]_users
  <2> SUFFICES ASSUME TypeOK, Sequential, [Next]_vars, NEW u \in User,
                      users[u].role # Owner, users'[u].role = Owner
               PROVE  \E r \in Request : req[r].actor \in ActiveOwners /\ req[r].target = u
    BY DEF IInv
  <2>1. users' # users
    OBVIOUS
  <2>2. ~ UNCHANGED vars
    BY <2>1 DEF vars
  <2>3. \A r \in Request : ~ GetUser(r) /\ ~ CountOwners(r) /\ ~ Fail(r)
    BY <2>1 DEF GetUser, CountOwners, Fail
  <2>4. \A r \in Request : \A actor, target, op, newRole :
          ~ Authorize(r, actor, op, target, newRole)
    BY <2>1 DEF Authorize
  <2>5. PICK r \in Request : Write(r) \/ \E status \in Status : CreateUser(r, status)
    BY <2>2, <2>3, <2>4 DEF Next
  <2> DEFINE q == req[r]
  <2>6. q.target = u /\ q.newRole = Owner
    <3>1. users \in [User -> [role : Role, status : Status]]
      BY DEF TypeOK
    <3>2. CASE Write(r)
      <4>1. users' = [users EXCEPT ![q.target] =
                        IF q.op = "deactivate" THEN [@ EXCEPT !.status = "terminated"]
                        ELSE IF q.newRole = Keep THEN @
                        ELSE [@ EXCEPT !.role = q.newRole]]
        BY <3>2 DEF Write
      <4>2. q.target = u
        BY <3>1, <4>1
      <4> HIDE DEF q
      <4> QED  BY <3>1, <4>1, <4>2
    <3>3. ASSUME NEW status \in Status, CreateUser(r, status)
          PROVE  q.target = u /\ q.newRole = Owner
      <4>1. users' = [users EXCEPT ![q.target] = [role |-> q.newRole, status |-> status]]
        BY <3>3 DEF CreateUser, InsertUser
      <4> HIDE DEF q
      <4> QED  BY <3>1, <4>1
    <3> QED  BY <2>5, <3>2, <3>3
  <2>7. Running(r) /\ ~AsksForOwner(q) /\ q.actor \in User
    BY <2>5 DEF Write, CreateUser, InsertUser, Sequential, ReadsAreFresh, TypeOK, Running
  <2>8. users[q.actor].role = Owner /\ users[q.actor].status = "active"
    BY <2>6, <2>7 DEF Sequential, ReadsAreFresh, AsksForOwner
  <2> QED  BY <2>6, <2>7, <2>8 DEF ActiveOwners, IsActiveOwner
<1> QED  BY InitIInv, IInvStep, <1>1, PTL DEF Spec, AppointedByOwner
=============================================================================
