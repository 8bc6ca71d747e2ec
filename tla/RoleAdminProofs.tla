-------------------------- MODULE RoleAdminProofs --------------------------
(***************************************************************************)
(* Proofs about RoleAdmin, for every catalogue, every set of roles, users  *)
(* and requests.                                                           *)
(***************************************************************************)
EXTENDS RoleAdmin, TLAPS

(***************************************************************************)
(* Building blocks.                                                        *)
(***************************************************************************)

\* The idle request is a request.
LEMMA IdleRequest ==
  NoReq \in Req /\ NoReq.pc = "idle" /\ NoReq.seen = {} /\ NoReq.old = {}
BY DEF NoReq, Req

\* The rows a request asks for have its role and its actor, one per key.
LEMMA AskedRows ==
  ASSUME NEW q \in Req, q.actor \in User, q.role \in Role
  PROVE  /\ RowsAsked(q) \subseteq Row
         /\ \A x \in RowsAsked(q) : /\ x.role = q.role /\ x.by = q.actor
                                    /\ x.tx = q.tx
                                    /\ x.perm \in q.keys
         /\ \A p \in q.keys : \E x \in RowsAsked(q) : x.perm = p
         /\ \A x, y \in RowsAsked(q) : SameKey(x, y) => x = y
<1> DEFINE F(p) == [role |-> q.role, perm |-> p, tx |-> q.tx, by |-> q.actor]
<1>1. q.keys \subseteq Perm /\ q.tx \in Nat
  BY DEF Req
<1>2. \A p \in q.keys : F(p) \in Row
  BY <1>1 DEF Row
<1>3. \A p : F(p).role = q.role /\ F(p).perm = p /\ F(p).by = q.actor
               /\ F(p).tx = q.tx
  OBVIOUS
<1>4. /\ \A p \in q.keys : F(p) \in RowsAsked(q)
      /\ \A x \in RowsAsked(q) : \E p \in q.keys : x = F(p)
  BY DEF RowsAsked
<1> HIDE DEF F
<1> QED  BY <1>2, <1>3, <1>4 DEF SameKey

\* What ends with a request: its record and its uncommitted rows.
LEMMA EndFacts ==
  ASSUME TypeOK, NEW r \in Request, End(r)
  PROVE  /\ req' \in [Request -> Req]
         /\ deleted' \in [Request -> SUBSET Row]
         /\ inserted' \in [Request -> SUBSET Row]
         /\ req'[r] = NoReq /\ deleted'[r] = {} /\ inserted'[r] = {}
         /\ \A o \in Request : o # r => /\ req'[o] = req[o]
                                        /\ deleted'[o] = deleted[o]
                                        /\ inserted'[o] = inserted[o]
<1>1. /\ req' = [req EXCEPT ![r] = NoReq]
      /\ deleted' = [deleted EXCEPT ![r] = {}]
      /\ inserted' = [inserted EXCEPT ![r] = {}]
  BY DEF End
<1> QED  BY <1>1, IdleRequest DEF TypeOK

\* The initial state satisfies the invariant.
LEMMA InitIInv == Init => IInv
<1> SUFFICES ASSUME Init
             PROVE  IInv
  OBVIOUS
<1>1. PICK held \in [roles -> SUBSET Perm] :
        rows = UNION {{[role |-> x, perm |-> p, tx |-> 0, by |-> NoUser] :
                         p \in held[x]} : x \in roles}
  BY DEF Init
<1>2. \A y \in rows : \E x \in roles : \E p \in held[x] :
        y = [role |-> x, perm |-> p, tx |-> 0, by |-> NoUser]
  BY <1>1
<1>3. \A x \in roles : x \in Role /\ held[x] \subseteq Perm
  BY DEF Init
<1>4. /\ roles \subseteq Role /\ req = [r \in Request |-> NoReq]
      /\ deleted = [r \in Request |-> {}] /\ inserted = [r \in Request |-> {}]
      /\ nextTx = 1 /\ \A u \in User : HasSystemRole(u) \/ RoleOf[u] \in roles
  BY DEF Init
<1>5. \A r \in Request : req[r].pc = "idle"
  BY <1>4, IdleRequest
<1>6. rows \subseteq Row
  <2> SUFFICES ASSUME NEW y \in rows
               PROVE  y \in Row
    OBVIOUS
  <2>1. PICK x \in roles : \E p \in held[x] :
          y = [role |-> x, perm |-> p, tx |-> 0, by |-> NoUser]
    BY <1>2
  <2>2. PICK p \in held[x] : y = [role |-> x, perm |-> p, tx |-> 0, by |-> NoUser]
    BY <2>1
  <2>3. x \in Role /\ p \in Perm
    BY <1>3
  <2> QED  BY <2>2, <2>3 DEF Row
<1>7. \A y \in rows : y.role \in roles /\ y.by = NoUser
                      /\ y = [role |-> y.role, perm |-> y.perm, tx |-> 0, by |-> NoUser]
  BY <1>2
<1>8. TypeOK
  BY <1>4, <1>5, <1>6, IdleRequest DEF TypeOK, Running
<1>9. OneRowPerKey /\ OnlyOwnersDelegate
  <2>1. ASSUME NEW x \in rows, NEW y \in rows, x.role = y.role, x.perm = y.perm
        PROVE  x = y
    BY <1>7, <2>1
  <2> QED  BY <1>7, <2>1 DEF OneRowPerKey, OnlyOwnersDelegate
<1>10. RequestsAgree /\ SeenAgrees /\ WritesAgree /\ WritesApart
  <2>1. \A r \in Request : req[r].seen = {}
    BY <1>4 DEF NoReq
  <2> QED  BY <1>4, <1>5, <2>1
           DEF RequestsAgree, SeenAgrees, WritesAgree, WritesApart, Running
<1>11. AloneDeletesAll /\ ActorsHave
  BY <1>5 DEF AloneDeletesAll, ActorsHave, Running
<1>12. NumbersApart /\ OldAreDeleted
  <2>1. \A r \in Request : req[r].old = {}
    BY <1>4, IdleRequest
  <2>2. \A x \in rows : x.tx = 0
    BY <1>7
  <2> QED  BY <1>4, <1>5, <2>1, <2>2 DEF NumbersApart, OldAreDeleted, Running
<1> QED  BY <1>8, <1>9, <1>10, <1>11, <1>12 DEF IInv

(***************************************************************************)
(* The steps.                                                              *)
(***************************************************************************)

\* The columns of a request.
LEMMA Fields ==
  ASSUME IInv, NEW r \in Request
  PROVE  /\ req[r] \in Req /\ req[r].keys \in SUBSET Perm
         /\ Running(r) => req[r].actor \in User /\ req[r].role \in Role
         /\ deleted[r] \subseteq rows
<1>1. req[r] \in Req /\ roles \subseteq Role
  BY DEF IInv, TypeOK
<1>2. Running(r) => req[r].actor \in User /\ req[r].role \in roles
  BY DEF IInv, RequestsAgree
<1>3. deleted[r] \subseteq rows
  BY DEF IInv, WritesAgree
<1> QED  BY <1>1, <1>2, <1>3 DEF Req

\* A request that ends leaves what the others know, and nothing of its own.
LEMMA EndKeeps ==
  ASSUME IInv, NEW r \in Request, End(r), UNCHANGED roles
  PROVE  RequestsAgree'
<1>1. /\ req'[r].pc = "idle"
      /\ \A o \in Request : o # r => req'[o] = req[o]
  BY EndFacts, IdleRequest DEF IInv
<1> QED  BY <1>1 DEF IInv, RequestsAgree, Running

\* A rollback.
LEMMA FailStep ==
  ASSUME IInv, NEW r \in Request, Fail(r)
  PROVE  IInv'
<1>1. End(r) /\ UNCHANGED <<roles, rows, nextTx>>
  BY DEF Fail
<1>2. /\ req' \in [Request -> Req] /\ deleted' \in [Request -> SUBSET Row]
      /\ inserted' \in [Request -> SUBSET Row]
      /\ req'[r].pc = "idle" /\ req'[r].seen = {} /\ req'[r].old = {}
      /\ deleted'[r] = {} /\ inserted'[r] = {}
      /\ \A o \in Request : o # r => /\ req'[o] = req[o]
                                     /\ deleted'[o] = deleted[o]
                                     /\ inserted'[o] = inserted[o]
  BY <1>1, EndFacts, IdleRequest DEF IInv
<1>3. TypeOK'
  BY <1>1, <1>2 DEF IInv, TypeOK, Running
<1>4. RequestsAgree' /\ SeenAgrees'
  BY <1>1, <1>2, EndKeeps DEF IInv, SeenAgrees
<1>5. WritesAgree'
  <2> SUFFICES ASSUME NEW o \in Request
               PROVE  /\ \A x \in deleted'[o] : x \in rows' /\ x.role = req'[o].role
                      /\ deleted'[o] # {} => req'[o].pc \in {"insert", "commit"}
                      /\ inserted'[o] = IF req'[o].pc = "commit"
                                          THEN RowsAsked(req'[o]) ELSE {}
    BY DEF WritesAgree
  <2>1. CASE o = r
    BY <1>2, <2>1
  <2>2. CASE o # r
    BY <1>1, <1>2, <2>2 DEF IInv, WritesAgree
  <2> QED  BY <2>1, <2>2
<1>6. WritesApart'
  BY <1>1, <1>2 DEF IInv, WritesApart
<1>7. AloneDeletesAll'
  <2>1. \A x \in Role : RowsOf(x)' = RowsOf(x)
    BY <1>1 DEF RowsOf
  <2> QED  BY <1>2, <2>1 DEF IInv, AloneDeletesAll, Running
<1>8. ActorsHave'
  <2>1. \A u \in User : Effective(u)' = Effective(u)
    BY <1>1 DEF Effective, Held, RowsOf
  <2> QED  BY <1>2, <2>1 DEF IInv, ActorsHave, Running
<1>9. OneRowPerKey' /\ OnlyOwnersDelegate'
  BY <1>1 DEF IInv, OneRowPerKey, OnlyOwnersDelegate
<1>10. NumbersApart'
  BY <1>1, <1>2 DEF IInv, NumbersApart, Running
<1>11. OldAreDeleted'
  BY <1>1, <1>2 DEF IInv, OldAreDeleted
<1> QED  BY <1>3, <1>4, <1>5, <1>6, <1>7, <1>8, <1>9, <1>10, <1>11 DEF IInv

\* A step of r that writes no table.
LEMMA RequestMoves ==
  ASSUME IInv, NEW r \in Request, Running(r),
         UNCHANGED <<roles, rows, nextTx>>,
         NEW q \in Req, req' = [req EXCEPT ![r] = q],
         q.pc # "idle", q.actor = req[r].actor, q.role = req[r].role,
         q.keys = req[r].keys, q.beside = req[r].beside,
         q.tx = req[r].tx, q.old = req[r].old
  PROVE  /\ RequestsAgree' /\ ActorsHave' /\ OneRowPerKey' /\ OnlyOwnersDelegate'
         /\ NumbersApart'
         /\ req' \in [Request -> Req] /\ req'[r] = q
         /\ \A o \in Request : o # r => req'[o] = req[o]
         /\ \A o \in Request : Running(o)' <=> Running(o)
         /\ \A x \in Role : RowsOf(x)' = RowsOf(x)
<1>1. /\ req' \in [Request -> Req] /\ req'[r] = q
      /\ \A o \in Request : o # r => req'[o] = req[o]
  BY DEF IInv, TypeOK
<1>2. \A o \in Request : Running(o)' <=> Running(o)
  BY <1>1 DEF Running
<1>3. \A o \in Request : /\ req'[o].actor = req[o].actor /\ req'[o].role = req[o].role
                         /\ req'[o].keys = req[o].keys /\ req'[o].beside = req[o].beside
                         /\ req'[o].tx = req[o].tx /\ req'[o].old = req[o].old
  BY <1>1
<1>4. RequestsAgree'
  BY <1>2, <1>3 DEF IInv, RequestsAgree
<1>5. ActorsHave'
  <2>1. \A u \in User : Effective(u)' = Effective(u)
    BY DEF Effective, Held, RowsOf
  <2> QED  BY <1>2, <1>3, <2>1 DEF IInv, ActorsHave
<1>6. OneRowPerKey' /\ OnlyOwnersDelegate'
  BY DEF IInv, OneRowPerKey, OnlyOwnersDelegate
<1>7. \A x \in Role : RowsOf(x)' = RowsOf(x)
  BY DEF RowsOf
<1>8. NumbersApart'
  BY <1>2, <1>3 DEF IInv, NumbersApart
<1> QED  BY <1>1, <1>2, <1>4, <1>5, <1>6, <1>7, <1>8

\* DELETE takes its snapshot.
LEMMA DeleteSnapshotStep ==
  ASSUME IInv, NEW r \in Request, DeleteSnapshot(r)
  PROVE  IInv'
<1> DEFINE q == [req[r] EXCEPT !.pc = "wait", !.seen = RowsOf(req[r].role)]
<1>1. /\ req[r].pc = "delete" /\ Running(r)
      /\ req' = [req EXCEPT ![r] = q]
      /\ UNCHANGED <<roles, rows, deleted, inserted, nextTx>>
  BY DEF DeleteSnapshot, Running
<1>2. RowsOf(req[r].role) \subseteq Row
  BY DEF RowsOf, IInv, TypeOK
<1>3. /\ q \in Req /\ q.pc = "wait" /\ q.actor = req[r].actor /\ q.role = req[r].role
      /\ q.keys = req[r].keys /\ q.beside = req[r].beside
      /\ q.tx = req[r].tx /\ q.old = req[r].old
      /\ q.seen = RowsOf(req[r].role)
  BY <1>2, Fields DEF Req
<1> HIDE DEF q
<1>4. /\ RequestsAgree' /\ ActorsHave' /\ OneRowPerKey' /\ OnlyOwnersDelegate'
      /\ NumbersApart'
      /\ req' \in [Request -> Req] /\ req'[r] = q
      /\ \A o \in Request : o # r => req'[o] = req[o]
      /\ \A o \in Request : Running(o)' <=> Running(o)
      /\ \A x \in Role : RowsOf(x)' = RowsOf(x)
  BY <1>1, <1>3, RequestMoves
<1>5. TypeOK'
  BY <1>1, <1>4 DEF IInv, TypeOK
<1>6. SeenAgrees' /\ WritesAgree'
  BY <1>1, <1>3, <1>4 DEF IInv, SeenAgrees, WritesAgree, RowsOf
<1>7. WritesApart'
  BY <1>1 DEF IInv, WritesApart
<1>8. AloneDeletesAll'
  BY <1>1, <1>3, <1>4 DEF IInv, AloneDeletesAll
<1>9. OldAreDeleted'
  <2>1. \A x \in req[r].old : x.role = req[r].role
    BY DEF IInv, OldAreDeleted
  <2>2. req[r].old \cap rows \subseteq RowsOf(req[r].role)
    BY <2>1 DEF RowsOf
  <2> QED  BY <1>1, <1>3, <1>4, <2>1, <2>2 DEF IInv, OldAreDeleted
<1> QED  BY <1>4, <1>5, <1>6, <1>7, <1>8, <1>9 DEF IInv

\* DELETE deletes the rows of its snapshot that are left.
LEMMA DeleteRowsStep ==
  ASSUME IInv, NEW r \in Request, DeleteRows(r)
  PROVE  IInv'
<1> DEFINE q == [req[r] EXCEPT !.pc = "insert", !.seen = {}]
           gone == req[r].seen \cap rows
<1>1. /\ req[r].pc = "wait" /\ Running(r)
      /\ req' = [req EXCEPT ![r] = q]
      /\ deleted' = [deleted EXCEPT ![r] = gone]
      /\ \A o \in Request \ {r} : deleted[o] \cap req[r].seen = {}
      /\ UNCHANGED <<roles, rows, inserted, nextTx>>
  BY DEF DeleteRows, Running
<1>2. /\ q \in Req /\ q.pc = "insert" /\ q.seen = {} /\ q.actor = req[r].actor /\ q.role = req[r].role
      /\ q.keys = req[r].keys /\ q.beside = req[r].beside
      /\ q.tx = req[r].tx /\ q.old = req[r].old
  BY Fields DEF Req
<1> HIDE DEF q
<1>3. /\ RequestsAgree' /\ ActorsHave' /\ OneRowPerKey' /\ OnlyOwnersDelegate'
      /\ NumbersApart'
      /\ req' \in [Request -> Req] /\ req'[r] = q
      /\ \A o \in Request : o # r => req'[o] = req[o]
      /\ \A o \in Request : Running(o)' <=> Running(o)
      /\ \A x \in Role : RowsOf(x)' = RowsOf(x)
  BY <1>1, <1>2, RequestMoves
<1>4. /\ deleted' \in [Request -> SUBSET Row] /\ deleted'[r] = gone
      /\ \A o \in Request : o # r => deleted'[o] = deleted[o]
  BY <1>1 DEF IInv, TypeOK
<1>5. TypeOK'
  BY <1>1, <1>3, <1>4 DEF IInv, TypeOK
<1>6. SeenAgrees' /\ WritesAgree'
  <2>1. \A x \in gone : x \in rows /\ x.role = req[r].role
    BY <1>1 DEF IInv, SeenAgrees
  <2> QED  BY <1>1, <1>2, <1>3, <1>4, <2>1 DEF IInv, SeenAgrees, WritesAgree
<1>7. WritesApart'
  <2>1. inserted[r] = {}
    BY <1>1 DEF IInv, WritesAgree
  <2>2. ASSUME NEW o \in Request, NEW p \in Request, o # p, NEW x \in deleted'[o]
        PROVE  x \notin deleted'[p]
    BY <1>1, <1>4, <2>2 DEF IInv, WritesApart
  <2>3. ASSUME NEW o \in Request, NEW x \in inserted[o], NEW y \in rows, SameKey(x, y)
        PROVE  y \in deleted'[o]
    BY <1>4, <2>1, <2>3 DEF IInv, WritesApart
  <2> QED  BY <1>1, <2>2, <2>3 DEF IInv, WritesApart
<1>8. AloneDeletesAll'
  <2> SUFFICES ASSUME NEW o \in Request, NEW x \in Role, Running(o)',
                      req'[o].role = x, x \notin req'[o].beside
               PROVE  /\ req'[o].pc = "wait" => req'[o].seen = RowsOf(x)'
                      /\ req'[o].pc \in {"insert", "commit"} => deleted'[o] = RowsOf(x)'
    BY DEF AloneDeletesAll
  <2>1. CASE o = r
    <3>1. req[r].seen = RowsOf(x)
      BY <1>1, <1>2, <1>3, <2>1 DEF IInv, AloneDeletesAll
    <3>2. deleted'[r] = RowsOf(x)
      BY <1>4, <3>1 DEF RowsOf
    <3> QED  BY <1>2, <1>3, <2>1, <3>2
  <2>2. CASE o # r
    BY <1>3, <1>4, <2>2 DEF IInv, AloneDeletesAll
  <2> QED  BY <2>1, <2>2
<1>9. OldAreDeleted'
  <2>1. req[r].old \cap rows \subseteq gone
    BY <1>1 DEF IInv, OldAreDeleted
  <2> QED  BY <1>1, <1>2, <1>3, <1>4, <2>1 DEF IInv, OldAreDeleted
<1> QED  BY <1>3, <1>5, <1>6, <1>7, <1>8, <1>9 DEF IInv

\* INSERT writes the rows asked for; their keys are free.
LEMMA InsertRowsStep ==
  ASSUME IInv, NEW r \in Request, InsertRows(r)
  PROVE  IInv'
<1> DEFINE q == [req[r] EXCEPT !.pc = "commit"]
           new == RowsAsked(req[r])
<1>1. /\ req[r].pc = "insert" /\ Running(r)
      /\ req' = [req EXCEPT ![r] = q]
      /\ inserted' = [inserted EXCEPT ![r] = new]
      /\ UNCHANGED <<roles, rows, deleted, nextTx>>
  BY DEF InsertRows, Running
<1>2. /\ \A o \in Request \ {r} : \A y \in inserted[o] :
           y.role = req[r].role => y.perm \notin req[r].keys
      /\ \A y \in rows : y.role = req[r].role /\ y.perm \in req[r].keys => y \in deleted[r]
  BY DEF InsertRows, KeysIn
<1>3. /\ q \in Req /\ q.pc = "commit" /\ q.actor = req[r].actor /\ q.role = req[r].role
      /\ q.keys = req[r].keys /\ q.beside = req[r].beside /\ RowsAsked(q) = new
      /\ q.seen = req[r].seen /\ q.tx = req[r].tx /\ q.old = req[r].old
  BY Fields DEF Req, RowsAsked
<1>4. /\ new \subseteq Row
      /\ \A x \in new : x.role = req[r].role /\ x.perm \in req[r].keys
  BY <1>1, Fields, AskedRows
<1> HIDE DEF q, new
<1>5. /\ RequestsAgree' /\ ActorsHave' /\ OneRowPerKey' /\ OnlyOwnersDelegate'
      /\ NumbersApart'
      /\ req' \in [Request -> Req] /\ req'[r] = q
      /\ \A o \in Request : o # r => req'[o] = req[o]
      /\ \A o \in Request : Running(o)' <=> Running(o)
      /\ \A x \in Role : RowsOf(x)' = RowsOf(x)
  BY <1>1, <1>3, RequestMoves
<1>6. /\ inserted' \in [Request -> SUBSET Row] /\ inserted'[r] = new
      /\ \A o \in Request : o # r => inserted'[o] = inserted[o]
  BY <1>1, <1>4 DEF IInv, TypeOK
<1>7. TypeOK'
  BY <1>1, <1>5, <1>6 DEF IInv, TypeOK
<1>8. SeenAgrees'
  BY <1>3, <1>5 DEF IInv, SeenAgrees
<1>9. WritesAgree'
  <2> SUFFICES ASSUME NEW o \in Request
               PROVE  /\ \A x \in deleted'[o] : x \in rows' /\ x.role = req'[o].role
                      /\ deleted'[o] # {} => req'[o].pc \in {"insert", "commit"}
                      /\ inserted'[o] = IF req'[o].pc = "commit"
                                          THEN RowsAsked(req'[o]) ELSE {}
    BY DEF WritesAgree
  <2>1. CASE o = r
    BY <1>1, <1>3, <1>5, <1>6, <2>1 DEF IInv, WritesAgree
  <2>2. CASE o # r
    BY <1>1, <1>5, <1>6, <2>2 DEF IInv, WritesAgree
  <2> QED  BY <2>1, <2>2
<1>10. WritesApart'
  <2>1. ASSUME NEW o \in Request, NEW p \in Request, o # p,
               NEW x \in inserted'[o], NEW y \in inserted'[p]
        PROVE  ~SameKey(x, y)
    BY <1>2, <1>4, <1>6, <2>1 DEF IInv, WritesApart, SameKey
  <2>2. ASSUME NEW o \in Request, NEW x \in inserted'[o], NEW y \in rows, SameKey(x, y)
        PROVE  y \in deleted[o]
    BY <1>2, <1>4, <1>6, <2>2 DEF IInv, WritesApart, SameKey
  <2>3. \A o, p \in Request : o # p => \A x \in deleted[o] : x \notin deleted[p]
    BY DEF IInv, WritesApart
  <2> QED  BY <1>1, <2>1, <2>2, <2>3 DEF WritesApart
<1>11. AloneDeletesAll'
  BY <1>1, <1>3, <1>5 DEF IInv, AloneDeletesAll
<1>12. OldAreDeleted'
  BY <1>1, <1>3, <1>5 DEF IInv, OldAreDeleted
<1> QED  BY <1>5, <1>7, <1>8, <1>9, <1>10, <1>11, <1>12 DEF IInv

\* A PUT begins.
LEMMA AuthorizeStep ==
  ASSUME IInv, NEW r \in Request, NEW actor \in User, NEW role \in Role,
         NEW keys \in SUBSET Perm, Authorize(r, actor, role, keys)
  PROVE  IInv'
<1> DEFINE others == {req[x].role : x \in {x \in Request : Running(x)}}
           q == [pc |-> "delete", actor |-> actor, role |-> role, keys |-> keys,
                 tx |-> nextTx, seen |-> {}, old |-> RowsOf(role), beside |-> others]
<1>1. /\ ~Running(r) /\ role \in roles /\ MayGive(actor, keys)
      /\ req' = [p \in Request |->
                   IF p = r THEN q
                   ELSE IF Running(p) THEN [req[p] EXCEPT !.beside = @ \cup {role}]
                   ELSE req[p]]
      /\ nextTx' = nextTx + 1 /\ UNCHANGED <<roles, rows, deleted, inserted>>
  BY DEF Authorize
<1>2. q \in Req
  <2>1. others \subseteq Role
    BY Fields
  <2>2. RowsOf(role) \subseteq Row
    BY DEF RowsOf, IInv, TypeOK
  <2> QED  BY <2>1, <2>2 DEF Req, IInv, TypeOK
<1>3. req'[r] = q
  BY <1>1
<1>4. /\ q.pc = "delete" /\ q.actor = actor /\ q.role = role /\ q.keys = keys
      /\ q.seen = {} /\ q.tx = nextTx /\ q.old = RowsOf(role)
      /\ \A o \in Request : Running(o) => req[o].role \in q.beside
  OBVIOUS
<1> HIDE DEF q
<1>5. \A o \in Request : o # r =>
        /\ req'[o] \in Req
        /\ req'[o].pc = req[o].pc /\ req'[o].actor = req[o].actor
        /\ req'[o].role = req[o].role /\ req'[o].keys = req[o].keys
        /\ req'[o].seen = req[o].seen /\ req'[o].tx = req[o].tx
        /\ req'[o].old = req[o].old
        /\ req[o].beside \subseteq req'[o].beside
        /\ Running(o) => role \in req'[o].beside
  <2> SUFFICES ASSUME NEW o \in Request, o # r
               PROVE  /\ req'[o] \in Req
                      /\ req'[o].pc = req[o].pc /\ req'[o].actor = req[o].actor
                      /\ req'[o].role = req[o].role /\ req'[o].keys = req[o].keys
                      /\ req'[o].seen = req[o].seen /\ req'[o].tx = req[o].tx
                      /\ req'[o].old = req[o].old
                      /\ req[o].beside \subseteq req'[o].beside
                      /\ Running(o) => role \in req'[o].beside
    OBVIOUS
  <2>1. req[o] \in Req
    BY Fields
  <2>2. CASE Running(o)
    <3>1. req'[o] = [req[o] EXCEPT !.beside = @ \cup {role}]
      BY <1>1, <2>2
    <3> QED  BY <2>1, <3>1 DEF Req
  <2>3. CASE ~Running(o)
    <3>1. req'[o] = req[o]
      BY <1>1, <2>3
    <3> QED  BY <2>1, <2>3, <3>1
  <2> QED  BY <2>2, <2>3
<1>6. Running(r)' /\ \A o \in Request : o # r => (Running(o)' <=> Running(o))
  BY <1>3, <1>4, <1>5 DEF Running
<1>7. deleted[r] = {} /\ inserted[r] = {}
  BY <1>1 DEF IInv, TypeOK
<1>8. TypeOK'
  <2>1. req' \in [Request -> Req]
    BY <1>1, <1>2, <1>3, <1>5
  <2> QED  BY <1>1, <1>6, <2>1 DEF IInv, TypeOK
<1>9. RequestsAgree'
  <2>1. \A u \in User : HasSystemRole(u) \/ RoleOf[u] \in roles
    BY DEF IInv, RequestsAgree
  <2>2. IsOwner(actor) \/ keys \cap OwnerOnly = {}
    BY <1>1 DEF MayGive
  <2> SUFFICES ASSUME NEW p \in Request, Running(p)'
               PROVE  /\ req'[p].actor \in User /\ req'[p].role \in roles'
                      /\ IsOwner(req'[p].actor) \/ req'[p].keys \cap OwnerOnly = {}
                      /\ \A o \in Request : o # p /\ Running(o)' =>
                           req'[o].role \in req'[p].beside
    BY <1>1, <2>1 DEF RequestsAgree
  <2>3. CASE p = r
    BY <1>1, <1>3, <1>4, <1>5, <1>6, <2>2, <2>3
  <2>4. CASE p # r
    <3>1. Running(p)
      BY <1>6, <2>4
    <3>2. /\ req[p].actor \in User /\ req[p].role \in roles
          /\ IsOwner(req[p].actor) \/ req[p].keys \cap OwnerOnly = {}
          /\ \A o \in Request : o # p /\ Running(o) => req[o].role \in req[p].beside
      BY <3>1 DEF IInv, RequestsAgree
    <3>3. ASSUME NEW o \in Request, o # p, Running(o)'
          PROVE  req'[o].role \in req'[p].beside
      BY <1>3, <1>4, <1>5, <1>6, <2>4, <3>1, <3>2, <3>3
    <3> QED  BY <1>1, <1>5, <2>4, <3>2, <3>3
  <2> QED  BY <2>3, <2>4
<1>10. SeenAgrees'
  BY <1>3, <1>4, <1>5 DEF IInv, SeenAgrees
<1>11. WritesAgree'
  <2> SUFFICES ASSUME NEW o \in Request
               PROVE  /\ \A x \in deleted'[o] : x \in rows' /\ x.role = req'[o].role
                      /\ deleted'[o] # {} => req'[o].pc \in {"insert", "commit"}
                      /\ inserted'[o] = IF req'[o].pc = "commit"
                                          THEN RowsAsked(req'[o]) ELSE {}
    BY DEF WritesAgree
  <2>1. CASE o = r
    BY <1>1, <1>3, <1>4, <1>7, <2>1
  <2>2. CASE o # r
    <3>1. RowsAsked(req'[o]) = RowsAsked(req[o])
      BY <1>5, <2>2 DEF RowsAsked
    <3> QED  BY <1>1, <1>5, <2>2, <3>1 DEF IInv, WritesAgree
  <2> QED  BY <2>1, <2>2
<1>12. WritesApart' /\ OneRowPerKey' /\ OnlyOwnersDelegate'
  BY <1>1 DEF IInv, WritesApart, OneRowPerKey, OnlyOwnersDelegate
<1>13. AloneDeletesAll'
  <2>1. \A x \in Role : RowsOf(x)' = RowsOf(x)
    BY <1>1 DEF RowsOf
  <2> QED  BY <1>1, <1>3, <1>4, <1>5, <1>6, <2>1 DEF IInv, AloneDeletesAll
<1>14. ActorsHave'
  <2>1. \A u \in User : Effective(u)' = Effective(u)
    BY <1>1 DEF Effective, Held, RowsOf
  <2>2. ~IsOwner(actor) => keys \subseteq Effective(actor)
    BY <1>1 DEF MayGive
  <2> SUFFICES ASSUME NEW p \in Request, NEW u \in User, Running(p)',
                      req'[p].actor = u, ~IsOwner(u), RoleOf[u] \notin req'[p].beside
               PROVE  req'[p].keys \subseteq Effective(u)'
    BY DEF ActorsHave
  <2>3. CASE p = r
    BY <1>3, <1>4, <2>1, <2>2, <2>3
  <2>4. CASE p # r
    BY <1>5, <1>6, <2>1, <2>4 DEF IInv, ActorsHave
  <2> QED  BY <2>3, <2>4
<1>15. \A x \in RowsOf(role) : x \in rows /\ x.role = role
  BY DEF RowsOf
<1>16. NumbersApart'
  <2>1. \A p \in Request : \A x \in rows \cup req[p].old : x.tx \in Nat /\ x.tx < nextTx
    BY Fields DEF IInv, NumbersApart, TypeOK, Row, Req
  <2>2. /\ nextTx \in Nat /\ nextTx' = nextTx + 1 /\ nextTx < nextTx'
        /\ \A n \in Nat : n < nextTx => n < nextTx' /\ n # nextTx
    BY <1>1 DEF IInv, TypeOK
  <2>3. \A p \in Request : Running(p) => req[p].tx \in Nat /\ req[p].tx < nextTx
    BY Fields DEF IInv, NumbersApart, Req
  <2>4. ASSUME NEW p \in Request, NEW x \in rows' \cup req'[p].old
        PROVE  /\ x.tx < nextTx'
               /\ \A o \in Request : Running(o)' => x.tx # req'[o].tx
    <3>1. x \in rows \cup req[p].old
      BY <1>1, <1>3, <1>4, <1>5, <1>15, <2>4
    <3>2. x.tx \in Nat /\ x.tx < nextTx
      BY <2>1, <3>1
    <3>3. ASSUME NEW o \in Request, Running(o)'
          PROVE  x.tx # req'[o].tx
      <4>1. CASE o = r
        BY <1>3, <1>4, <2>2, <3>2, <4>1
      <4>2. CASE o # r
        BY <1>5, <1>6, <3>1, <3>3, <4>2 DEF IInv, NumbersApart
      <4> QED  BY <4>1, <4>2
    <3> QED  BY <2>2, <3>2, <3>3
  <2>5. ASSUME NEW p \in Request, NEW o \in Request, Running(p)'
        PROVE  /\ req'[p].tx < nextTx'
               /\ o # p /\ Running(o)' => req'[o].tx # req'[p].tx
    <3>1. \A a \in Request : a # r /\ Running(a)' =>
            /\ req'[a].tx = req[a].tx /\ req[a].tx < nextTx
            /\ req[a].tx < nextTx' /\ req[a].tx # nextTx
      BY <1>5, <1>6, <2>2, <2>3
    <3>2. req'[r].tx = nextTx
      BY <1>3, <1>4
    <3>3. req'[p].tx < nextTx'
      BY <2>2, <2>5, <3>1, <3>2
    <3>4. ASSUME o # p, Running(o)'
          PROVE  req'[o].tx # req'[p].tx
      <4>1. CASE o = r \/ p = r
        BY <2>5, <3>1, <3>2, <3>4, <4>1
      <4>2. CASE o # r /\ p # r
        BY <1>6, <2>5, <3>1, <3>4, <4>2 DEF IInv, NumbersApart
      <4> QED  BY <4>1, <4>2
    <3> QED  BY <3>3, <3>4
  <2> QED  BY <2>4, <2>5 DEF NumbersApart
<1>17. OldAreDeleted'
  BY <1>1, <1>3, <1>4, <1>5, <1>15 DEF IInv, OldAreDeleted
<1> QED  BY <1>8, <1>9, <1>10, <1>11, <1>12, <1>13, <1>14, <1>16, <1>17 DEF IInv

\* A role is created: the table gains rows of a role that had none.
LEMMA CreateRoleStep ==
  ASSUME IInv, NEW actor \in User, NEW role \in Role,
         NEW keys \in SUBSET Perm, CreateRole(actor, role, keys)
  PROVE  IInv'
<1> DEFINE F(p) == [role |-> role, perm |-> p, tx |-> nextTx, by |-> actor]
           new == {F(p) : p \in keys}
<1>1. /\ role \notin roles /\ MayGive(actor, keys)
      /\ roles' = roles \cup {role} /\ rows' = rows \cup new
      /\ nextTx' = nextTx + 1 /\ UNCHANGED <<req, deleted, inserted>>
  BY DEF CreateRole, InsertRole
<1>2. nextTx \in Nat /\ roles \subseteq Role /\ rows \subseteq Row
  BY DEF IInv, TypeOK
<1>3. \A x \in new : /\ x \in Row /\ x.role = role /\ x.by = actor /\ x.perm \in keys
                     /\ x = F(x.perm) /\ x.tx = nextTx
  BY <1>2 DEF Row
<1> HIDE DEF new, F
<1>4. \A x \in rows : x.role \in roles /\ x.role # role
  BY <1>1 DEF IInv, OneRowPerKey
<1>5. \A r \in Request : Running(r) => req[r].role \in roles /\ req[r].role # role
  BY <1>1 DEF IInv, RequestsAgree
<1>6. TypeOK'
  BY <1>1, <1>2, <1>3 DEF IInv, TypeOK, Running
<1>7. RequestsAgree' /\ SeenAgrees'
  BY <1>1 DEF IInv, RequestsAgree, SeenAgrees, Running
<1>8. WritesAgree'
  BY <1>1 DEF IInv, WritesAgree
<1>9. WritesApart'
  <2>1. ASSUME NEW r \in Request, NEW x \in inserted[r], NEW y \in rows', SameKey(x, y)
        PROVE  y \in deleted[r]
    <3>1. Running(r) /\ req[r].pc = "commit"
      BY DEF IInv, TypeOK, WritesAgree
    <3>2. x.role = req[r].role
      BY <3>1, Fields, AskedRows DEF IInv, WritesAgree
    <3>3. y \in rows
      BY <1>1, <1>3, <1>5, <2>1, <3>1, <3>2 DEF SameKey
    <3> QED  BY <2>1, <3>3 DEF IInv, WritesApart
  <2> QED  BY <1>1, <2>1 DEF IInv, WritesApart
<1>10. \A x \in roles : RowsOf(x)' = RowsOf(x)
  BY <1>1, <1>3 DEF RowsOf
<1>11. AloneDeletesAll'
  BY <1>1, <1>5, <1>10 DEF IInv, AloneDeletesAll, Running
<1>12. ActorsHave'
  <2>1. ASSUME NEW u \in User
        PROVE  Effective(u)' = Effective(u)
    <3>1. CASE HasSystemRole(u)
      BY <3>1 DEF Effective
    <3>2. CASE ~HasSystemRole(u)
      <4>1. RoleOf[u] \in roles
        BY <3>2 DEF IInv, RequestsAgree
      <4>2. RowsOf(RoleOf[u])' = RowsOf(RoleOf[u])
        BY <1>10, <4>1
      <4>3. Held(RoleOf[u])' = Held(RoleOf[u])
        BY <4>2 DEF Held
      <4> QED  BY <4>3 DEF Effective
    <3> QED  BY <3>1, <3>2
  <2> QED  BY <1>1, <2>1 DEF IInv, ActorsHave, Running
<1>13. OneRowPerKey'
  <2>1. ASSUME NEW x \in rows', NEW y \in rows', x.role = y.role, x.perm = y.perm
        PROVE  x = y
    BY <1>1, <1>3, <1>4, <2>1 DEF IInv, OneRowPerKey
  <2> QED  BY <1>1, <1>3, <1>4, <2>1 DEF OneRowPerKey
<1>14. OnlyOwnersDelegate'
  <2>1. IsOwner(actor) \/ keys \cap OwnerOnly = {}
    BY <1>1 DEF MayGive
  <2> QED  BY <1>1, <1>3, <2>1 DEF IInv, OnlyOwnersDelegate
<1>15. NumbersApart'
  <2>1. /\ nextTx < nextTx' /\ \A n \in Nat : n < nextTx => n < nextTx' /\ n # nextTx
    BY <1>1, <1>2
  <2>2. \A r \in Request : \A x \in rows \cup req[r].old : x.tx \in Nat /\ x.tx < nextTx
    BY Fields DEF IInv, NumbersApart, TypeOK, Row, Req
  <2>3. \A r \in Request : Running(r) => req[r].tx \in Nat /\ req[r].tx < nextTx
    BY Fields DEF IInv, NumbersApart, Req
  <2>4. ASSUME NEW r \in Request, NEW x \in rows' \cup req[r].old
        PROVE  /\ x.tx < nextTx'
               /\ \A o \in Request : Running(o) => x.tx # req[o].tx
    <3>1. CASE x \in new
      BY <1>3, <2>1, <2>3, <3>1
    <3>2. CASE x \in rows \cup req[r].old
      BY <2>1, <2>2, <3>2 DEF IInv, NumbersApart
    <3> QED  BY <1>1, <2>4, <3>1, <3>2
  <2> QED  BY <1>1, <2>1, <2>3, <2>4 DEF IInv, NumbersApart, Running
<1>16. OldAreDeleted'
  <2>1. \A r \in Request : \A x \in req[r].old : x.tx \in Nat /\ x.tx < nextTx
    BY Fields DEF IInv, NumbersApart, Row, Req
  <2>2. \A r \in Request : \A x \in req[r].old : x \notin new
    BY <1>2, <1>3, <2>1
  <2>3. \A r \in Request : req[r].old \cap rows' = req[r].old \cap rows
    BY <1>1, <2>2
  <2> QED  BY <1>1, <2>3 DEF IInv, OldAreDeleted
<1> QED  BY <1>6, <1>7, <1>8, <1>9, <1>11, <1>12, <1>13, <1>14, <1>15, <1>16 DEF IInv

\* What a commit does to the table: the rows deleted go, the rows asked for
\* come, and both are rows of the role.
LEMMA CommitFacts ==
  ASSUME IInv, NEW r \in Request, Commit(r)
  PROVE  /\ req[r].pc = "commit" /\ Running(r) /\ req[r].role \in Role
         /\ rows' = (rows \ deleted[r]) \cup inserted[r]
         /\ inserted[r] = RowsAsked(req[r]) /\ inserted[r] \subseteq Row
         /\ \A x \in inserted[r] : /\ x.role = req[r].role /\ x.by = req[r].actor
                                   /\ x.perm \in req[r].keys /\ x.tx = req[r].tx
         /\ \A x \in deleted[r] : x.role = req[r].role
         /\ \A p \in req[r].keys : \E x \in inserted[r] : x.perm = p
         /\ \A x, y \in inserted[r] : SameKey(x, y) => x = y
         /\ \A x \in Role : x # req[r].role => RowsOf(x)' = RowsOf(x)
<1>1. /\ req[r].pc = "commit" /\ Running(r)
      /\ rows' = (rows \ deleted[r]) \cup inserted[r]
  BY DEF Commit, Running
<1>2. /\ req[r] \in Req /\ req[r].actor \in User /\ req[r].role \in Role
  BY <1>1, Fields
<1>3. /\ inserted[r] = RowsAsked(req[r])
      /\ \A x \in deleted[r] : x.role = req[r].role
  BY <1>1 DEF IInv, WritesAgree
<1>4. /\ inserted[r] \subseteq Row
      /\ \A x \in inserted[r] : /\ x.role = req[r].role /\ x.by = req[r].actor
                                /\ x.perm \in req[r].keys /\ x.tx = req[r].tx
      /\ \A p \in req[r].keys : \E x \in inserted[r] : x.perm = p
      /\ \A x, y \in inserted[r] : SameKey(x, y) => x = y
  BY <1>2, <1>3, AskedRows
<1>5. ASSUME NEW x \in Role, x # req[r].role
      PROVE  RowsOf(x)' = RowsOf(x)
  <2>1. \A y : y \in rows' /\ y.role = x <=> y \in rows /\ y.role = x
    BY <1>1, <1>3, <1>4, <1>5
  <2> QED  BY <2>1 DEF RowsOf
<1> QED  BY <1>1, <1>2, <1>3, <1>4, <1>5

\* A commit.
LEMMA CommitStep ==
  ASSUME IInv, NEW r \in Request, Commit(r)
  PROVE  IInv'
<1>1. End(r) /\ UNCHANGED <<roles, nextTx>>
  BY DEF Commit
<1>2. /\ req' \in [Request -> Req] /\ deleted' \in [Request -> SUBSET Row]
      /\ inserted' \in [Request -> SUBSET Row]
      /\ req'[r].pc = "idle" /\ req'[r].seen = {} /\ req'[r].old = {}
      /\ deleted'[r] = {} /\ inserted'[r] = {}
      /\ \A o \in Request : o # r => /\ req'[o] = req[o]
                                     /\ deleted'[o] = deleted[o]
                                     /\ inserted'[o] = inserted[o]
  BY <1>1, EndFacts, IdleRequest DEF IInv
<1>3. /\ rows' = (rows \ deleted[r]) \cup inserted[r]
      /\ Running(r) /\ inserted[r] \subseteq Row
      /\ \A x \in inserted[r] : /\ x.role = req[r].role /\ x.by = req[r].actor
                                /\ x.perm \in req[r].keys /\ x.tx = req[r].tx
      /\ \A x, y \in inserted[r] : SameKey(x, y) => x = y
      /\ \A x \in Role : x # req[r].role => RowsOf(x)' = RowsOf(x)
  BY CommitFacts
<1>4. \A o \in Request : Running(o)' => o # r /\ Running(o)
  BY <1>2 DEF Running
<1>5. TypeOK'
  BY <1>1, <1>2, <1>3 DEF IInv, TypeOK, Running
<1>6. RequestsAgree' /\ SeenAgrees'
  BY <1>1, <1>2, EndKeeps DEF IInv, SeenAgrees
<1>7. WritesAgree'
  <2> SUFFICES ASSUME NEW o \in Request
               PROVE  /\ \A x \in deleted'[o] : x \in rows' /\ x.role = req'[o].role
                      /\ deleted'[o] # {} => req'[o].pc \in {"insert", "commit"}
                      /\ inserted'[o] = IF req'[o].pc = "commit"
                                          THEN RowsAsked(req'[o]) ELSE {}
    BY DEF WritesAgree
  <2>1. CASE o = r
    BY <1>2, <2>1
  <2>2. CASE o # r
    <3>1. \A x \in deleted[o] : x \in rows /\ x \notin deleted[r]
      BY <2>2 DEF IInv, WritesAgree, WritesApart
    <3> QED  BY <1>2, <1>3, <2>2, <3>1 DEF IInv, WritesAgree
  <2> QED  BY <2>1, <2>2
<1>8. WritesApart'
  <2>1. ASSUME NEW o \in Request, NEW x \in inserted'[o], NEW y \in rows', SameKey(x, y)
        PROVE  y \in deleted'[o]
    BY <1>2, <1>3, <2>1 DEF IInv, WritesApart
  <2>2. \A o, p \in Request : o # p =>
          /\ \A x \in deleted'[o] : x \notin deleted'[p]
          /\ \A x \in inserted'[o], y \in inserted'[p] : ~SameKey(x, y)
    BY <1>2 DEF IInv, WritesApart
  <2> QED  BY <2>1, <2>2 DEF WritesApart
<1>9. AloneDeletesAll'
  <2> SUFFICES ASSUME NEW o \in Request, NEW x \in Role, Running(o)',
                      req'[o].role = x, x \notin req'[o].beside
               PROVE  /\ req'[o].pc = "wait" => req'[o].seen = RowsOf(x)'
                      /\ req'[o].pc \in {"insert", "commit"} => deleted'[o] = RowsOf(x)'
    BY DEF AloneDeletesAll
  <2>1. o # r /\ Running(o) /\ req'[o] = req[o] /\ deleted'[o] = deleted[o]
    BY <1>2, <1>4
  <2>2. req[r].role \in req[o].beside
    BY <1>3, <2>1 DEF IInv, RequestsAgree
  <2>3. RowsOf(x)' = RowsOf(x)
    BY <1>3, <2>1, <2>2
  <2> QED  BY <2>1, <2>3 DEF IInv, AloneDeletesAll
<1>10. ActorsHave'
  <2> SUFFICES ASSUME NEW o \in Request, NEW u \in User, Running(o)',
                      req'[o].actor = u, ~IsOwner(u), RoleOf[u] \notin req'[o].beside
               PROVE  req'[o].keys \subseteq Effective(u)'
    BY DEF ActorsHave
  <2>1. o # r /\ Running(o) /\ req'[o] = req[o]
    BY <1>2, <1>4
  <2>2. req[r].role \in req[o].beside
    BY <1>3, <2>1 DEF IInv, RequestsAgree
  <2>3. RoleOf[u] \in Role
    BY DEF IsOwner, IInv, RequestsAgree, TypeOK
  <2>4. RowsOf(RoleOf[u])' = RowsOf(RoleOf[u])
    BY <1>3, <2>1, <2>2, <2>3
  <2>5. Effective(u)' = Effective(u)
    BY <2>4 DEF Effective, Held
  <2> QED  BY <2>1, <2>5 DEF IInv, ActorsHave
<1>11. OneRowPerKey'
  <2>1. ASSUME NEW x \in rows', NEW y \in rows', SameKey(x, y)
        PROVE  x = y
    <3>1. \A a \in inserted[r], b \in rows : SameKey(a, b) => b \in deleted[r]
      BY DEF IInv, WritesApart
    <3>2. \A a, b \in rows : SameKey(a, b) => a = b
      BY DEF IInv, OneRowPerKey, SameKey
    <3>3. SameKey(y, x)
      BY <2>1 DEF SameKey
    <3> QED  BY <1>3, <2>1, <3>1, <3>2, <3>3
  <2>2. \A x \in rows' : x.role \in roles
    BY <1>3 DEF IInv, OneRowPerKey, RequestsAgree
  <2> QED  BY <1>1, <2>1, <2>2 DEF OneRowPerKey, SameKey
<1>12. OnlyOwnersDelegate'
  BY <1>3 DEF IInv, OnlyOwnersDelegate, RequestsAgree
<1>13. \A o \in Request : Running(o)' =>
         \A x \in inserted[r] : x.tx # req[o].tx /\ x \notin req[o].old
  BY <1>3, <1>4 DEF IInv, NumbersApart
<1>14. NumbersApart'
  <2>1. \A x \in inserted[r] : x.tx < nextTx
    BY <1>3 DEF IInv, NumbersApart
  <2> QED  BY <1>1, <1>2, <1>3, <1>4, <1>13, <2>1 DEF IInv, NumbersApart
<1>15. OldAreDeleted'
  <2>1. ASSUME NEW o \in Request, o # r, req[o].pc \in {"wait", "insert", "commit"}
        PROVE  req[o].old \cap rows' \subseteq req[o].old \cap rows
    <3>1. Running(o)'
      BY <1>2, <2>1 DEF Running
    <3> QED  BY <1>3, <1>13, <3>1
  <2> SUFFICES ASSUME NEW o \in Request
               PROVE  /\ \A x \in req'[o].old : x.role = req'[o].role
                      /\ req'[o].pc = "wait" => req'[o].old \cap rows' \subseteq req'[o].seen
                      /\ req'[o].pc \in {"insert", "commit"} =>
                           req'[o].old \cap rows' \subseteq deleted'[o]
    BY DEF OldAreDeleted
  <2>2. CASE o = r
    BY <1>2, <2>2
  <2>3. CASE o # r
    BY <1>2, <2>1, <2>3 DEF IInv, OldAreDeleted
  <2> QED  BY <2>2, <2>3
<1> QED  BY <1>5, <1>6, <1>7, <1>8, <1>9, <1>10, <1>11, <1>12, <1>14, <1>15 DEF IInv

(***************************************************************************)
(* Theorems.                                                               *)
(***************************************************************************)

\* Every step keeps the invariant.
LEMMA IInvStep ==
  ASSUME IInv, [Next]_vars
  PROVE  IInv'
<1>1. CASE UNCHANGED vars
  BY <1>1 DEF vars, IInv, TypeOK, RequestsAgree, SeenAgrees, WritesAgree, WritesApart,
              AloneDeletesAll, ActorsHave, NumbersApart, OldAreDeleted, OneRowPerKey, OnlyOwnersDelegate, Running,
              Effective, Held, RowsOf
<1>2. CASE Next
  BY <1>2, CreateRoleStep, AuthorizeStep, DeleteSnapshotStep, DeleteRowsStep,
     InsertRowsStep, CommitStep, FailStep DEF Next
<1> QED  BY <1>1, <1>2

\* The inductive invariant of roles and requests (set_permissions,
\* create_role) holds in every reachable state.
THEOREM Invariance == Spec => []IInv
BY InitIInv, IInvStep, PTL DEF Spec

\* role_permissions and the requests hold values of their kind.
THEOREM TypeCorrectness == Spec => []TypeOK
<1>1. IInv => TypeOK
  BY DEF IInv
<1> QED  BY Invariance, <1>1, PTL

\* However PUTs of one role overlap, no permission is in it twice.
THEOREM NoDuplicateRows == Spec => []OneRowPerKey
<1>1. IInv => OneRowPerKey
  BY DEF IInv
<1> QED  BY Invariance, <1>1, PTL

\* What only an owner delegates (_assert_no_escalation) was given by one.
THEOREM DelegationIsOwned == Spec => []OnlyOwnersDelegate
<1>1. IInv => OnlyOwnersDelegate
  BY DEF IInv
<1> QED  BY Invariance, <1>1, PTL

\* The step in which a request with something to commit ends is its commit.
LEMMA CommitsIsCommit ==
  ASSUME IInv, Next, NEW r \in Request, Commits(r)
  PROVE  Commit(r)
<1>1. req[r].pc = "commit" /\ rows' # rows /\ req'[r].pc = "idle"
  BY DEF Commits
<1>2. ASSUME NEW actor \in User, NEW role \in Role, NEW keys \in SUBSET Perm,
             CreateRole(actor, role, keys)
      PROVE  FALSE
  BY <1>1, <1>2 DEF CreateRole, InsertRole
<1>3. ASSUME NEW o \in Request, Commit(o)
      PROVE  o = r
  <2>1. End(o)
    BY <1>3 DEF Commit
  <2>2. o # r => req'[r] = req[r]
    BY <2>1, EndFacts DEF IInv
  <2> QED  BY <1>1, <2>2
<1> QED  BY <1>1, <1>2, <1>3
         DEF Next, Authorize, DeleteSnapshot, DeleteRows, InsertRows, Fail

\* A PUT that commits leaves nothing of what its role had when it began
\* (set_role_permissions: DELETE), whoever replaces the role beside it.
THEOREM OldRowsAreGone == Spec => NothingOldRemains
<1> DEFINE P == \A r \in Request : Commits(r) => req[r].old \cap rows' = {}
<1>1. IInv /\ [Next]_vars => [P]_vars
  <2> SUFFICES ASSUME IInv, Next, NEW r \in Request, Commits(r), NEW x \in req[r].old
               PROVE  x \notin rows'
    OBVIOUS
  <2>1. Commit(r)
    BY CommitsIsCommit
  <2>2. /\ Running(r) /\ req[r].pc = "commit"
        /\ rows' = (rows \ deleted[r]) \cup inserted[r]
        /\ \A y \in inserted[r] : y.tx = req[r].tx
    BY <2>1, CommitFacts
  <2>3. x \in rows => x \in deleted[r]
    BY <2>2 DEF IInv, OldAreDeleted
  <2>4. x.tx # req[r].tx
    BY <2>2 DEF IInv, NumbersApart
  <2> QED  BY <2>2, <2>3, <2>4
<1> QED  BY Invariance, <1>1, PTL DEF Spec, NothingOldRemains

\* A PUT that no other of its role overlaps replaces the set
\* (set_role_permissions): nothing old remains.
THEOREM PutsReplace == Spec => PutReplaces
<1> DEFINE P == \A r \in Request :
                  Commits(r) /\ req[r].role \notin req[r].beside =>
                    req[r].keys = KeysAfter(req[r].role)
<1>1. IInv /\ [Next]_vars => [P]_vars
  <2> SUFFICES ASSUME IInv, Next, NEW r \in Request, Commits(r),
                      req[r].role \notin req[r].beside
               PROVE  req[r].keys = KeysAfter(req[r].role)
    OBVIOUS
  <2>1. Commit(r)
    BY CommitsIsCommit
  <2>2. deleted[r] = RowsOf(req[r].role)
    BY <2>1, CommitFacts DEF IInv, AloneDeletesAll
  <2>3. \A x : x \in rows' /\ x.role = req[r].role <=> x \in inserted[r]
    BY <2>1, <2>2, CommitFacts DEF RowsOf
  <2> QED  BY <2>1, <2>3, CommitFacts DEF KeysAfter
<1> QED  BY Invariance, <1>1, PTL DEF Spec, PutReplaces

\* An actor whose role no PUT replaces meanwhile has what he gives
\* (_assert_no_escalation) when it takes effect.
THEOREM ActorsGiveWhatTheyHave == Spec => GiversHave
<1> DEFINE P == \A r \in Request :
                  Commits(r) /\ ~IsOwner(req[r].actor) /\ RoleOf[req[r].actor] \notin req[r].beside =>
                    req[r].keys \subseteq Effective(req[r].actor)
<1>1. IInv /\ [Next]_vars => [P]_vars
  <2> SUFFICES ASSUME IInv, Next, NEW r \in Request, Commits(r),
                      ~IsOwner(req[r].actor),
                      RoleOf[req[r].actor] \notin req[r].beside
               PROVE  req[r].keys \subseteq Effective(req[r].actor)
    OBVIOUS
  <2>1. Running(r)
    BY DEF Commits, Running
  <2>2. req[r].actor \in User
    BY <2>1, Fields
  <2> QED  BY <2>1, <2>2 DEF IInv, ActorsHave
<1> QED  BY Invariance, <1>1, PTL DEF Spec, GiversHave
=============================================================================
