------------------------- MODULE SessionStoreProofs -------------------------
(***************************************************************************)
(* Proofs about SessionStore, for every set of users, sessions and         *)
(* requests and every value of the durations.                              *)
(***************************************************************************)
EXTENDS SessionStore, TLAPS

(***************************************************************************)
(* How transactions and rows are written.                                  *)
(***************************************************************************)

\* What a request is set to when it begins or ends is a transaction record.
LEMMA TxRecords ==
  /\ Idle \in Tx
  /\ \A op \in Op, pc \in Pc, t \in SessionOrNone, u \in User \cup {NoUser},
        n \in Nat, S \in SUBSET Session :
       [op |-> op, pc |-> pc, token |-> t, user |-> u, start |-> n,
        seen |-> S] \in Tx
BY DEF Idle, Tx, Op, Pc, SessionOrNone

\* Ending a request keeps the types of tx and lock.
LEMMA FinishType ==
  ASSUME TypeOK, NEW r \in Request, Finish(r)
  PROVE  /\ tx' \in [Request -> Tx]
         /\ lock' \in [Session -> Request \cup {NoRequest}]
BY TxRecords DEF TypeOK, Finish

\* A begin keeps the type of tx.
LEMMA BeginType ==
  ASSUME TypeOK, NEW r \in Request, NEW op \in Op, NEW pc \in Pc,
         NEW t \in SessionOrNone, NEW u \in User \cup {NoUser},
         Begin(r, op, pc, t, u)
  PROVE  tx' \in [Request -> Tx]
BY TxRecords DEF TypeOK, Begin

\* A rows is a record of columns, a transaction one of its registers.
LEMMA Fields ==
  ASSUME TypeOK
  PROVE  /\ \A s \in Session : /\ sessions[s] \in Row
                               /\ sessions[s].state \in State
                               /\ sessions[s].user \in User \cup {NoUser}
                               /\ sessions[s].expires_at \in Nat
         /\ \A r \in Request : /\ tx[r] \in Tx
                               /\ tx[r].op \in Op /\ tx[r].pc \in Pc
                               /\ tx[r].token \in SessionOrNone
                               /\ tx[r].user \in User \cup {NoUser}
                               /\ tx[r].start \in Nat
                               /\ tx[r].seen \in SUBSET Session
BY DEF TypeOK, Row, Tx

\* A new row is a row.
LEMMA NewRowType ==
  ASSUME NEW u \in User \cup {NoUser}, NEW f \in SessionOrNone,
         NEW p \in SessionOrNone, NEW e \in Nat
  PROVE  NewRow(u, f, p, e) \in Row
BY DEF NewRow, Row, State, SessionOrNone

\* The two updates keep a row a row and change only the columns they name.
LEMMA RevokedRowFields ==
  ASSUME NEW row \in Row, NEW st \in State
  PROVE  /\ RevokedRow(row, st) \in Row
         /\ RevokedRow(row, st).state = st
         /\ RevokedRow(row, st).user = row.user
         /\ RevokedRow(row, st).family = row.family
         /\ RevokedRow(row, st).parent = row.parent
         /\ RevokedRow(row, st).replaced_by = row.replaced_by
         /\ RevokedRow(row, st).expires_at = row.expires_at
BY DEF Row, RevokedRow

LEMMA RotatedRowFields ==
  ASSUME NEW row \in Row, NEW n \in Session, NEW m \in Nat
  PROVE  /\ RotatedRow(row, m, n) \in Row
         /\ RotatedRow(row, m, n).state = "rotated"
         /\ RotatedRow(row, m, n).user = row.user
         /\ RotatedRow(row, m, n).family = row.family
         /\ RotatedRow(row, m, n).parent = row.parent
         /\ RotatedRow(row, m, n).replaced_by = n
         /\ RotatedRow(row, m, n).expires_at = row.expires_at
BY DEF Row, State, SessionOrNone, RotatedRow

\* The columns of a new row.
LEMMA NewRowFields ==
  ASSUME NEW u, NEW f, NEW p, NEW e
  PROVE  /\ NewRow(u, f, p, e).state = "live"
         /\ NewRow(u, f, p, e).user = u
         /\ NewRow(u, f, p, e).family = f
         /\ NewRow(u, f, p, e).parent = p
         /\ NewRow(u, f, p, e).replaced_by = NoSession
         /\ NewRow(u, f, p, e).expires_at = e
BY DEF NewRow

-----------------------------------------------------------------------------
(***************************************************************************)
(* The three steps that write rows.                                        *)
(***************************************************************************)

\* A login adds one row, the first of a family of its own.
LEMMA LoginWrites ==
  ASSUME IInv, NEW r \in Request, NEW n \in Session, LoginCommit(r, n)
  PROVE  /\ sessions[n] = NoRow
         /\ \A s \in Session \ {n} : sessions'[s] = sessions[s]
         /\ sessions'[n] = NewRow(tx[r].user, n, NoSession, now + RefreshTtl)
BY DEF LoginCommit, IInv, FamiliesRooted, TypeOK

\* A refresh adds the successor n and marks the row it holds, live until
\* then, as rotated.
LEMMA RefreshWrites ==
  ASSUME IInv, NEW r \in Request, NEW n \in Session, RefreshCommit(r, n)
  PROVE  \E old \in Session :
         /\ old = tx[r].token /\ tx[r].op = "refresh"
         /\ Live(old) /\ lock[old] = r
         /\ sessions[n] = NoRow /\ old # n
         /\ \A s \in Session : s # n /\ s # old => sessions'[s] = sessions[s]
         /\ sessions'[n] = NewRow(sessions[old].user, sessions[old].family,
                                  old, tx[r].start + RefreshTtl)
         /\ sessions'[old] = RotatedRow(sessions[old], tx[r].start, n)
<1> DEFINE old == tx[r].token
<1>1. /\ old \in Session /\ Live(old) /\ lock[old] = r
  BY DEF RefreshCommit, IInv, RotationsHoldTheirRow
<1>2. sessions[n] = NoRow
  BY DEF RefreshCommit, IInv, FamiliesRooted
<1>3. old # n
  BY <1>1, <1>2 DEF Live, NoRow
<1> QED
  BY <1>1, <1>2, <1>3 DEF RefreshCommit, IInv, TypeOK

\* A revocation marks live rows it holds, and changes nothing else.
LEMMA RevokeWrites ==
  ASSUME IInv, NEW r \in Request, RevokeCommit(r)
  PROVE  /\ tx[r].op \in BulkReason
         /\ \A s \in Session :
              \/ sessions'[s] = sessions[s]
              \/ /\ s \in tx[r].seen /\ Live(s) /\ lock[s] = r
                 /\ sessions'[s] = RevokedRow(sessions[s], tx[r].op)
<1>1. tx[r].op \in BulkReason
  BY DEF RevokeCommit, IInv, PhasesAgree
<1>2. \A s \in Session : sessions'[s] = RevokeRows(r)[s]
  BY DEF RevokeCommit
<1> QED
  BY <1>1, <1>2 DEF RevokeCommit, RevokeRows

\* Every other step leaves the table alone.
LEMMA OthersWriteNothing ==
  ASSUME [Next]_vars
  PROVE  \/ UNCHANGED sessions
         \/ \E r \in Request, n \in Session : LoginCommit(r, n)
         \/ \E r \in Request, n \in Session : RefreshCommit(r, n)
         \/ \E r \in Request : RevokeCommit(r)
BY DEF Next, vars, Tick, Arrive, Step, Abort, LoginCheck, DeactivateBegin,
       RefreshBegin, LogoutBegin, RevokeSessionBegin, LogoutAllBegin,
       RefreshRefuse, RefreshReuse, RefreshAccept, RevokeSnapshot, RevokeLock

-----------------------------------------------------------------------------
(***************************************************************************)
(* Type correctness.                                                       *)
(***************************************************************************)

\* The steps a request takes keep every variable in its type.  A rotation
\* needs the rest of the invariant: its token must name a row.
LEMMA TypeStep == IInv /\ [Next]_vars => TypeOK'
<1> SUFFICES ASSUME IInv, [Next]_vars PROVE TypeOK'
  OBVIOUS
<1> USE Distinct, Durations
<1>t. TypeOK
  BY DEF IInv
<1>1. ASSUME NEW r \in Request, Arrive(r) PROVE TypeOK'
  <2>1. ASSUME NEW u \in User, LoginCheck(r, u) PROVE TypeOK'
    BY <2>1, <1>t, BeginType DEF LoginCheck, TypeOK, Op, Pc, SessionOrNone
  <2>2. ASSUME NEW u \in User, DeactivateBegin(r, u) PROVE TypeOK'
    BY <2>2, <1>t, BeginType
       DEF DeactivateBegin, TypeOK, Op, Pc, SessionOrNone, BulkReason
  <2>3. ASSUME NEW s \in Session,
               \/ RefreshBegin(r, s) \/ LogoutBegin(r, s)
               \/ RevokeSessionBegin(r, s) \/ LogoutAllBegin(r, s)
        PROVE  TypeOK'
    <3>1. s \in SessionOrNone /\ sessions[s].user \in User \cup {NoUser}
      BY <1>t, Fields DEF SessionOrNone
    <3>2. tx' \in [Request -> Tx]
      BY <2>3, <3>1, <1>t, BeginType
         DEF RefreshBegin, LogoutBegin, RevokeSessionBegin, LogoutAllBegin,
             Op, Pc, BulkReason
    <3> QED
      BY <2>3, <3>2, <1>t
         DEF RefreshBegin, LogoutBegin, RevokeSessionBegin, LogoutAllBegin,
             TypeOK
  <2> QED  BY <1>1, <2>1, <2>2, <2>3 DEF Arrive
<1>2. ASSUME NEW r \in Request, Step(r) PROVE TypeOK'
  <2>1. ASSUME NEW n \in Session, LoginCommit(r, n) PROVE TypeOK'
    <3>1. sessions'[n] \in Row
      <4>1. /\ tx[r].user \in User \cup {NoUser}
            /\ n \in SessionOrNone /\ NoSession \in SessionOrNone
        BY <1>t, Fields DEF SessionOrNone
      <4>2. now + RefreshTtl \in Nat
        BY <1>t DEF TypeOK
      <4> QED  BY <2>1, <4>1, <4>2, LoginWrites, NewRowType
    <3>2. sessions' \in [Session -> Row]
      BY <2>1, <3>1, <1>t, LoginWrites DEF LoginCommit, TypeOK
    <3> QED  BY <2>1, <3>2, <1>t, FinishType DEF LoginCommit, TypeOK
  <2>2. ASSUME NEW n \in Session, RefreshCommit(r, n) PROVE TypeOK'
    <3>1. PICK old \in Session :
             /\ \A s \in Session : s # n /\ s # old => sessions'[s] = sessions[s]
             /\ sessions'[n] = NewRow(sessions[old].user, sessions[old].family,
                                      old, tx[r].start + RefreshTtl)
             /\ sessions'[old] = RotatedRow(sessions[old], tx[r].start, n)
      BY <2>2, RefreshWrites
    <3>2. sessions[old] \in Row /\ tx[r].start \in Nat
      BY <1>t, Fields
    <3>3. /\ sessions[old].user \in User \cup {NoUser}
          /\ sessions[old].family \in SessionOrNone
          /\ old \in SessionOrNone
          /\ tx[r].start + RefreshTtl \in Nat
      BY <3>2 DEF Row, SessionOrNone
    <3>4. sessions'[n] \in Row
      BY <3>1, <3>3, NewRowType
    <3>5. sessions'[old] \in Row
      BY <3>1, <3>2, RotatedRowFields
    <3>6. sessions' \in [Session -> Row]
      BY <2>2, <3>1, <3>4, <3>5, <1>t DEF RefreshCommit, TypeOK
    <3> QED  BY <2>2, <3>6, <1>t, FinishType DEF RefreshCommit, TypeOK
  <2>3. ASSUME RevokeCommit(r) PROVE TypeOK'
    <3>1. ASSUME NEW s \in Session PROVE sessions'[s] \in Row
      <4>1. sessions[s] \in Row /\ tx[r].op \in State
        BY <2>3, <1>t, RevokeWrites, Fields DEF State
      <4>2. \/ sessions'[s] = sessions[s]
            \/ sessions'[s] = RevokedRow(sessions[s], tx[r].op)
        BY <2>3, RevokeWrites
      <4> QED  BY <4>1, <4>2, RevokedRowFields
    <3>2. sessions' \in [Session -> Row]
      BY <2>3, <3>1 DEF RevokeCommit, RevokeRows
    <3> QED  BY <2>3, <3>2, <1>t, FinishType DEF RevokeCommit, TypeOK
  <2>4. CASE RefreshRefuse(r)
    BY <2>4, <1>t, FinishType DEF RefreshRefuse, TypeOK
  <2>5. CASE RefreshReuse(r) \/ RefreshAccept(r)
    <3>1. PICK op \in Op, pc \in Pc : Goto(r, op, pc)
      <4>1. {"reuse_detected", "refresh"} \subseteq Op /\ {"snapshot", "insert"} \subseteq Pc
        BY DEF Op, Pc, BulkReason
      <4>2. Goto(r, "reuse_detected", "snapshot") \/ Goto(r, "refresh", "insert")
        BY <2>5 DEF RefreshReuse, RefreshAccept
      <4> QED  BY <4>1, <4>2
    <3>2. tx' \in [Request -> Tx]
      <4>1. tx[r] \in Tx
        BY <1>t DEF TypeOK
      <4>2. [tx[r] EXCEPT !.op = op, !.pc = pc] \in Tx
        BY <4>1 DEF Tx
      <4> QED  BY <3>1, <4>2, <1>t DEF Goto, TypeOK
    <3>3. Acquire(r, tx[r].token) /\ UNCHANGED <<sessions, active, now>>
      BY <2>5 DEF RefreshReuse, RefreshAccept
    <3>4. lock' \in [Session -> Request \cup {NoRequest}]
      BY <3>3, <1>t DEF Acquire, TypeOK
    <3> QED  BY <3>2, <3>3, <3>4, <1>t DEF TypeOK
  <2>6. CASE RevokeSnapshot(r)
    <3>1. tx' \in [Request -> Tx]
      <4>1. tx[r] \in Tx /\ "update" \in Pc
        BY <1>t DEF TypeOK, Pc
      <4>2. \A S \in SUBSET Session : [tx[r] EXCEPT !.pc = "update", !.seen = S] \in Tx
        BY <4>1 DEF Tx
      <4>3. {s \in Session : Live(s) /\ InScope(tx[r], s)} \in SUBSET Session
        OBVIOUS
      <4> QED  BY <2>6, <4>2, <4>3, <1>t DEF RevokeSnapshot, TypeOK
    <3> QED  BY <2>6, <3>1, <1>t DEF RevokeSnapshot, TypeOK
  <2>7. ASSUME NEW s \in Session, RevokeLock(r, s) PROVE TypeOK'
    BY <2>7, <1>t DEF RevokeLock, Acquire, TypeOK
  <2> QED
    BY <1>2, <2>1, <2>2, <2>3, <2>4, <2>5, <2>6, <2>7 DEF Step
<1>3. ASSUME NEW r \in Request, Abort(r) PROVE TypeOK'
  BY <1>3, <1>t, FinishType DEF Abort, TypeOK
<1>4. CASE Tick
  BY <1>4, <1>t DEF Tick, TypeOK
<1>5. CASE UNCHANGED vars
  BY <1>5, <1>t DEF vars, TypeOK
<1> QED  BY <1>1, <1>2, <1>3, <1>4, <1>5 DEF Next

-----------------------------------------------------------------------------
(***************************************************************************)
(* The invariants of the table.                                            *)
(***************************************************************************)

\* What a step does to one row: nothing, or one of four things.
Opened(s)  == /\ sessions[s] = NoRow
              /\ \E r \in Request :
                   /\ LoginCommit(r, s)
                   /\ sessions'[s] = NewRow(tx[r].user, s, NoSession,
                                            now + RefreshTtl)
Succeeds(s, old) ==
  /\ sessions[s] = NoRow /\ Live(old) /\ old # s
  /\ \E r \in Request :
       /\ RefreshCommit(r, s) /\ tx[r].token = old /\ tx[r].op = "refresh"
       /\ sessions'[s] = NewRow(sessions[old].user, sessions[old].family,
                                old, tx[r].start + RefreshTtl)
Rotated(s, n) ==
  /\ Live(s) /\ Succeeds(n, s)
  /\ \E m \in Nat : sessions'[s] = RotatedRow(sessions[s], m, n)
Revoke(s) ==
  /\ Live(s)
  /\ \E reason \in BulkReason : sessions'[s] = RevokedRow(sessions[s], reason)

LEMMA RowCases ==
  ASSUME IInv, [Next]_vars, NEW s \in Session
  PROVE  \/ sessions'[s] = sessions[s]
         \/ Opened(s)
         \/ \E old \in Session : Succeeds(s, old) /\ Rotated(old, s)
         \/ \E n \in Session : Rotated(s, n)
         \/ Revoke(s)
<1>1. ASSUME NEW r \in Request, NEW n \in Session, LoginCommit(r, n)
      PROVE  sessions'[s] = sessions[s] \/ Opened(s)
  BY <1>1, LoginWrites DEF Opened
<1>2. ASSUME NEW r \in Request, NEW n \in Session, RefreshCommit(r, n)
      PROVE  \/ sessions'[s] = sessions[s]
             \/ \E old \in Session : Succeeds(s, old) /\ Rotated(old, s)
             \/ Rotated(s, n)
  <2>1. PICK old \in Session :
         /\ old = tx[r].token /\ tx[r].op = "refresh"
         /\ Live(old) /\ lock[old] = r
         /\ sessions[n] = NoRow /\ old # n
         /\ \A t \in Session : t # n /\ t # old => sessions'[t] = sessions[t]
         /\ sessions'[n] = NewRow(sessions[old].user, sessions[old].family,
                                  old, tx[r].start + RefreshTtl)
         /\ sessions'[old] = RotatedRow(sessions[old], tx[r].start, n)
    BY <1>2, RefreshWrites
  <2>2. tx[r].start \in Nat
    BY Fields DEF IInv
  <2>3. Succeeds(n, old)
    BY <1>2, <2>1 DEF Succeeds
  <2>4. Rotated(old, n)
    BY <2>1, <2>2, <2>3 DEF Rotated
  <2> QED  BY <2>1, <2>3, <2>4
<1>3. ASSUME NEW r \in Request, RevokeCommit(r)
      PROVE  sessions'[s] = sessions[s] \/ Revoke(s)
  BY <1>3, RevokeWrites DEF Revoke
<1> QED  BY <1>1, <1>2, <1>3, OthersWriteNothing

\* The columns of a row after each of the four.
LEMMA RowEffects ==
  ASSUME IInv, NEW s \in Session
  PROVE  /\ sessions'[s] = sessions[s] =>
              sessions'[s].state = sessions[s].state
         /\ Opened(s) => /\ sessions[s].state = "absent"
                         /\ sessions'[s].state = "live"
                         /\ sessions'[s].family = s
                         /\ sessions'[s].parent = NoSession
                         /\ sessions'[s].replaced_by = NoSession
                         /\ sessions'[s].expires_at = now + RefreshTtl
         /\ \A old \in Session : Succeeds(s, old) =>
              /\ sessions[s].state = "absent"
              /\ sessions[old].state = "live"
              /\ sessions'[s].state = "live"
              /\ sessions'[s].user = sessions[old].user
              /\ sessions'[s].family = sessions[old].family
              /\ sessions'[s].parent = old
              /\ sessions'[s].replaced_by = NoSession
         /\ \A n \in Session : Rotated(s, n) =>
              /\ sessions[s].state = "live"
              /\ sessions'[s].state = "rotated"
              /\ sessions'[s].user = sessions[s].user
              /\ sessions'[s].family = sessions[s].family
              /\ sessions'[s].parent = sessions[s].parent
              /\ sessions'[s].replaced_by = n
              /\ sessions'[s].expires_at = sessions[s].expires_at
         /\ Revoke(s) =>
              /\ sessions[s].state = "live"
              /\ sessions'[s].state \in BulkReason
              /\ sessions'[s].user = sessions[s].user
              /\ sessions'[s].family = sessions[s].family
              /\ sessions'[s].parent = sessions[s].parent
              /\ sessions'[s].replaced_by = sessions[s].replaced_by
              /\ sessions'[s].expires_at = sessions[s].expires_at
<1>0. sessions[s] \in Row
  BY Fields DEF IInv
<1>1. Opened(s) => /\ sessions[s].state = "absent"
                   /\ sessions'[s].state = "live"
                   /\ sessions'[s].family = s
                   /\ sessions'[s].parent = NoSession
                   /\ sessions'[s].replaced_by = NoSession
                   /\ sessions'[s].expires_at = now + RefreshTtl
  BY NewRowFields DEF Opened, NoRow
<1>2. ASSUME NEW old \in Session, Succeeds(s, old)
      PROVE  /\ sessions[s].state = "absent"
             /\ sessions[old].state = "live"
             /\ sessions'[s].state = "live"
             /\ sessions'[s].user = sessions[old].user
             /\ sessions'[s].family = sessions[old].family
             /\ sessions'[s].parent = old
             /\ sessions'[s].replaced_by = NoSession
  BY <1>2, NewRowFields DEF Succeeds, NoRow, Live
<1>3. ASSUME NEW n \in Session, Rotated(s, n)
      PROVE  /\ sessions[s].state = "live"
             /\ sessions'[s].state = "rotated"
             /\ sessions'[s].user = sessions[s].user
             /\ sessions'[s].family = sessions[s].family
             /\ sessions'[s].parent = sessions[s].parent
             /\ sessions'[s].replaced_by = n
             /\ sessions'[s].expires_at = sessions[s].expires_at
  <2>1. Live(s) /\ \E m \in Nat : sessions'[s] = RotatedRow(sessions[s], m, n)
    BY <1>3 DEF Rotated
  <2> QED  BY <1>0, <2>1, RotatedRowFields DEF Live
<1>4. ASSUME Revoke(s)
      PROVE  /\ sessions[s].state = "live"
             /\ sessions'[s].state \in BulkReason
             /\ sessions'[s].user = sessions[s].user
             /\ sessions'[s].family = sessions[s].family
             /\ sessions'[s].parent = sessions[s].parent
             /\ sessions'[s].replaced_by = sessions[s].replaced_by
             /\ sessions'[s].expires_at = sessions[s].expires_at
  <2>1. PICK reason \in BulkReason : sessions'[s] = RevokedRow(sessions[s], reason)
    BY <1>4 DEF Revoke
  <2>2. reason \in State
    BY DEF State
  <2> QED  BY <1>0, <1>4, <2>1, <2>2, RevokedRowFields DEF Revoke, Live
<1> QED  BY <1>1, <1>2, <1>3, <1>4

\* An issued row stays, with its owner, family, parent and expiry; one that
\* was revoked stays exactly as it is.
LEMMA RowsPersist ==
  ASSUME IInv, [Next]_vars, NEW s \in Session, Issued(s)
  PROVE  /\ sessions'[s].state # "absent"
         /\ sessions'[s].user = sessions[s].user
         /\ sessions'[s].family = sessions[s].family
         /\ sessions'[s].parent = sessions[s].parent
         /\ sessions'[s].expires_at = sessions[s].expires_at
         /\ sessions'[s].state = "live" => sessions[s].state = "live"
         /\ ~Live(s) => sessions'[s] = sessions[s]
BY RowCases, RowEffects DEF Issued, Live, BulkReason

\* Blank rows stay blank and families keep their root.
LEMMA FamiliesRootedStep == IInv /\ [Next]_vars => FamiliesRooted'
<1> SUFFICES ASSUME IInv, [Next]_vars, NEW s \in Session
             PROVE  IF sessions'[s].state # "absent"
                      THEN /\ sessions'[s].family \in Session
                           /\ sessions'[sessions'[s].family].state # "absent"
                      ELSE sessions'[s] = NoRow
  BY DEF FamiliesRooted, Issued
<1>1. ASSUME NEW t \in Session, Issued(t)
      PROVE  /\ sessions[t].family \in Session
             /\ sessions'[sessions[t].family].state # "absent"
  BY <1>1, RowsPersist DEF IInv, FamiliesRooted
<1>2. CASE Issued(s)
  BY <1>1, <1>2, RowsPersist
<1>3. CASE Opened(s)
  BY <1>3, RowEffects
<1>4. ASSUME NEW old \in Session, Succeeds(s, old)
      PROVE  /\ sessions'[s].family \in Session
             /\ sessions'[sessions'[s].family].state # "absent"
             /\ sessions'[s].state # "absent"
  BY <1>1, <1>4, RowEffects DEF Issued
<1>5. CASE ~Issued(s) /\ sessions'[s] = sessions[s]
  BY <1>5 DEF IInv, FamiliesRooted, Issued
<1> QED
  BY <1>2, <1>3, <1>4, <1>5, RowCases, RowEffects DEF Issued

\* Two live sessions of one family are the same, after any step.
LEMMA OneLiveStep == IInv /\ [Next]_vars => OneLiveSessionPerFamily'
<1> SUFFICES ASSUME IInv, [Next]_vars,
                    NEW s \in Session, NEW t \in Session,
                    sessions'[s].state = "live", sessions'[t].state = "live",
                    sessions'[s].family = sessions'[t].family
             PROVE  s = t
  BY DEF OneLiveSessionPerFamily, Live
<1>1. CASE Issued(s) /\ Issued(t)
  BY <1>1, RowsPersist DEF IInv, OneLiveSessionPerFamily, Live
<1>2. ASSUME NEW a \in Session, NEW b \in Session, ~Issued(a),
             sessions'[a].state = "live", sessions'[b].state = "live",
             sessions'[a].family = sessions'[b].family
      PROVE  a = b
  <2>1. CASE Opened(a)
    <3>1. PICK r \in Request : LoginCommit(r, a)
      BY <2>1 DEF Opened
    <3>2. sessions'[a].family = a
      BY <2>1, RowEffects
    <3>3. SUFFICES ASSUME a # b PROVE FALSE
      OBVIOUS
    <3>4. sessions'[b] = sessions[b]
      BY <3>1, <3>3, LoginWrites
    <3>5. Issued(b) /\ sessions[b].family = a
      BY <1>2, <3>2, <3>4 DEF Issued
    <3> QED  BY <1>2, <3>5 DEF IInv, FamiliesRooted
  <2>2. ASSUME NEW old \in Session, Succeeds(a, old), Rotated(old, a)
        PROVE  a = b
    <3>1. PICK r \in Request : RefreshCommit(r, a) /\ tx[r].token = old
      BY <2>2 DEF Succeeds
    <3>2. /\ sessions'[a].family = sessions[old].family
          /\ Live(old) /\ sessions'[old].state = "rotated"
      BY <2>2, RowEffects DEF Live
    <3>3. SUFFICES ASSUME a # b PROVE FALSE
      OBVIOUS
    <3>4. b # old
      BY <1>2, <3>2
    <3>5. sessions'[b] = sessions[b]
      BY <3>1, <3>3, <3>4, RefreshWrites
    <3>6. Live(b) /\ sessions[b].family = sessions[old].family
      BY <1>2, <3>2, <3>5 DEF Live
    <3> QED  BY <3>2, <3>4, <3>6 DEF IInv, OneLiveSessionPerFamily
  <2> QED
    BY <1>2, <2>1, <2>2, RowCases, RowEffects DEF Issued
<1> QED  BY <1>1, <1>2

\* Two sessions of one family that were not rotated are the same, after any
\* step.
LEMMA OneEndStep == IInv /\ [Next]_vars => OneEndPerFamily'
<1> SUFFICES ASSUME IInv, [Next]_vars,
                    NEW s \in Session, NEW t \in Session,
                    sessions'[s].state \notin {"absent", "rotated"},
                    sessions'[t].state \notin {"absent", "rotated"},
                    sessions'[s].family = sessions'[t].family
             PROVE  s = t
  BY DEF OneEndPerFamily
<1>0. ASSUME NEW a \in Session, Issued(a), sessions'[a].state # "rotated"
      PROVE  sessions[a].state \notin {"absent", "rotated"}
  BY <1>0, RowsPersist DEF Issued, Live
<1>1. CASE Issued(s) /\ Issued(t)
  BY <1>0, <1>1, RowsPersist DEF IInv, OneEndPerFamily
<1>2. ASSUME NEW a \in Session, NEW b \in Session, ~Issued(a),
             sessions'[a].state \notin {"absent", "rotated"},
             sessions'[b].state \notin {"absent", "rotated"},
             sessions'[a].family = sessions'[b].family
      PROVE  a = b
  <2>1. CASE Opened(a)
    <3>1. PICK r \in Request : LoginCommit(r, a)
      BY <2>1 DEF Opened
    <3>2. sessions'[a].family = a
      BY <2>1, RowEffects
    <3>3. SUFFICES ASSUME a # b PROVE FALSE
      OBVIOUS
    <3>4. sessions'[b] = sessions[b]
      BY <3>1, <3>3, LoginWrites
    <3>5. Issued(b) /\ sessions[b].family = a
      BY <1>2, <3>2, <3>4 DEF Issued
    <3> QED  BY <1>2, <3>5 DEF IInv, FamiliesRooted
  <2>2. ASSUME NEW old \in Session, Succeeds(a, old), Rotated(old, a)
        PROVE  a = b
    <3>1. PICK r \in Request : RefreshCommit(r, a) /\ tx[r].token = old
      BY <2>2 DEF Succeeds
    <3>2. /\ sessions'[a].family = sessions[old].family
          /\ sessions[old].state = "live" /\ sessions'[old].state = "rotated"
      BY <2>2, RowEffects
    <3>3. SUFFICES ASSUME a # b PROVE FALSE
      OBVIOUS
    <3>4. b # old
      BY <1>2, <3>2
    <3>5. sessions'[b] = sessions[b]
      BY <3>1, <3>3, <3>4, RefreshWrites
    <3> QED  BY <1>2, <3>2, <3>4, <3>5 DEF IInv, OneEndPerFamily
  <2> QED
    BY <1>2, <2>1, <2>2, RowCases, RowEffects DEF Issued
<1> QED  BY <1>1, <1>2 DEF Issued

\* Rotated rows keep their successor, and the step of a rotation links the
\* two rows it writes.
LEMMA RotationChainStep == IInv /\ [Next]_vars => RotationChain'
<1> SUFFICES ASSUME IInv, [Next]_vars, NEW s \in Session PROVE
      /\ (sessions'[s].state = "rotated") = (sessions'[s].replaced_by # NoSession)
      /\ sessions'[s].replaced_by # NoSession =>
           LET next == sessions'[s].replaced_by IN
             /\ sessions'[next].state # "absent" /\ sessions'[next].parent = s
             /\ sessions'[next].family = sessions'[s].family
             /\ sessions'[next].user = sessions'[s].user
             /\ sessions'[next].expires_at >= sessions'[s].expires_at
      /\ sessions'[s].parent # NoSession =>
           sessions'[sessions'[s].parent].replaced_by = s
  BY DEF RotationChain, Issued
<1> USE Distinct
<1>0. \A t \in Session :
        /\ sessions[t].replaced_by \in SessionOrNone
        /\ sessions[t].parent \in SessionOrNone
  BY DEF IInv, TypeOK, Row
<1>c. \A t \in Session :
        (sessions[t].state = "rotated") = (sessions[t].replaced_by # NoSession)
  BY DEF IInv, RotationChain
<1>1. (sessions'[s].state = "rotated") = (sessions'[s].replaced_by # NoSession)
  BY <1>c, RowCases, RowEffects DEF BulkReason
<1>2. ASSUME sessions'[s].replaced_by # NoSession
      PROVE  LET next == sessions'[s].replaced_by IN
             /\ sessions'[next].state # "absent" /\ sessions'[next].parent = s
             /\ sessions'[next].family = sessions'[s].family
             /\ sessions'[next].user = sessions'[s].user
             /\ sessions'[next].expires_at >= sessions'[s].expires_at
  <2>1. CASE sessions'[s] = sessions[s]
    <3> DEFINE next == sessions[s].replaced_by
    <3>1. /\ next \in Session /\ Issued(next) /\ sessions[next].parent = s
          /\ sessions[next].family = sessions[s].family
          /\ sessions[next].user = sessions[s].user
          /\ sessions[next].expires_at >= sessions[s].expires_at
      BY <1>2, <2>1, <1>0 DEF IInv, RotationChain, SessionOrNone
    <3> QED  BY <2>1, <3>1, RowsPersist
  <2>2. ASSUME NEW n \in Session, Rotated(s, n)
        PROVE  /\ sessions'[s].replaced_by = n
               /\ sessions'[n].state # "absent" /\ sessions'[n].parent = s
               /\ sessions'[n].family = sessions'[s].family
               /\ sessions'[n].user = sessions'[s].user
               /\ sessions'[n].expires_at >= sessions'[s].expires_at
    <3>1. Succeeds(n, s)
      BY <2>2 DEF Rotated
    <3>2. PICK r \in Request :
             /\ tx[r].token = s /\ tx[r].op = "refresh"
             /\ sessions'[n] = NewRow(sessions[s].user, sessions[s].family,
                                      s, tx[r].start + RefreshTtl)
      BY <3>1 DEF Succeeds
    <3>3. sessions'[n].expires_at = tx[r].start + RefreshTtl
      BY <3>2, NewRowFields
    <3>4. sessions[s].expires_at <= tx[r].start + RefreshTtl
      BY <3>2 DEF IInv, ExpiryBounded
    <3>5. sessions'[n].expires_at >= sessions[s].expires_at
      BY <3>3, <3>4, Fields, Durations DEF IInv
    <3> QED  BY <2>2, <3>1, <3>5, RowEffects
  <2>3. CASE Revoke(s)
    BY <1>2, <1>c, <2>3, RowEffects
  <2> QED  BY <1>2, <2>1, <2>2, <2>3, RowCases, RowEffects
<1>3. ASSUME sessions'[s].parent # NoSession
      PROVE  sessions'[sessions'[s].parent].replaced_by = s
  <2>1. CASE Issued(s)
    <3> DEFINE p == sessions[s].parent
    <3>1. p \in Session /\ sessions[p].replaced_by = s /\ sessions'[s].parent = p
      BY <1>3, <2>1, <1>0, RowsPersist DEF IInv, RotationChain, SessionOrNone
    <3>2. sessions[p].state = "rotated"
      BY <3>1, <1>c
    <3>3. sessions'[p] = sessions[p]
      BY <3>1, <3>2, RowsPersist DEF Issued, Live
    <3> QED  BY <3>1, <3>3
  <2>2. ASSUME NEW old \in Session, Succeeds(s, old), Rotated(old, s)
        PROVE  sessions'[sessions'[s].parent].replaced_by = s
    BY <2>2, RowEffects
  <2>3. CASE ~Issued(s) /\ sessions'[s] = sessions[s]
    BY <1>3, <2>3 DEF IInv, FamiliesRooted, NoRow
  <2> QED
    BY <1>3, <2>1, <2>2, <2>3, RowCases, RowEffects DEF Issued
<1> QED  BY <1>1, <1>2, <1>3

-----------------------------------------------------------------------------
(***************************************************************************)
(* What a step does to one request: it leaves the request and the rows it  *)
(* holds alone, or ends it, or is one of its own six moves.                *)
(***************************************************************************)
Keeps(q) ==
  /\ tx'[q] = tx[q]
  /\ \A s \in Session : lock[s] = q => lock'[s] = q
  /\ \A s \in Session : lock[s] = q /\ Live(s) => sessions'[s] = sessions[s]
StartsLogin(q) ==
  /\ tx'[q].op = "login" /\ tx'[q].pc = "insert" /\ tx'[q].user \in User
  /\ tx'[q].user \in active
StartsRefresh(q) ==
  /\ tx'[q].op = "refresh" /\ tx'[q].pc = "lock" /\ tx'[q].start = now
  /\ tx'[q].token \in Session /\ Issued(tx'[q].token)
StartsRevoke(q) ==
  /\ tx'[q].op \in BulkReason \ {"reuse_detected"} /\ tx'[q].pc = "snapshot"
Accepted(q) ==
  /\ tx[q].op = "refresh" /\ tx'[q].op = "refresh" /\ tx'[q].pc = "insert"
  /\ tx'[q].token = tx[q].token /\ tx'[q].start = tx[q].start
  /\ lock'[tx[q].token] = q /\ Live(tx[q].token)
  /\ sessions[tx[q].token].user \in active
  /\ UNCHANGED sessions
FoundReuse(q) ==
  /\ tx[q].op = "refresh"
  /\ tx'[q].op = "reuse_detected" /\ tx'[q].pc = "snapshot"
  /\ tx'[q].token = tx[q].token /\ tx'[q].start = tx[q].start
  /\ Revoked(tx[q].token)
  /\ ~WithinGrace(sessions[tx[q].token], tx[q].start)
  /\ UNCHANGED sessions
TookSnapshot(q) ==
  /\ tx[q].pc = "snapshot" /\ tx'[q].pc = "update"
  /\ tx'[q].op = tx[q].op /\ tx'[q].token = tx[q].token
  /\ tx'[q].start = tx[q].start
  /\ \A s \in tx'[q].seen : s \in Session /\ Issued(s) /\ InScope(tx[q], s)
  /\ UNCHANGED sessions

\* A request's rows are free of others: what another request writes is not
\* a live row that this one holds.
LEMMA OthersKeep ==
  ASSUME IInv, NEW r \in Request, NEW q \in Request, q # r,
         Arrive(r) \/ Step(r) \/ Abort(r)
  PROVE  Keeps(q)
<1>t. TypeOK
  BY DEF IInv
<1>1. CASE Arrive(r)
  BY <1>1, <1>t DEF Arrive, LoginCheck, DeactivateBegin, RefreshBegin,
     LogoutBegin, RevokeSessionBegin, LogoutAllBegin, Begin, Keeps, TypeOK
<1>f. ASSUME Finish(r)
      PROVE  /\ tx'[q] = tx[q]
             /\ \A s \in Session : lock[s] = q => lock'[s] = q
  BY <1>f, <1>t DEF Finish, TypeOK
<1>2. CASE Step(r)
  <2>1. ASSUME NEW n \in Session, LoginCommit(r, n) PROVE Keeps(q)
    <3>1. ASSUME NEW s \in Session, Live(s) PROVE sessions'[s] = sessions[s]
      BY <2>1, <3>1, LoginWrites DEF Live, NoRow
    <3> QED  BY <2>1, <3>1, <1>f DEF LoginCommit, Keeps
  <2>2. ASSUME NEW n \in Session, RefreshCommit(r, n) PROVE Keeps(q)
    <3>1. ASSUME NEW s \in Session, lock[s] = q, Live(s)
          PROVE  sessions'[s] = sessions[s]
      BY <2>2, <3>1, RefreshWrites DEF Live, NoRow
    <3> QED  BY <2>2, <3>1, <1>f DEF RefreshCommit, Keeps
  <2>3. CASE RevokeCommit(r)
    <3>1. ASSUME NEW s \in Session, lock[s] = q PROVE sessions'[s] = sessions[s]
      BY <2>3, <3>1, RevokeWrites
    <3> QED  BY <2>3, <3>1, <1>f DEF RevokeCommit, Keeps
  <2>4. CASE RefreshRefuse(r)
    BY <2>4, <1>f DEF RefreshRefuse, Keeps
  <2>5. CASE RefreshReuse(r) \/ RefreshAccept(r)
    <3>1. lock[tx[r].token] = NoRequest
      BY <2>5 DEF RefreshReuse, RefreshAccept, AtVerdict, Free
    <3> QED
      BY <2>5, <3>1, <1>t, Distinct
         DEF RefreshReuse, RefreshAccept, Goto, Acquire, Keeps, TypeOK
  <2>6. CASE RevokeSnapshot(r)
    BY <2>6, <1>t DEF RevokeSnapshot, Keeps, TypeOK
  <2>7. ASSUME NEW s \in Session, RevokeLock(r, s) PROVE Keeps(q)
    BY <2>7, <1>t, Distinct DEF RevokeLock, Acquire, Free, Keeps, TypeOK
  <2> QED
    BY <1>2, <2>1, <2>2, <2>3, <2>4, <2>5, <2>6, <2>7 DEF Step
<1>3. CASE Abort(r)
  BY <1>3, <1>f DEF Abort, Keeps
<1> QED  BY <1>1, <1>2, <1>3

\* The moves a request makes.
LEMMA OwnMoves ==
  ASSUME IInv, NEW r \in Request, Arrive(r) \/ Step(r) \/ Abort(r)
  PROVE  \/ Keeps(r) \/ tx'[r] = Idle
         \/ StartsLogin(r) \/ StartsRefresh(r) \/ StartsRevoke(r)
         \/ Accepted(r) \/ FoundReuse(r) \/ TookSnapshot(r)
<1>t. TypeOK
  BY DEF IInv
<1>1. CASE Arrive(r)
  <2>1. ASSUME NEW u \in User, LoginCheck(r, u) PROVE StartsLogin(r)
    BY <2>1, <1>t DEF LoginCheck, Begin, StartsLogin, TypeOK
  <2>2. ASSUME NEW u \in User, DeactivateBegin(r, u) PROVE StartsRevoke(r)
    BY <2>2, <1>t DEF DeactivateBegin, Begin, StartsRevoke, BulkReason, TypeOK
  <2>3. ASSUME NEW s \in Session, RefreshBegin(r, s) PROVE StartsRefresh(r)
    BY <2>3, <1>t DEF RefreshBegin, Begin, StartsRefresh, TypeOK
  <2>4. ASSUME NEW s \in Session,
               LogoutBegin(r, s) \/ RevokeSessionBegin(r, s) \/ LogoutAllBegin(r, s)
        PROVE  StartsRevoke(r)
    BY <2>4, <1>t DEF LogoutBegin, RevokeSessionBegin, LogoutAllBegin, Begin,
                      StartsRevoke, BulkReason, TypeOK
  <2> QED  BY <1>1, <2>1, <2>2, <2>3, <2>4 DEF Arrive
<1>f. ASSUME Finish(r) PROVE tx'[r] = Idle
  BY <1>f, <1>t DEF Finish, TypeOK
<1>2. CASE Step(r)
  <2>1. CASE \/ \E n \in Session : LoginCommit(r, n) \/ RefreshCommit(r, n)
             \/ RefreshRefuse(r) \/ RevokeCommit(r)
    BY <2>1, <1>f DEF LoginCommit, RefreshCommit, RefreshRefuse, RevokeCommit
  <2>2. ASSUME AtVerdict(r) PROVE tx[r].op = "refresh" /\ tx[r].token \in Session
    BY <2>2 DEF AtVerdict, IInv, PhasesAgree, RotationsHoldTheirRow
  <2>3. CASE RefreshReuse(r)
    <3>1. tx[r].op = "refresh"
      BY <2>2, <2>3 DEF RefreshReuse
    <3> QED  BY <2>3, <3>1, <1>t DEF RefreshReuse, Goto, FoundReuse, TypeOK, Tx
  <2>4. CASE RefreshAccept(r)
    <3>1. tx[r].op = "refresh" /\ tx[r].token \in Session
      BY <2>2, <2>4 DEF RefreshAccept
    <3> QED
      BY <2>4, <3>1, <1>t DEF RefreshAccept, Goto, Acquire, Accepted, Rotatable,
                              Live, TypeOK, Tx
  <2>5. CASE RevokeSnapshot(r)
    BY <2>5, <1>t DEF RevokeSnapshot, TookSnapshot, Live, Issued, TypeOK, Tx
  <2>6. ASSUME NEW s \in Session, RevokeLock(r, s) PROVE Keeps(r)
    BY <2>6, <1>t DEF RevokeLock, Acquire, Keeps, TypeOK
  <2> QED  BY <1>2, <2>1, <2>3, <2>4, <2>5, <2>6 DEF Step
<1>3. CASE Abort(r)
  BY <1>3, <1>f DEF Abort
<1> QED  BY <1>1, <1>2, <1>3

\* The two together, for any request and any step.
LEMMA RequestCases ==
  ASSUME IInv, [Next]_vars, NEW q \in Request
  PROVE  \/ Keeps(q) \/ tx'[q] = Idle
         \/ StartsLogin(q) \/ StartsRefresh(q) \/ StartsRevoke(q)
         \/ Accepted(q) \/ FoundReuse(q) \/ TookSnapshot(q)
<1>1. CASE Tick \/ UNCHANGED vars
  BY <1>1 DEF Tick, vars, Keeps
<1> QED  BY <1>1, OthersKeep, OwnMoves DEF Next

\* The clock does not run backwards.
LEMMA ClockStep ==
  ASSUME IInv, [Next]_vars
  PROVE  now \in Nat /\ now' \in Nat /\ now <= now'
<1>1. now \in Nat
  BY DEF IInv, TypeOK
<1>2. now' = now \/ now' = now + 1
  BY DEF Next, vars, Tick, Arrive, Step, Abort, LoginCheck, DeactivateBegin,
         RefreshBegin, LogoutBegin, RevokeSessionBegin, LogoutAllBegin,
         LoginCommit, RefreshCommit, RefreshRefuse, RefreshReuse,
         RefreshAccept, RevokeSnapshot, RevokeLock, RevokeCommit
<1> QED  BY <1>1, <1>2

\* What each request knows stays true.
LEMMA RequestsStep ==
  IInv /\ [Next]_vars =>
    PhasesAgree' /\ RotationsHoldTheirRow' /\ RevocationsVisitRows'
<1> SUFFICES ASSUME IInv, [Next]_vars, NEW q \in Request PROVE
      /\ /\ tx'[q].op = "login" => tx'[q].pc = "insert" /\ tx'[q].user \in User
         /\ tx'[q].op = "refresh" => tx'[q].pc \in {"lock", "insert"}
         /\ tx'[q].pc \in {"snapshot", "update"} => tx'[q].op \in BulkReason
         /\ tx'[q].pc = "lock" => tx'[q].op = "refresh"
      /\ tx'[q].op = "refresh" =>
           /\ tx'[q].token \in Session
           /\ sessions'[tx'[q].token].state # "absent"
           /\ tx'[q].pc = "insert" => /\ lock'[tx'[q].token] = q
                                      /\ sessions'[tx'[q].token].state = "live"
      /\ tx'[q].pc = "update" =>
           \A s \in tx'[q].seen : sessions'[s].state # "absent"
      /\ tx'[q].op = "reuse_detected" =>
           /\ tx'[q].token \in Session
           /\ sessions'[tx'[q].token].state # "absent"
           /\ sessions'[tx'[q].token].state # "live"
  BY DEF PhasesAgree, RotationsHoldTheirRow, RevocationsVisitRows, Issued, Live,
         Revoked
<1>t. tx[q].seen \in SUBSET Session
  BY Fields DEF IInv
<1>p. \A s \in Session : Issued(s) =>
        /\ sessions'[s].state # "absent"
        /\ ~Live(s) => sessions'[s].state # "live"
  BY RowsPersist DEF Issued, Live
<1>1. CASE Keeps(q)
  <2>1. /\ tx[q].op = "login" => tx[q].pc = "insert" /\ tx[q].user \in User
        /\ tx[q].op = "refresh" => tx[q].pc \in {"lock", "insert"}
        /\ tx[q].pc \in {"snapshot", "update"} => tx[q].op \in BulkReason
        /\ tx[q].pc = "lock" => tx[q].op = "refresh"
    BY DEF IInv, PhasesAgree
  <2>2. ASSUME tx[q].op = "refresh"
        PROVE  /\ tx[q].token \in Session
               /\ sessions'[tx[q].token].state # "absent"
               /\ tx[q].pc = "insert" => /\ lock'[tx[q].token] = q
                                         /\ sessions'[tx[q].token].state = "live"
    BY <1>1, <1>p, <2>2 DEF Keeps, IInv, RotationsHoldTheirRow, Live
  <2>3. tx[q].pc = "update" =>
          \A s \in tx[q].seen : sessions'[s].state # "absent"
    BY <1>t, <1>p DEF IInv, RevocationsVisitRows
  <2>4. tx[q].op = "reuse_detected" =>
           /\ tx[q].token \in Session
           /\ sessions'[tx[q].token].state # "absent"
           /\ sessions'[tx[q].token].state # "live"
    BY <1>p DEF IInv, RevocationsVisitRows, Revoked
  <2> QED  BY <1>1, <2>1, <2>2, <2>3, <2>4 DEF Keeps
<1>2. CASE tx'[q] = Idle
  BY <1>2 DEF Idle
<1>3. CASE StartsLogin(q)
  BY <1>3 DEF StartsLogin
<1>4. CASE StartsRefresh(q)
  BY <1>4, <1>p DEF StartsRefresh
<1>5. CASE StartsRevoke(q)
  BY <1>5 DEF StartsRevoke, BulkReason
<1>6. CASE Accepted(q)
  BY <1>6 DEF Accepted, Live, IInv, RotationsHoldTheirRow
<1>7. CASE FoundReuse(q)
  BY <1>7, <1>p DEF FoundReuse, Revoked, BulkReason, IInv, RotationsHoldTheirRow
<1>8. CASE TookSnapshot(q)
  BY <1>8, <1>p DEF TookSnapshot, IInv, PhasesAgree, RevocationsVisitRows,
                    Revoked, BulkReason
<1> QED
  BY <1>1, <1>2, <1>3, <1>4, <1>5, <1>6, <1>7, <1>8, RequestCases

\* The evidence of a reuse verdict stays.
LEMMA EvidenceStep == IInv /\ [Next]_vars => ReuseHasEvidence'
<1> SUFFICES ASSUME IInv, [Next]_vars, NEW q \in Request,
                    tx'[q].op = "reuse_detected"
             PROVE  LET token == sessions'[tx'[q].token] IN
                    /\ token.state = "rotated" => token.rotated_at + Grace <= tx'[q].start
                    /\ tx'[q].pc = "update" =>
                         \A s \in tx'[q].seen : sessions'[s].family = token.family
  BY DEF ReuseHasEvidence
<1>n. Grace \in Nat
  BY Durations
<1>r. \A s \in Session : sessions[s].rotated_at \in Nat
  BY DEF IInv, TypeOK, Row
<1>1. CASE Keeps(q)
  <2>1. /\ tx'[q] = tx[q] /\ tx[q].op = "reuse_detected"
        /\ tx[q].token \in Session /\ Revoked(tx[q].token)
    BY <1>1 DEF Keeps, IInv, RevocationsVisitRows
  <2>2. sessions'[tx[q].token] = sessions[tx[q].token]
    BY <2>1, RowsPersist DEF Revoked
  <2>3. /\ sessions[tx[q].token].state = "rotated" =>
             sessions[tx[q].token].rotated_at + Grace <= tx[q].start
        /\ tx[q].pc = "update" => \A s \in tx[q].seen :
             s \in Session /\ Issued(s)
             /\ sessions[s].family = sessions[tx[q].token].family
    BY <2>1, Fields DEF IInv, ReuseHasEvidence, RevocationsVisitRows
  <2>4. tx[q].pc = "update" => \A s \in tx[q].seen :
          sessions'[s].family = sessions[tx[q].token].family
    BY <2>3, RowsPersist
  <2> QED  BY <2>1, <2>2, <2>3, <2>4
<1>2. CASE FoundReuse(q)
  <2>1. /\ tx[q].op = "refresh" /\ tx'[q].pc = "snapshot"
        /\ tx'[q].token = tx[q].token /\ tx'[q].start = tx[q].start
        /\ sessions' = sessions
        /\ ~WithinGrace(sessions[tx[q].token], tx[q].start)
    BY <1>2 DEF FoundReuse
  <2>2. /\ tx[q].token \in Session /\ tx[q].start \in Nat
    BY <2>1, Fields DEF IInv, RotationsHoldTheirRow
  <2>3. sessions[tx[q].token].state = "rotated" =>
          ~(sessions[tx[q].token].rotated_at + Grace > tx[q].start)
    BY <2>1 DEF WithinGrace
  <2>4. sessions[tx[q].token].state = "rotated" =>
          sessions[tx[q].token].rotated_at + Grace <= tx'[q].start
    BY <1>n, <1>r, <2>1, <2>2, <2>3
  <2> QED  BY <2>1, <2>4
<1>3. CASE TookSnapshot(q)
  <2>1. /\ tx[q].op = "reuse_detected" /\ tx'[q].token = tx[q].token
        /\ tx'[q].start = tx[q].start /\ sessions' = sessions
        /\ \A s \in tx'[q].seen : InScope(tx[q], s)
    BY <1>3 DEF TookSnapshot
  <2>2. \A s \in tx'[q].seen : sessions[s].family = sessions[tx[q].token].family
    BY <2>1 DEF InScope
  <2>3. /\ tx[q].token \in Session
        /\ sessions[tx[q].token].state = "rotated" =>
             sessions[tx[q].token].rotated_at + Grace <= tx[q].start
    BY <2>1 DEF IInv, ReuseHasEvidence, RevocationsVisitRows
  <2> QED  BY <2>1, <2>2, <2>3
<1>4. ~(\/ tx'[q] = Idle \/ StartsLogin(q) \/ StartsRefresh(q)
        \/ StartsRevoke(q) \/ Accepted(q))
  BY DEF Idle, StartsLogin, StartsRefresh, StartsRevoke, Accepted
<1> QED  BY <1>1, <1>2, <1>3, <1>4, RequestCases

\* A term added on both sides keeps the order.
LEMMA AddMonotone ==
  ASSUME NEW a \in Nat, NEW b \in Nat, NEW c \in Nat, a <= b
  PROVE  a + c <= b + c
OBVIOUS

\* Expiry times stay within one RefreshTtl of the clock.
LEMMA ExpiryStep == IInv /\ [Next]_vars => ExpiryBounded'
<1> SUFFICES ASSUME IInv, [Next]_vars PROVE ExpiryBounded'
  OBVIOUS
<1>d. RefreshTtl \in Nat
  BY Durations
<1>n. now \in Nat /\ now' \in Nat /\ now <= now'
  BY ClockStep
<1>m. now + RefreshTtl <= now' + RefreshTtl
  BY <1>d, <1>n, AddMonotone
<1>e. \A s \in Session : sessions[s].expires_at \in Nat
  BY Fields DEF IInv
<1>1. ASSUME NEW s \in Session PROVE sessions'[s].expires_at <= now' + RefreshTtl
  <2>0. sessions[s].expires_at <= now + RefreshTtl
    BY DEF IInv, ExpiryBounded
  <2>1. CASE Issued(s) \/ sessions'[s] = sessions[s]
    <3>1. sessions'[s].expires_at = sessions[s].expires_at
      BY <2>1, RowsPersist
    <3> QED  BY <1>d, <1>n, <1>e, <2>0, <3>1
  <2>2. CASE Opened(s)
    <3>1. sessions'[s].expires_at = now + RefreshTtl
      BY <2>2, RowEffects
    <3> QED  BY <1>m, <3>1
  <2>3. ASSUME NEW old \in Session, Succeeds(s, old)
        PROVE  sessions'[s].expires_at <= now' + RefreshTtl
    <3>1. PICK r \in Request :
            /\ tx[r].op = "refresh"
            /\ sessions'[s].expires_at = tx[r].start + RefreshTtl
      BY <2>3, NewRowFields DEF Succeeds
    <3>2. tx[r].start \in Nat /\ tx[r].start <= now
      BY <3>1, Fields DEF IInv, ExpiryBounded
    <3> QED  BY <1>d, <1>n, <3>1, <3>2
  <2> QED
    BY <2>1, <2>2, <2>3, RowCases, RowEffects DEF Issued
<1>2. ASSUME NEW q \in Request, tx'[q].op = "refresh"
      PROVE  /\ tx'[q].start <= now'
             /\ sessions'[tx'[q].token].expires_at <= tx'[q].start + RefreshTtl
  <2>1. CASE Keeps(q) \/ Accepted(q)
    <3>1. /\ tx[q].op = "refresh"
          /\ tx'[q].token = tx[q].token /\ tx'[q].start = tx[q].start
      BY <1>2, <2>1 DEF Keeps, Accepted
    <3>2. /\ tx[q].start \in Nat /\ tx[q].start <= now
          /\ sessions[tx[q].token].expires_at <= tx[q].start + RefreshTtl
          /\ tx[q].token \in Session /\ Issued(tx[q].token)
      BY <3>1, Fields DEF IInv, ExpiryBounded, RotationsHoldTheirRow
    <3>3. sessions'[tx[q].token].expires_at = sessions[tx[q].token].expires_at
      BY <3>2, RowsPersist
    <3> QED  BY <1>d, <1>n, <3>1, <3>2, <3>3
  <2>2. CASE StartsRefresh(q)
    <3>1. /\ tx'[q].start = now
          /\ tx'[q].token \in Session /\ Issued(tx'[q].token)
      BY <2>2 DEF StartsRefresh
    <3>2. /\ sessions'[tx'[q].token].expires_at = sessions[tx'[q].token].expires_at
          /\ sessions[tx'[q].token].expires_at <= now + RefreshTtl
      BY <3>1, RowsPersist DEF IInv, ExpiryBounded
    <3> QED  BY <1>d, <1>n, <3>1, <3>2
  <2>3. ~(\/ tx'[q] = Idle \/ StartsLogin(q) \/ StartsRevoke(q)
          \/ FoundReuse(q) \/ TookSnapshot(q))
    BY <1>2 DEF Idle, StartsLogin, StartsRevoke, FoundReuse, TookSnapshot,
                BulkReason, IInv, PhasesAgree
  <2> QED  BY <2>1, <2>2, <2>3, RequestCases
<1> QED  BY <1>1, <1>2 DEF ExpiryBounded

\* What a step does to the locks: it takes rows for a request that is past
\* its first wait, frees those of one that ends, or neither.
LEMMA LocksStep == IInv /\ [Next]_vars => LocksAreHeld'
<1> DEFINE past == {"insert", "snapshot", "update"}
<1> SUFFICES ASSUME IInv, [Next]_vars, NEW s \in Session, lock'[s] # NoRequest
             PROVE  tx'[lock'[s]].pc \in past
  BY DEF LocksAreHeld
<1>t. /\ tx \in [Request -> Tx] /\ lock \in [Session -> Request \cup {NoRequest}]
      /\ lock[s] # NoRequest => lock[s] \in Request /\ tx[lock[s]].pc \in past
  BY DEF IInv, TypeOK, LocksAreHeld
<1>1. ASSUME NEW r \in Request, Arrive(r) PROVE tx'[lock'[s]].pc \in past
  <2>1. tx[r].pc = "idle" /\ UNCHANGED lock /\ \A q \in Request \ {r} : tx'[q] = tx[q]
    BY <1>1, <1>t DEF Arrive, LoginCheck, DeactivateBegin, RefreshBegin, LogoutBegin,
                      RevokeSessionBegin, LogoutAllBegin, Begin
  <2> QED  BY <1>t, <2>1
<1>2. ASSUME NEW r \in Request, Finish(r) PROVE tx'[lock'[s]].pc \in past
  BY <1>2, <1>t DEF Finish
<1>3. ASSUME NEW r \in Request, RefreshReuse(r) \/ RefreshAccept(r)
      PROVE  tx'[lock'[s]].pc \in past
  <2>1. /\ lock'[s] = r \/ lock'[s] = lock[s]
        /\ tx'[r].pc \in past /\ \A q \in Request \ {r} : tx'[q] = tx[q]
    BY <1>3, <1>t DEF RefreshReuse, RefreshAccept, Acquire, Goto, Tx
  <2> QED  BY <1>t, <2>1
<1>4. ASSUME NEW r \in Request, RevokeSnapshot(r) PROVE tx'[lock'[s]].pc \in past
  BY <1>4, <1>t DEF RevokeSnapshot, Tx
<1>5. ASSUME NEW r \in Request, NEW u \in Session, RevokeLock(r, u)
      PROVE  tx'[lock'[s]].pc \in past
  BY <1>5, <1>t DEF RevokeLock, Acquire
<1>6. CASE UNCHANGED <<lock, tx>>
  BY <1>6, <1>t
<1> QED
  BY <1>1, <1>2, <1>3, <1>4, <1>5, <1>6
     DEF Next, vars, Tick, Step, Abort, LoginCommit, RefreshCommit, RefreshRefuse,
         RevokeCommit

-----------------------------------------------------------------------------
(***************************************************************************)
(* The theorems.                                                           *)
(***************************************************************************)

\* The invariant holds of the empty table.
LEMMA InitIInv == Init => IInv
<1> SUFFICES ASSUME Init PROVE IInv
  OBVIOUS
<1> USE Distinct, Durations DEF Init
<1>1. NoRow \in Row
  BY DEF NoRow, Row, State, SessionOrNone
<1>2. TypeOK
  BY <1>1, TxRecords DEF TypeOK
<1>3. \A s \in Session : sessions[s] = NoRow /\ ~Issued(s) /\ ~Live(s)
  BY DEF NoRow, Issued, Live
<1>4. FamiliesRooted /\ OneLiveSessionPerFamily /\ OneEndPerFamily /\ RotationChain
  BY <1>3 DEF FamiliesRooted, OneLiveSessionPerFamily, OneEndPerFamily, RotationChain, NoRow
<1>5. \A r \in Request : tx[r].op = "none" /\ tx[r].pc = "idle"
  BY DEF Idle
<1>6. /\ PhasesAgree /\ RotationsHoldTheirRow /\ RevocationsVisitRows
      /\ ReuseHasEvidence
  BY <1>5 DEF PhasesAgree, RotationsHoldTheirRow, RevocationsVisitRows,
              ReuseHasEvidence
<1>7. ExpiryBounded /\ LocksAreHeld
  BY <1>3, <1>5 DEF ExpiryBounded, NoRow, LocksAreHeld
<1> QED  BY <1>2, <1>4, <1>6, <1>7 DEF IInv

\* The inductive invariant of the table and its requests: every part of it
\* is kept by every step, whoever takes it.
THEOREM Invariance == Spec => []IInv
<1>1. IInv /\ [Next]_vars => IInv'
  BY TypeStep, FamiliesRootedStep, RequestsStep, EvidenceStep, ExpiryStep, LocksStep,
     OneLiveStep, OneEndStep, RotationChainStep DEF IInv
<1> QED  BY InitIInv, <1>1, PTL DEF Spec

\* Rows, locks and transactions always hold values of their kind.
THEOREM TypeCorrectness == Spec => []TypeOK
<1>1. IInv => TypeOK
  BY DEF IInv
<1> QED  BY Invariance, <1>1, PTL

\* No interleaving of refreshes, logins and revocations gives a family two
\* usable sessions.
THEOREM AtMostOneLiveSession == Spec => []OneLiveSessionPerFamily
<1>1. IInv => OneLiveSessionPerFamily
  BY DEF IInv
<1> QED  BY Invariance, <1>1, PTL

\* A session that is revoked is the last of its family, for good.
THEOREM RevocationEndsTheFamily == Spec => []OneEndPerFamily
<1>1. IInv => OneEndPerFamily
  BY DEF IInv
<1> QED  BY Invariance, <1>1, PTL

\* The successor links of the table are always consistent.
THEOREM ChainsAreConsistent == Spec => []RotationChain
<1>1. IInv => RotationChain
  BY DEF IInv
<1> QED  BY Invariance, <1>1, PTL

\* However many requests wait for rows of each other, those that nobody outside
\* can help wait in a circle, which the database breaks.
THEOREM StandstillsAreDetected == Spec => []StandstillIsACircle
<1>1. IInv => StandstillIsACircle
  <2> DEFINE underWay == {r \in Request : tx[r].pc # "idle"}
  <2> SUFFICES ASSUME IInv, NEW D \in SUBSET underWay,
                      \A q \in D : /\ Blocked(q)
                                   /\ \A s \in Wants(q) : lock[s] \notin underWay \ D,
                      NEW q \in D, NEW s \in Wants(q)
               PROVE  lock[s] \in D \ {q}
    BY DEF StandstillIsACircle, WaitingCircle, Blocked
  <2>1. q \in Request /\ s \in Session
    BY Fields, Distinct DEF IInv, Wants, PhasesAgree, RotationsHoldTheirRow
  <2>2. lock[s] \in underWay
    <3>1. lock[s] # NoRequest /\ lock[s] \in Request
      BY <2>1 DEF Blocked, Free, IInv, TypeOK
    <3> QED  BY <2>1, <3>1 DEF IInv, LocksAreHeld
  <2>3. lock[s] # q
    BY <2>1, <2>2 DEF Wants, IInv, LocksAreHeld, Blocked, Free
  <2> QED  BY <2>2, <2>3
<1> QED  BY Invariance, <1>1, PTL

\* A session, once revoked or rotated, is never written again.
THEOREM RevocationIsFinal == Spec => RevokedIsFinal
<1>1. IInv /\ [Next]_vars =>
        [\A s \in Session : Revoked(s) => sessions'[s] = sessions[s]]_sessions
  BY RowsPersist DEF Revoked
<1> QED  BY Invariance, <1>1, PTL DEF Spec, RevokedIsFinal

\* A session is revoked for reuse only by a request that presented a token of
\* its family which was rotated a grace before the request began, or revoked
\* otherwise (auth_rotate_session, result "race").
THEOREM RacesAreForgiven == Spec => NoReuseVerdictWithinGrace
<1> DEFINE Justified(r, s) ==
             /\ RevokesForReuse(r, s)
             /\ Revoked(tx[r].token)
             /\ sessions[tx[r].token].family = sessions[s].family
             /\ sessions[tx[r].token].state = "rotated" =>
                  sessions[tx[r].token].rotated_at + Grace <= tx[r].start
<1> DEFINE P == \A s \in Session :
                  Live(s) /\ sessions'[s].state = "reuse_detected" =>
                    \E r \in Request : Justified(r, s)
<1>1. IInv /\ [Next]_vars => [P]_sessions
  <2> SUFFICES ASSUME IInv, [Next]_vars, NEW s \in Session,
                      Live(s), sessions'[s].state = "reuse_detected"
               PROVE  \E r \in Request : Justified(r, s)
    OBVIOUS
  <2>1. sessions'[s] # sessions[s]
    BY DEF Live
  <2>2. ASSUME NEW r \in Request, NEW n \in Session, LoginCommit(r, n) \/ RefreshCommit(r, n)
        PROVE  FALSE
    <3>1. sessions'[s].state \in {sessions[s].state, "live", "rotated"}
      <4>1. CASE LoginCommit(r, n)
        BY <4>1, LoginWrites, NewRowFields
      <4>2. CASE RefreshCommit(r, n)
        <5>1. PICK old \in Session :
                /\ \A t \in Session : t # n /\ t # old => sessions'[t] = sessions[t]
                /\ sessions'[n] = NewRow(sessions[old].user, sessions[old].family,
                                         old, tx[r].start + RefreshTtl)
                /\ sessions'[old] = RotatedRow(sessions[old], tx[r].start, n)
          BY <4>2, RefreshWrites
        <5>2. sessions'[n].state = "live"
          BY <5>1, NewRowFields
        <5>3. sessions'[old].state = "rotated"
          <6>1. sessions[old] \in Row /\ tx[r].start \in Nat
            BY Fields DEF IInv
          <6>2. sessions'[old] = RotatedRow(sessions[old], tx[r].start, n)
            BY <5>1
          <6>3. RotatedRow(sessions[old], tx[r].start, n).state = "rotated"
            BY <6>1, RotatedRowFields
          <6> QED  BY <6>2, <6>3
        <5> QED  BY <5>1, <5>2, <5>3
      <4> QED  BY <2>2, <4>1, <4>2
    <3> QED  BY <3>1 DEF Live
  <2>3. PICK r \in Request : RevokeCommit(r)
    BY <2>1, <2>2, OthersWriteNothing
  <2>4. /\ tx[r].op \in BulkReason /\ s \in tx[r].seen
        /\ sessions'[s] = RevokedRow(sessions[s], tx[r].op)
    BY <2>1, <2>3, RevokeWrites
  <2>5. tx[r].op = "reuse_detected"
    <3>1. tx[r].op \in State /\ sessions[s] \in Row
      BY <2>4, Fields DEF State, IInv
    <3> QED  BY <2>4, <3>1, RevokedRowFields
  <2>6. tx[r].pc = "update"
    BY <2>3 DEF RevokeCommit
  <2>7. tx'[r].pc = "idle"
    BY <2>3, Fields DEF RevokeCommit, Finish, Idle, IInv, TypeOK
  <2>8. RevokesForReuse(r, s)
    BY <2>4, <2>5, <2>6, <2>7 DEF RevokesForReuse
  <2>9. Justified(r, s)
    BY <2>4, <2>5, <2>6, <2>8 DEF IInv, ReuseHasEvidence, RevocationsVisitRows
  <2> QED  BY <2>9
<1> QED  BY Invariance, <1>1, PTL DEF Spec, NoReuseVerdictWithinGrace

\* What a request has in hand for a user stays, or was checked against the
\* status: nobody lets a deactivated user in.
LEMMA NobodyLetsIn ==
  ASSUME IInv, [Next]_vars, NEW u \in User, ShutOut(u), NEW q \in Request
  PROVE  ~LetIn(q, u)'
<1>1. CASE Keeps(q)
  <2>1. tx'[q] = tx[q] /\ ~LetIn(q, u)
    BY <1>1 DEF Keeps, ShutOut
  <2>2. CASE tx[q].op = "refresh"
    <3>1. tx[q].token \in Session /\ Issued(tx[q].token)
      BY <2>2 DEF IInv, RotationsHoldTheirRow
    <3>2. sessions'[tx[q].token].user = sessions[tx[q].token].user
      BY <3>1, RowsPersist
    <3> QED  BY <2>1, <2>2, <3>2 DEF LetIn
  <2> QED  BY <2>1, <2>2 DEF LetIn
<1>2. CASE tx'[q] = Idle
  BY <1>2 DEF Idle, LetIn
<1>3. CASE StartsLogin(q)
  BY <1>3 DEF StartsLogin, ShutOut, LetIn
<1>4. CASE StartsRefresh(q)
  BY <1>4 DEF StartsRefresh, LetIn
<1>5. CASE Accepted(q)
  BY <1>5 DEF Accepted, ShutOut, LetIn
<1>6. CASE StartsRevoke(q) \/ FoundReuse(q)
  BY <1>6 DEF StartsRevoke, FoundReuse, BulkReason, LetIn
<1>7. CASE TookSnapshot(q)
  BY <1>7 DEF TookSnapshot, LetIn, IInv, PhasesAgree, BulkReason
<1> QED
  BY <1>1, <1>2, <1>3, <1>4, <1>5, <1>6, <1>7, RequestCases

\* A session is opened for a user only by a request that had let the user in.
LEMMA OpenersWereLetIn ==
  ASSUME IInv, [Next]_vars, NEW s \in Session, ~Issued(s),
         sessions'[s].state # "absent"
  PROVE  \E r \in Request : LetIn(r, sessions'[s].user)
<1>1. ASSUME NEW r \in Request, NEW n \in Session, LoginCommit(r, n)
      PROVE  LetIn(r, sessions'[s].user)
  <2>1. s = n
    BY <1>1, LoginWrites DEF Issued
  <2>2. sessions'[s].user = tx[r].user
    BY <1>1, <2>1, LoginWrites, NewRowFields
  <2> QED  BY <1>1, <2>2 DEF LoginCommit, LetIn
<1>2. ASSUME NEW r \in Request, NEW n \in Session, RefreshCommit(r, n)
      PROVE  LetIn(r, sessions'[s].user)
  <2>1. Issued(tx[r].token)
    BY <1>2, RefreshWrites DEF Live, Issued
  <2>2. s = n
    BY <1>2, <2>1, RefreshWrites DEF Issued
  <2>3. sessions'[s].user = sessions[tx[r].token].user
    BY <1>2, <2>2, RefreshWrites, NewRowFields
  <2> QED  BY <1>2, <2>3 DEF RefreshCommit, LetIn
<1>3. ASSUME NEW r \in Request, RevokeCommit(r) PROVE FALSE
  BY <1>3, RevokeWrites DEF Issued, Live
<1> QED  BY <1>1, <1>2, <1>3, OthersWriteNothing DEF Issued

\* A deactivated user whom no request was about to let in is out for good,
\* whether or not the transaction that revokes the sessions comes about.
THEOREM DeactivationShutsOut == Spec => DeactivatedStayOut
<1>1. IInv /\ [Next]_vars =>
        [\A u \in User : ShutOut(u) =>
           /\ ShutOut(u)'
           /\ \A s \in Session : ~Issued(s) /\ Issued(s)' => sessions'[s].user # u]_vars
  <2> SUFFICES ASSUME IInv, [Next]_vars, NEW u \in User, ShutOut(u)
               PROVE  /\ ShutOut(u)'
                      /\ \A s \in Session :
                           ~Issued(s) /\ Issued(s)' => sessions'[s].user # u
    OBVIOUS
  <2>1. u \notin active'
    BY DEF ShutOut, Next, vars, Tick, Arrive, Step, Abort, LoginCheck, DeactivateBegin,
           RefreshBegin, LogoutBegin, RevokeSessionBegin, LogoutAllBegin, LoginCommit,
           RefreshCommit, RefreshRefuse, RefreshReuse, RefreshAccept, RevokeSnapshot,
           RevokeLock, RevokeCommit
  <2>2. \A q \in Request : ~LetIn(q, u)'
    BY NobodyLetsIn
  <2>3. ASSUME NEW s \in Session, ~Issued(s), Issued(s)'
        PROVE  sessions'[s].user # u
    BY <2>3, OpenersWereLetIn DEF ShutOut, Issued
  <2> QED  BY <2>1, <2>2, <2>3 DEF ShutOut
<1> QED  BY Invariance, <1>1, PTL DEF Spec, DeactivatedStayOut

-----------------------------------------------------------------------------
(***************************************************************************)
(* Refinement: what a step of the table is to the abstract token family.   *)
(***************************************************************************)

\* A login opens a family.
LEMMA LoginOpens ==
  ASSUME IInv, NEW r \in Request, NEW n \in Session, LoginCommit(r, n)
  PROVE  Family!Open(n)
<1>1. /\ sessions[n].state = "absent"
      /\ sessions'[n].state = "live" /\ sessions'[n].family = n
      /\ \A s \in Session \ {n} : sessions'[s] = sessions[s]
  BY LoginWrites, NewRowFields DEF NoRow
<1>2. \A s \in Session : sessions[s].state = "live" => sessions[s].family # n
  BY <1>1 DEF IInv, FamiliesRooted, Issued
<1>3. {s \in Session : Issued(s)}' = {s \in Session : Issued(s)} \cup {n}
  BY <1>1 DEF Issued
<1>4. LiveOf(n)' = {n}
  BY <1>1, <1>2 DEF LiveOf, Live
<1>5. \A f \in Session \ {n} : LiveOf(f)' = LiveOf(f)
  BY <1>1 DEF LiveOf, Live
<1>6. [f \in Session |-> LiveOf(f)]' =
        [[f \in Session |-> LiveOf(f)] EXCEPT ![n] = {n}]
  BY <1>4, <1>5
<1> QED  BY <1>1, <1>3, <1>6 DEF Family!Open, Issued

\* A refresh replaces the head of a family.
LEMMA RefreshReplaces ==
  ASSUME IInv, NEW r \in Request, NEW n \in Session, RefreshCommit(r, n)
  PROVE  \E f \in Session : Family!Rotate(f, n)
<1>1. PICK old \in Session :
        /\ Live(old) /\ sessions[n] = NoRow /\ old # n
        /\ \A s \in Session : s # n /\ s # old => sessions'[s] = sessions[s]
        /\ sessions'[n] = NewRow(sessions[old].user, sessions[old].family,
                                 old, tx[r].start + RefreshTtl)
        /\ sessions'[old] = RotatedRow(sessions[old], tx[r].start, n)
  BY RefreshWrites
<1>2. /\ sessions[n].state = "absent"
      /\ sessions'[n].state = "live"
      /\ sessions'[n].family = sessions[old].family
  BY <1>1, NewRowFields DEF NoRow
<1>3. sessions[old] \in Row /\ tx[r].start \in Nat
  BY Fields DEF IInv
<1>4. sessions'[old].state = "rotated"
  BY <1>1, <1>3, RotatedRowFields
<1>5. PICK g \in Session : g = sessions[old].family
  BY <1>1 DEF IInv, FamiliesRooted, Live, Issued
<1>6. \A s \in Session : sessions[s].state = "live" /\ sessions[s].family = g
                           => s = old
  BY <1>1, <1>5 DEF IInv, OneLiveSessionPerFamily, Live
<1>7. {s \in Session : Issued(s)}' = {s \in Session : Issued(s)} \cup {n}
  BY <1>1, <1>2, <1>4 DEF Issued, Live
<1>8. LiveOf(g)' = {n}
  BY <1>1, <1>2, <1>4, <1>5, <1>6 DEF LiveOf, Live
<1>9. \A f \in Session : f # g => LiveOf(f)' = LiveOf(f)
  BY <1>1, <1>2, <1>4, <1>5 DEF LiveOf, Live
<1>10. LiveOf(g) # {}
  BY <1>1, <1>5 DEF LiveOf
<1>11. [f \in Session |-> LiveOf(f)]' =
        [[f \in Session |-> LiveOf(f)] EXCEPT ![g] = {n}]
  BY <1>5, <1>8, <1>9
<1>12. Family!Rotate(g, n)
  BY <1>2, <1>5, <1>7, <1>10, <1>11 DEF Family!Rotate, Issued
<1> QED  BY <1>5, <1>12

\* A revocation closes the families whose live session it ends.
LEMMA RevocationCloses ==
  ASSUME IInv, NEW r \in Request, RevokeCommit(r)
  PROVE  \E F \in SUBSET Session : Family!Close(F)
<1> DEFINE changed == {s \in Session : sessions'[s] # sessions[s]}
           F == {f \in Session : \E s \in changed : sessions[s].family = f}
<1>1. \A s \in changed : Live(s) /\ sessions'[s].state # "live"
  BY RevokeWrites, RevokedRowFields, Fields DEF IInv, BulkReason, State
<1>2. \A s \in Session : (sessions'[s].state # "absent") <=> Issued(s)
  BY <1>1, RevokeWrites, RevokedRowFields, Fields
     DEF IInv, BulkReason, State, Live, Issued
<1>3. \A f \in F : LiveOf(f)' = {}
  <2> SUFFICES ASSUME NEW f \in F, NEW s \in Session,
                      sessions'[s].state = "live", sessions'[s].family = f
               PROVE  FALSE
    BY DEF LiveOf, Live
  <2>1. s \notin changed /\ sessions'[s] = sessions[s]
    BY <1>1
  <2>2. PICK t \in changed : sessions[t].family = f
    OBVIOUS
  <2>3. Live(t) /\ Live(s) /\ sessions[s].family = f
    BY <1>1, <2>1, <2>2 DEF Live
  <2> QED  BY <2>1, <2>2, <2>3 DEF IInv, OneLiveSessionPerFamily
<1>4. \A f \in Session \ F : LiveOf(f)' = LiveOf(f)
  <2> TAKE f \in Session \ F
  <2>1. ASSUME NEW s \in Session
        PROVE  (sessions'[s].state = "live" /\ sessions'[s].family = f)
                 <=> (sessions[s].state = "live" /\ sessions[s].family = f)
    BY <1>1
  <2> QED  BY <2>1 DEF LiveOf, Live
<1>5. [f \in Session |-> LiveOf(f)]' =
        [f \in Session |-> IF f \in F THEN {} ELSE LiveOf(f)]
  <2> HIDE DEF F
  <2> QED  BY <1>3, <1>4
<1>6. UNCHANGED {s \in Session : Issued(s)}
  BY <1>2 DEF Issued
<1>7. [f \in Session |-> IF f \in F THEN {} ELSE LiveOf(f)] =
        [f \in Session |-> IF f \in F THEN {}
                             ELSE [g \in Session |-> LiveOf(g)][f]]
  OBVIOUS
<1>8. Family!Close(F)
  <2> HIDE DEF F
  <2> QED  BY <1>5, <1>6, <1>7 DEF Family!Close
<1> QED  BY <1>8

\* The sessions table implements the token family: a step of the table is
\* Open, Rotate or Close of the abstract one, or does not show in it.
THEOREM Refinement == Spec => ImplementsTokenFamily
<1>1. Init => Family!Init
  <2> SUFFICES ASSUME Init PROVE Family!Init
    OBVIOUS
  <2>1. \A s \in Session : ~Issued(s) /\ ~Live(s)
    BY DEF Init, Issued, Live, NoRow
  <2> QED  BY <2>1 DEF Family!Init, LiveOf
<1>2. IInv /\ [Next]_vars => [Family!Next]_(Family!famVars)
  <2> SUFFICES ASSUME IInv, [Next]_vars PROVE [Family!Next]_(Family!famVars)
    OBVIOUS
  <2>1. CASE UNCHANGED sessions
    BY <2>1 DEF Family!famVars, LiveOf, Live, Issued
  <2>2. ASSUME NEW r \in Request, NEW n \in Session, LoginCommit(r, n)
        PROVE  Family!Next
    BY <2>2, LoginOpens DEF Family!Next
  <2>3. ASSUME NEW r \in Request, NEW n \in Session, RefreshCommit(r, n)
        PROVE  Family!Next
    BY <2>3, RefreshReplaces DEF Family!Next
  <2>4. ASSUME NEW r \in Request, RevokeCommit(r) PROVE Family!Next
    BY <2>4, RevocationCloses DEF Family!Next
  <2> QED  BY <2>1, <2>2, <2>3, <2>4, OthersWriteNothing
<1> QED
  BY Invariance, <1>1, <1>2, PTL DEF Spec, ImplementsTokenFamily, Family!Spec
=============================================================================
