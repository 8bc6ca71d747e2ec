---------------------------- MODULE SessionStore ----------------------------
(***************************************************************************)
(* The sessions table of PUTZPLAN and the requests that write it: login,   *)
(* refresh (auth_rotate_session), logout, logout-all, revocation by an     *)
(* administrator and the second transaction of a deactivation.             *)
(*                                                                         *)
(* The granularity is that of PostgreSQL at READ COMMITTED: a statement    *)
(* reads one committed snapshot, SELECT ... FOR UPDATE and UPDATE wait for *)
(* the lock of a row and look at it again once they hold it, and a         *)
(* transaction's writes appear all at once when it commits.  A step of a   *)
(* request is the part of it between two points where others can act.      *)
(*                                                                         *)
(* A session row stands for its refresh token too: refresh_token_hash is   *)
(* UNIQUE and a token is random.  A family is named by the session that    *)
(* opened it (the code draws a fresh uuid).  Requests that present a token *)
(* no row has (not_found, invalid_refresh) change nothing and are left     *)
(* out, as is auth_revoke_family, which nothing calls.                     *)
(***************************************************************************)
EXTENDS Naturals, FiniteSets

CONSTANTS User,         \* the accounts
          Session,      \* session ids; also the bound on how many are issued
          Request,      \* the requests in progress at one time
          NoUser, NoSession, NoRequest,
          RefreshTtl,   \* settings.refresh_ttl_days
          Grace,        \* settings.refresh_grace_seconds
          MaxTime       \* bound on the clock

ASSUME Distinct == /\ NoUser \notin User
                   /\ NoSession \notin Session
                   /\ NoRequest \notin Request
ASSUME Durations == RefreshTtl \in Nat /\ Grace \in Nat /\ MaxTime \in Nat

VARIABLES sessions,     \* the committed rows of the sessions table
          active,       \* the users whose committed status is 'active'
          now,          \* the clock of the database
          lock,         \* lock[s]: the request whose transaction holds row s
          tx            \* what each request is doing

vars == <<sessions, active, now, lock, tx>>

(***************************************************************************)
(* Rows.  "live" is revoked_at IS NULL; any other state of an issued row   *)
(* is its revoke_reason.                                                   *)
(***************************************************************************)
BulkReason == {"reuse_detected", "logout", "logout_all", "user_disabled",
               "revoked_by_admin"}
State == {"absent", "live", "rotated"} \cup BulkReason

SessionOrNone == Session \cup {NoSession}

Row == [state       : State,
        user        : User \cup {NoUser},
        family      : SessionOrNone,
        parent      : SessionOrNone,
        replaced_by : SessionOrNone,
        rotated_at  : Nat,
        expires_at  : Nat]

NoRow == [state |-> "absent", user |-> NoUser, family |-> NoSession,
          parent |-> NoSession, replaced_by |-> NoSession,
          rotated_at |-> 0, expires_at |-> 0]

\* Mutant: the INSERT binds user_id and parent_session_id the wrong way round.
NewRowSwapped(u, f, p, expiry) ==
  [state |-> "live", user |-> p, family |-> f, parent |-> u,
   replaced_by |-> NoSession, rotated_at |-> 0, expires_at |-> expiry]

NewRow(u, f, p, expiry) ==
  [state |-> "live", user |-> u, family |-> f, parent |-> p,
   replaced_by |-> NoSession, rotated_at |-> 0, expires_at |-> expiry]

\* The two updates: by a rotation that began at time m and inserted n, and
\* by a revocation.
RotatedRow(row, m, n) == [row EXCEPT !.state = "rotated", !.rotated_at = m,
                                     !.replaced_by = n]
RevokedRow(row, reason) == [row EXCEPT !.state = reason]

Issued(s)  == sessions[s].state # "absent"
Live(s)    == sessions[s].state = "live"
Revoked(s) == Issued(s) /\ ~Live(s)

(***************************************************************************)
(* Transactions.  op of a revoking request is the reason it writes.        *)
(***************************************************************************)
Op == {"none", "login", "refresh"} \cup BulkReason
Pc == {"idle", "lock", "insert", "snapshot", "update"}

Tx == [op : Op, pc : Pc, token : SessionOrNone, user : User \cup {NoUser},
       start : Nat, seen : SUBSET Session]

Idle == [op |-> "none", pc |-> "idle", token |-> NoSession, user |-> NoUser,
         start |-> 0, seen |-> {}]

\* Only a refresh looks at the time its transaction began.
Begin(r, op, pc, t, u) ==
  /\ tx[r].pc = "idle"
  /\ tx' = [tx EXCEPT ![r] = [op |-> op, pc |-> pc, token |-> t, user |-> u,
                              start |-> IF op = "refresh" THEN now ELSE 0,
                              seen |-> {}]]

Goto(r, op, pc) == tx' = [tx EXCEPT ![r].op = op, ![r].pc = pc]

\* Mutant: an ended request leaves its row locks behind.
FinishKeepingLocks(r) ==
  /\ tx' = [tx EXCEPT ![r] = Idle]
  /\ UNCHANGED lock

\* Commit and rollback alike end the transaction and free its rows.
Finish(r) ==
  /\ tx' = [tx EXCEPT ![r] = Idle]
  /\ lock' = [s \in Session |-> IF lock[s] = r THEN NoRequest ELSE lock[s]]

Free(s) == lock[s] = NoRequest
Acquire(r, s) == lock' = [lock EXCEPT ![s] = r]

\* The bound on issued sessions: a request that may insert a row has one left.
Capacity == Cardinality({s \in Session : ~Issued(s)})
              > Cardinality({r \in Request : tx[r].op \in {"login", "refresh"}})

-----------------------------------------------------------------------------
Init ==
  /\ sessions = [s \in Session |-> NoRow]
  /\ active = User
  /\ now = 0
  /\ lock = [s \in Session |-> NoRequest]
  /\ tx = [r \in Request |-> Idle]

Tick ==
  /\ now < MaxTime
  /\ now' = now + 1
  /\ UNCHANGED <<sessions, active, lock, tx>>

(***************************************************************************)
(* Login, after the password was accepted: the status was read by          *)
(* find_user_by_login; the row appears when the transaction commits.       *)
(* login computes expires_at with the clock of the application             *)
(* (datetime.now), a rotation with that of the database (now()): the two   *)
(* are taken to be one clock.  The expiry in RotationChain relies on it.   *)
(***************************************************************************)
LoginCheck(r, u) ==
  /\ u \in active
  /\ Capacity
  /\ Begin(r, "login", "insert", NoSession, u)
  /\ UNCHANGED <<sessions, active, now, lock>>

LoginCommit(r, n) ==
  /\ tx[r].op = "login"
  /\ ~Issued(n)
  /\ sessions' = [sessions EXCEPT ![n] =
                    NewRow(tx[r].user, n, NoSession, now + RefreshTtl)]
  /\ Finish(r)
  /\ UNCHANGED <<active, now>>

(***************************************************************************)
(* Refresh: auth_rotate_session.  SELECT ... FOR UPDATE waits for the row; *)
(* the verdict is taken on what the row holds then.  now() in SQL is the   *)
(* start of the transaction.                                               *)
(***************************************************************************)
RefreshBegin(r, t) ==
  /\ Issued(t)
  /\ Revoked(t) \/ Capacity
  /\ Begin(r, "refresh", "lock", t, sessions[t].user)
  /\ UNCHANGED <<sessions, active, now, lock>>

AtVerdict(r) == tx[r].pc = "lock" /\ Free(tx[r].token)

\* Mutant: revision 0003, where every revoked token was a theft.
NeverWithinGrace(row, start) == FALSE

WithinGrace(row, start) ==
  /\ row.state = "rotated"
  /\ row.rotated_at + Grace > start

\* Mutant: the status of the owner is not looked at again.
RotatableForAnybody(row, start) ==
  /\ row.state = "live"
  /\ row.expires_at > start

Rotatable(row, start) ==
  /\ row.state = "live"
  /\ row.expires_at > start
  /\ row.user \in active

\* 'race', 'expired' and 'inactive_user': nothing is written.
RefreshRefuse(r) ==
  /\ AtVerdict(r)
  /\ LET row == sessions[tx[r].token] IN
       \/ WithinGrace(row, tx[r].start)
       \/ row.state = "live" /\ ~Rotatable(row, tx[r].start)
  /\ Finish(r)
  /\ UNCHANGED <<sessions, active, now>>

\* 'reuse': the row stays locked while the family is revoked.
RefreshReuse(r) ==
  /\ AtVerdict(r)
  /\ Revoked(tx[r].token)
  /\ ~WithinGrace(sessions[tx[r].token], tx[r].start)
  /\ Acquire(r, tx[r].token)
  /\ Goto(r, "reuse_detected", "snapshot")
  /\ UNCHANGED <<sessions, active, now>>

\* Mutant: SELECT without FOR UPDATE.
RefreshAcceptUnlocked(r) ==
  /\ AtVerdict(r)
  /\ Rotatable(sessions[tx[r].token], tx[r].start)
  /\ Goto(r, "refresh", "insert")
  /\ UNCHANGED <<sessions, active, now, lock>>

\* 'rotated': the row stays locked until the successor is committed.
RefreshAccept(r) ==
  /\ AtVerdict(r)
  /\ Rotatable(sessions[tx[r].token], tx[r].start)
  /\ Acquire(r, tx[r].token)
  /\ Goto(r, "refresh", "insert")
  /\ UNCHANGED <<sessions, active, now>>

\* Mutant: the INSERT omits token_family_id and takes the column default.
RefreshCommitNewFamily(r, n) ==
  LET old == tx[r].token
      row == sessions[old]
  IN
  /\ tx[r].op = "refresh" /\ tx[r].pc = "insert"
  /\ ~Issued(n)
  /\ sessions' = [sessions EXCEPT
       ![n] = NewRow(row.user, n, old, tx[r].start + RefreshTtl),
       ![old] = RotatedRow(row, tx[r].start, n)]
  /\ Finish(r)
  /\ UNCHANGED <<active, now>>

RefreshCommit(r, n) ==
  LET old == tx[r].token
      row == sessions[old]
  IN
  /\ tx[r].op = "refresh" /\ tx[r].pc = "insert"
  /\ ~Issued(n)
  /\ sessions' = [sessions EXCEPT
       ![n] = NewRow(row.user, row.family, old, tx[r].start + RefreshTtl),
       ![old] = RotatedRow(row, tx[r].start, n)]
  /\ Finish(r)
  /\ UNCHANGED <<active, now>>

(***************************************************************************)
(* The revoking requests: UPDATE sessions ... WHERE <scope> AND            *)
(* revoked_at IS NULL.                                                     *)
(***************************************************************************)
LogoutBegin(r, t) ==
  /\ Issued(t)
  /\ Begin(r, "logout", "snapshot", t, sessions[t].user)
  /\ UNCHANGED <<sessions, active, now, lock>>

RevokeSessionBegin(r, t) ==
  /\ Issued(t)
  /\ Begin(r, "revoked_by_admin", "snapshot", t, sessions[t].user)
  /\ UNCHANGED <<sessions, active, now, lock>>

\* auth_verify_request: what get_actor demands of the caller's session.
VerifyRequest(s) ==
  /\ Live(s)
  /\ sessions[s].expires_at > now
  /\ sessions[s].user \in active

LogoutAllBegin(r, s) ==
  /\ VerifyRequest(s)
  /\ Begin(r, "logout_all", "snapshot", s, sessions[s].user)
  /\ UNCHANGED <<sessions, active, now, lock>>

\* deactivate_user commits the status first, in a transaction of its own.
DeactivateBegin(r, u) ==
  /\ Begin(r, "user_disabled", "snapshot", NoSession, u)
  /\ active' = active \ {u}
  /\ UNCHANGED <<sessions, now, lock>>

InScope(q, s) ==
  CASE q.op \in {"logout", "revoked_by_admin"}  -> s = q.token
    [] q.op \in {"logout_all", "user_disabled"} -> sessions[s].user = q.user
    [] q.op = "reuse_detected" -> sessions[s].family = sessions[q.token].family
    [] OTHER                                    -> FALSE

\* The snapshot of the UPDATE fixes the rows it will visit.
RevokeSnapshot(r) ==
  /\ tx[r].pc = "snapshot"
  /\ tx' = [tx EXCEPT ![r].pc = "update",
                      ![r].seen = {s \in Session : Live(s) /\ InScope(tx[r], s)}]
  /\ UNCHANGED <<sessions, active, now, lock>>

RevokeLock(r, s) ==
  /\ tx[r].pc = "update"
  /\ s \in tx[r].seen
  /\ Free(s)
  /\ Acquire(r, s)
  /\ UNCHANGED <<sessions, active, now, tx>>

\* Mutant: the UPDATE lost its revoked_at IS NULL.
RevokeRowsAgain(r) ==
  [s \in Session |-> IF s \in tx[r].seen
                       THEN RevokedRow(sessions[s], tx[r].op)
                       ELSE sessions[s]]

\* A visited row is looked at again under its lock: one revoked meanwhile
\* no longer satisfies revoked_at IS NULL and is left as it is.
RevokeRows(r) ==
  [s \in Session |-> IF s \in tx[r].seen /\ Live(s)
                       THEN RevokedRow(sessions[s], tx[r].op)
                       ELSE sessions[s]]

RevokeCommit(r) ==
  /\ tx[r].pc = "update"
  /\ \A s \in tx[r].seen : lock[s] = r
  /\ sessions' = RevokeRows(r)
  /\ Finish(r)
  /\ UNCHANGED <<active, now>>

(***************************************************************************)
(* A request may die at any point: the worker crashes, the client's        *)
(* connection drops, statement_timeout or the deadlock detector fires.     *)
(* PostgreSQL then rolls the transaction back.                             *)
(***************************************************************************)
Abort(r) ==
  /\ tx[r].pc # "idle"
  /\ Finish(r)
  /\ UNCHANGED <<sessions, active, now>>

-----------------------------------------------------------------------------
Arrive(r) ==
  \/ \E u \in User : LoginCheck(r, u) \/ DeactivateBegin(r, u)
  \/ \E s \in Session : \/ RefreshBegin(r, s)
                        \/ LogoutBegin(r, s)
                        \/ RevokeSessionBegin(r, s)
                        \/ LogoutAllBegin(r, s)

Step(r) ==
  \/ \E n \in Session : LoginCommit(r, n) \/ RefreshCommit(r, n)
  \/ RefreshRefuse(r) \/ RefreshReuse(r) \/ RefreshAccept(r)
  \/ RevokeSnapshot(r)
  \/ \E s \in Session : RevokeLock(r, s)
  \/ RevokeCommit(r)

Next ==
  \/ Tick
  \/ \E r \in Request : Arrive(r) \/ Step(r) \/ Abort(r)

Spec == Init /\ [][Next]_vars
-----------------------------------------------------------------------------
(***************************************************************************)
(* Fairness.  A statement that can run does run; a row lock is granted in  *)
(* the order it was asked for, so a request does not starve at a row       *)
(* others keep taking (strong fairness); the deadlock detector ends every  *)
(* circle of waiting transactions.  No request is obliged to arrive.       *)
(***************************************************************************)
Wants(r) ==
  CASE tx[r].pc = "lock"   -> {tx[r].token}
    [] tx[r].pc = "update" -> {s \in tx[r].seen : lock[s] # r}
    [] OTHER               -> {}

\* Every request of D waits, and only for requests of D.
WaitingCircle(D) ==
  \A q \in D : /\ Wants(q) # {}
               /\ \A s \in Wants(q) : lock[s] \in D \ {q}

DeadlockVictim(r) ==
  /\ \E D \in SUBSET Request : r \in D /\ WaitingCircle(D)
  /\ Abort(r)

Fairness == \A r \in Request : SF_vars(Step(r)) /\ WF_vars(DeadlockVictim(r))

FairSpec == Spec /\ Fairness

-----------------------------------------------------------------------------
(***************************************************************************)
(* Properties.                                                             *)
(***************************************************************************)

\* Every variable holds values of its kind.
TypeOK ==
  /\ sessions \in [Session -> Row]
  /\ active \in SUBSET User
  /\ now \in Nat
  /\ lock \in [Session -> Request \cup {NoRequest}]
  /\ tx \in [Request -> Tx]

\* However refreshes, logouts and revocations interleave, a token family
\* never has two usable sessions: of parallel refreshes one wins
\* (auth_service.refresh: "exactly one receives a new pair of tokens").
OneLiveSessionPerFamily ==
  \A s, t \in Session :
    Live(s) /\ Live(t) /\ sessions[s].family = sessions[t].family => s = t

\* All sessions of a family but one were rotated.  So whichever revocation
\* ends a session - logout, an administrator, logout-all - ends its family:
\* no refresh running beside it leaves or later opens a usable one.
OneEndPerFamily ==
  \A s, t \in Session :
    /\ sessions[s].state \notin {"absent", "rotated"}
    /\ sessions[t].state \notin {"absent", "rotated"}
    /\ sessions[s].family = sessions[t].family
    => s = t

\* The rotated rows form chains: a rotated session names the one successor
\* that names it as parent, of the same family and user and living no
\* shorter; no session that ended otherwise has a successor.  A 'race'
\* answer sends the client to replaced_by_session_id.
RotationChain ==
  \A s \in Session :
    /\ (sessions[s].state = "rotated") = (sessions[s].replaced_by # NoSession)
    /\ sessions[s].replaced_by # NoSession =>
         LET next == sessions[s].replaced_by IN
           /\ Issued(next) /\ sessions[next].parent = s
           /\ sessions[next].family = sessions[s].family
           /\ sessions[next].user = sessions[s].user
           /\ sessions[next].expires_at >= sessions[s].expires_at
    /\ sessions[s].parent # NoSession =>
         sessions[sessions[s].parent].replaced_by = s

\* A revoked row is never written again: a revocation that waited for a
\* row another request ended must not overwrite the reason, the successor
\* or the time that the grace window is computed from.
RevokedIsFinal ==
  [][\A s \in Session : Revoked(s) => sessions'[s] = sessions[s]]_sessions

\* The request r revokes session s with this step, on its verdict "reuse".
RevokesForReuse(r, s) ==
  /\ tx[r].op = "reuse_detected" /\ tx[r].pc = "update"
  /\ s \in tx[r].seen
  /\ tx'[r].pc = "idle"

\* A session is revoked for reuse only by a request that presented a token of
\* its family, and that token was revoked otherwise or rotated at least Grace
\* before the request began.  The loser of a race, who presents the token the
\* winner has just rotated, never takes the winner's session with it, however
\* old the other tokens of the family are (auth_service.refresh, result "race").
NoReuseVerdictWithinGrace ==
  [][\A s \in Session :
       Live(s) /\ sessions'[s].state = "reuse_detected" =>
         \E r \in Request :
           /\ RevokesForReuse(r, s)
           /\ Revoked(tx[r].token)
           /\ sessions[tx[r].token].family = sessions[s].family
           /\ sessions[tx[r].token].state = "rotated" =>
                sessions[tx[r].token].rotated_at + Grace <= tx[r].start]_sessions

\* A request past its checks is about to give user u a session; nobody will.
LetIn(r, u) ==
  \/ tx[r].op = "login" /\ tx[r].user = u
  \/ tx[r].op = "refresh" /\ tx[r].pc = "insert" /\ sessions[tx[r].token].user = u
ShutOut(u) == u \notin active /\ \A r \in Request : ~LetIn(r, u)

\* The transaction that revokes the sessions of a deactivated user comes after
\* the one that sets the status (user_service.deactivate_user) and may never
\* come about.  The status alone must do: once the requests that were let in
\* before are over, the user gets no session again, from no token.
DeactivatedStayOut ==
  [][\A u \in User : ShutOut(u) =>
       /\ ShutOut(u)'
       /\ \A s \in Session : ~Issued(s) /\ Issued(s)' => sessions'[s].user # u]_vars

\* A request that cannot go on until others free the rows it wants.
Blocked(r) == Wants(r) # {} /\ \A s \in Wants(r) : ~Free(s)

\* Where nothing moves the deadlock detector finds something to end: blocked
\* requests that wait for no other request under way wait in a circle.  No row
\* is locked by a request that is over, and none waits for itself.
StandstillIsACircle ==
  LET underWay == {r \in Request : tx[r].pc # "idle"} IN
  \A D \in SUBSET underWay :
    (\A q \in D : Blocked(q) /\ \A s \in Wants(q) : lock[s] \notin underWay \ D)
    => WaitingCircle(D)

\* Every request ends, whatever locks the others hold.
RequestsEnd == \A r \in Request : tx[r].pc # "idle" ~> tx[r].pc = "idle"

-----------------------------------------------------------------------------
(***************************************************************************)
(* The inductive invariant behind OneLiveSessionPerFamily, RotationChain   *)
(* and the refinement.  Beside the two properties it says what each        *)
(* request knows between its steps.                                        *)
(***************************************************************************)

\* A row not issued is blank; a family is named by an issued session.
FamiliesRooted ==
  \A s \in Session :
    IF Issued(s) THEN /\ sessions[s].family \in Session
                      /\ Issued(sessions[s].family)
                 ELSE sessions[s] = NoRow

\* Where a request stands agrees with what it does.
PhasesAgree ==
  \A r \in Request :
    /\ tx[r].op = "login" => tx[r].pc = "insert" /\ tx[r].user \in User
    /\ tx[r].op = "refresh" => tx[r].pc \in {"lock", "insert"}
    /\ tx[r].pc \in {"snapshot", "update"} => tx[r].op \in BulkReason
    /\ tx[r].pc = "lock" => tx[r].op = "refresh"

\* A refresh names an issued session; past the verdict it holds that row,
\* and the row is still live.
RotationsHoldTheirRow ==
  \A r \in Request : tx[r].op = "refresh" =>
    /\ tx[r].token \in Session /\ Issued(tx[r].token)
    /\ tx[r].pc = "insert" => /\ lock[tx[r].token] = r
                              /\ Live(tx[r].token)

\* Rows are locked by requests past their first wait.
LocksAreHeld ==
  \A s \in Session :
    lock[s] # NoRequest => tx[lock[s]].pc \in {"insert", "snapshot", "update"}

\* A revocation visits issued rows; a reuse verdict rests on a revoked one.
RevocationsVisitRows ==
  \A r \in Request :
    /\ tx[r].pc = "update" => \A s \in tx[r].seen : Issued(s)
    /\ tx[r].op = "reuse_detected" =>
         tx[r].token \in Session /\ Revoked(tx[r].token)

\* A reuse verdict rests on a token whose grace was over when the request
\* began, and its UPDATE visits the family of that token.
ReuseHasEvidence ==
  \A r \in Request : tx[r].op = "reuse_detected" =>
    LET token == sessions[tx[r].token] IN
    /\ token.state = "rotated" => token.rotated_at + Grace <= tx[r].start
    /\ tx[r].pc = "update" => \A s \in tx[r].seen : sessions[s].family = token.family

\* No session outlives the longest one a transaction begun now can write.
ExpiryBounded ==
  /\ \A s \in Session : sessions[s].expires_at <= now + RefreshTtl
  /\ \A r \in Request : tx[r].op = "refresh" =>
       /\ tx[r].start <= now
       /\ sessions[tx[r].token].expires_at <= tx[r].start + RefreshTtl

IInv ==
  /\ TypeOK
  /\ FamiliesRooted
  /\ PhasesAgree
  /\ RotationsHoldTheirRow
  /\ LocksAreHeld
  /\ RevocationsVisitRows
  /\ ReuseHasEvidence
  /\ ExpiryBounded
  /\ OneLiveSessionPerFamily
  /\ OneEndPerFamily
  /\ RotationChain

-----------------------------------------------------------------------------
(***************************************************************************)
(* The table implements the contract of TokenFamily: the head of a family  *)
(* is its live session.                                                    *)
(***************************************************************************)
LiveOf(f) == {s \in Session : Live(s) /\ sessions[s].family = f}

Family == INSTANCE TokenFamily WITH
            Token <- Session,
            head  <- [f \in Session |-> LiveOf(f)],
            used  <- {s \in Session : Issued(s)}

\* Every behaviour of the table is one of the abstract token family.
ImplementsTokenFamily == Family!Spec

-----------------------------------------------------------------------------
(***************************************************************************)
(* What messages, summaries and tests say of a completed revocation, and   *)
(* the interleavings above contradict.                                     *)
(***************************************************************************)
\* No session of the families in F survives the step.
Closes(F) == \A s \in Session :
               sessions'[s].family \in F => sessions'[s].state # "live"

\* The reuse verdict (auth_service.refresh) and POST /auth/logout-all answer
\* that all sessions are revoked: every family the UPDATE found alive is dead
\* when it has committed.
AllMeansAll ==
  [][\A r \in Request :
       tx[r].op \in {"reuse_detected", "logout_all"} /\ RevokeCommit(r) =>
         Closes({sessions[s].family : s \in tx[r].seen})]_vars
=============================================================================
