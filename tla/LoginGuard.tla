----------------------------- MODULE LoginGuard -----------------------------
(***************************************************************************)
(* POST /auth/login (auth_service.login): the limiter asked for the        *)
(* address and for the login, then one transaction of system_session that  *)
(* finds the user, compares the password and notes the outcome, and the    *)
(* audit entry, which needs a connection of another pool.  A refusal       *)
(* raises inside session.begin(), so its transaction is rolled back, but   *)
(* only after the entry has been written: until then it keeps a runtime    *)
(* connection and, after a wrong password, the row of the user.            *)
(***************************************************************************)
EXTENDS RateLimit

CONSTANTS Ip, Login,   \* the two kinds of keys
          NoKey,
          RuntimePool, AuditPool,   \* connections of the two engines
          MaxFailed, LockTime       \* max_failed_attempts, lock_minutes

ASSUME Keys == /\ Key = Ip \cup Login /\ Ip \cap Login = {}
               /\ NoKey \notin Key
ASSUME Pools == RuntimePool \in Nat \ {0} /\ AuditPool \in Nat \ {0}
ASSUME Locks == MaxFailed \in Nat \ {0} /\ LockTime \in Nat \ {0}
ASSUME FiniteRequests == IsFiniteSet(Request)

VARIABLES req,       \* where each attempt stands
          account    \* committed users.failed_attempts, users.locked_until

vars == <<backend, now, hits, until, time, passed, req, account>>

Row == [failed : Nat, lockedUntil : Nat]   \* lockedUntil 0 stands for NULL
Clean == [failed |-> 0, lockedUntil |-> 0]

\* row is the user as the open transaction has it.
Attempt == [pc      : {"idle", "expireIp", "login", "expireLogin", "begin", "row",
                       "audit", "log", "answered", "failed"},
            ip      : Ip \cup {NoKey},
            login   : Login \cup {NoKey},
            verdict : {"none", "blocked", "wrong", "right"},
            row     : Row]

NoAttempt == [pc |-> "idle", ip |-> NoKey, login |-> NoKey,
              verdict |-> "none", row |-> Clean]

Init ==
  /\ LimiterInit
  /\ req = [r \in Request |-> NoAttempt]
  /\ account = [l \in Login |-> Clean]

Running(r) == req[r].pc \notin {"idle", "answered", "failed"}

-----------------------------------------------------------------------------
(***************************************************************************)
(* Who holds what.  A login that succeeds has committed before its entry.  *)
(***************************************************************************)
Logging(r) == req[r].pc \in {"audit", "log"}
UsesRuntime(r) == req[r].pc = "row" \/ (Logging(r) /\ req[r].verdict # "right")
HoldsRow(r) == Logging(r) /\ req[r].verdict = "wrong"

RuntimeFree == Cardinality({r \in Request : UsesRuntime(r)}) < RuntimePool
RowFree(l) == \A r \in Request : HoldsRow(r) => req[r].login # l

\* Mutant: one pool serves both.
AuditFreeShared ==
  Cardinality({r \in Request : UsesRuntime(r) \/ req[r].pc = "log"}) < RuntimePool

AuditFree == Cardinality({r \in Request : req[r].pc = "log"}) < AuditPool

-----------------------------------------------------------------------------
Goto(r, pc) == req' = [req EXCEPT ![r].pc = pc]

\* Where an attempt counted under key k goes: on to the next, to EXPIRE
\* first, or to the answer 429.
Counted(k, r, expire, next) ==
  IF StartsCounter(k) THEN expire ELSE IF Allows(k, r) THEN next ELSE "answered"

\* The address is counted first.
CountIp(r, ip, login) ==
  /\ req[r].pc = "idle"
  /\ Count(ip, r)
  /\ req' = [req EXCEPT ![r] =
               [pc |-> Counted(ip, r, "expireIp", "login"), ip |-> ip, login |-> login,
                verdict |-> "none", row |-> Clean]]
  /\ UNCHANGED account

\* Mutant: a second attempt of a login goes on although it was refused.
CountLoginUnread(r) ==
  /\ req[r].pc = "login"
  /\ Count(req[r].login, r)
  /\ Goto(r, IF StartsCounter(req[r].login) THEN "expireLogin" ELSE "begin")
  /\ UNCHANGED account

CountLogin(r) ==
  /\ req[r].pc = "login"
  /\ Count(req[r].login, r)
  /\ Goto(r, Counted(req[r].login, r, "expireLogin", "begin"))
  /\ UNCHANGED account

ExpireKey(r) ==
  /\ \/ req[r].pc = "expireIp" /\ SetExpiry(req[r].ip) /\ Goto(r, "login")
     \/ req[r].pc = "expireLogin" /\ SetExpiry(req[r].login) /\ Goto(r, "begin")
  /\ UNCHANGED account

Locked(l) == account[l].lockedUntil > now

\* Nobody has this login, which UserAdmin decides and may be so at any time,
\* or the account is locked: 401 or 423, rolled back.
Refuse(r) ==
  /\ req[r].pc = "begin" /\ RuntimeFree
  /\ Goto(r, "answered")
  /\ UNCHANGED <<limiterVars, account>>

\* A status other than active answers 403 before the password is looked at,
\* and may be found at any time, too.
Judge(r, verdict) ==
  /\ req[r].pc = "begin" /\ RuntimeFree
  /\ ~Locked(req[r].login)
  /\ verdict \in {"blocked", "wrong", "right"}
  /\ req' = [req EXCEPT ![r].pc = IF verdict = "blocked" THEN "audit" ELSE "row",
                        ![r].verdict = verdict]
  /\ UNCHANGED <<limiterVars, account>>

\* auth_register_failure: the row as the next attempt would see it.
Failed(row) ==
  [failed |-> row.failed + 1,
   lockedUntil |-> IF row.failed + 1 >= MaxFailed THEN now + LockTime
                   ELSE row.lockedUntil]

RegisterFailure(r) ==
  /\ req[r].pc = "row" /\ req[r].verdict = "wrong"
  /\ RowFree(req[r].login)
  /\ req' = [req EXCEPT ![r].pc = "audit", ![r].row = Failed(account[req[r].login])]
  /\ UNCHANGED <<limiterVars, account>>

\* create_session, register_success, record_attempt and the commit.
RegisterSuccess(r) ==
  /\ req[r].pc = "row" /\ req[r].verdict = "right"
  /\ RowFree(req[r].login)
  /\ account' = [account EXCEPT ![req[r].login] = Clean]
  /\ Goto(r, "audit")
  /\ UNCHANGED limiterVars

TakeAuditConnection(r) ==
  /\ req[r].pc = "audit" /\ AuditFree
  /\ Goto(r, "log")
  /\ UNCHANGED <<limiterVars, account>>

\* The answer, with or without an entry: record swallows its errors, the
\* timeout of the pool among them.  Unless the login succeeded an exception
\* leaves session.begin(): the row is dropped.
Answer(r) ==
  /\ req[r].pc = "log" \/ (req[r].pc = "audit" /\ ~AuditFree)
  /\ req' = [req EXCEPT ![r].pc = "answered", ![r].row = Clean]
  /\ UNCHANGED <<limiterVars, account>>

\* Redis is unreachable or its reply is lost, the pool times out, the
\* connection breaks, or the process dies.  A store is never bypassed.
Fail(r) ==
  /\ Running(r)
  /\ req' = [req EXCEPT ![r].pc = "failed", ![r].row = Clean]
  /\ UNCHANGED <<limiterVars, account>>

Next ==
  \/ Tick /\ UNCHANGED <<req, account>>
  \/ \E r \in Request :
       \/ \E ip \in Ip, login \in Login : CountIp(r, ip, login)
       \/ CountLogin(r) \/ ExpireKey(r)
       \/ Refuse(r) \/ \E verdict \in {"blocked", "wrong", "right"} : Judge(r, verdict)
       \/ RegisterFailure(r) \/ RegisterSuccess(r)
       \/ TakeAuditConnection(r) \/ Answer(r) \/ Fail(r)

Spec == Init /\ [][Next]_vars

-----------------------------------------------------------------------------
TypeOK ==
  /\ LimiterTypeOK
  /\ req \in [Request -> Attempt]
  /\ account \in [Login -> Row]
  /\ \A r \in Request :
       req[r].pc # "idle" => req[r].ip \in Ip /\ req[r].login \in Login

Compared == {r \in Request : req[r].verdict \in {"wrong", "right"}}

\* The attempts counted under key k between t and t + Window whose password has
\* been compared, whenever that was: an attempt that has been counted may wait
\* for a connection before its password is looked at.
Guesses(k, t) ==
  {r \in Compared : /\ k \in {req[r].ip, req[r].login}
                    /\ t <= time[k][r] /\ time[k][r] < t + Window}

\* However attempts overlap and fail, of those counted under an address or a
\* login in one window no more have their passwords compared than the store
\* promises, and no password is compared on an attempt that was not counted
\* under both keys.  It says nothing of the window the comparisons fall in:
\* attempts of two windows that wait for the pool may be compared together.
GuessesLimited ==
  /\ \A r \in Compared : \A k \in {req[r].ip, req[r].login} : time[k][r] # Unset
  /\ \A k \in Key, t \in 0 .. now : Cardinality(Guesses(k, t)) <= Bound

\* What an attempt waits for is there.
CanMove(r) ==
  /\ Running(r)
  /\ req[r].pc = "begin" => RuntimeFree
  /\ req[r].pc = "row" => RowFree(req[r].login)
  /\ req[r].pc = "audit" => AuditFree

\* Attempts never all wait for one another's connections and rows: while some
\* are running one of them can go on, without the help of a timeout.
SomebodyMoves ==
  (\E r \in Request : Running(r)) => \E r \in Request : CanMove(r)

\* What the changelog says: after MaxFailed answers "wrong password", none of
\* them after a success, the account is locked.
AccountLocks ==
  \A l \in Login :
    LET of(verdict) == {r \in Request : req[r].login = l /\ req[r].verdict = verdict}
        told == {r \in of("wrong") : req[r].pc = "answered"}
    IN  of("right") = {} /\ Cardinality(told) >= MaxFailed => account[l].lockedUntil # 0

\* An attempt gets no further than the limiter has let it.
PassedBefore ==
  \A r \in Request :
    LET q == req[r] IN
    /\ q.pc = "idle" => \A k \in Key : time[k][r] = Unset
    /\ q.pc \in {"idle", "expireIp", "login"} => \A l \in Login : time[l][r] = Unset
    /\ q.pc \in {"idle", "expireIp", "login", "expireLogin", "begin"} =>
         q.verdict = "none"
    /\ q.pc \in {"expireIp", "login", "expireLogin", "begin", "row", "audit", "log"} =>
         r \in passed[q.ip]
    /\ q.pc \in {"expireLogin", "begin", "row", "audit", "log"} => r \in passed[q.login]
    /\ q.verdict # "none" => r \in passed[q.ip] /\ r \in passed[q.login]

IInv == TypeOK /\ LimiterInv /\ PassedBefore
=============================================================================
