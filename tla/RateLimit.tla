----------------------------- MODULE RateLimit ------------------------------
(***************************************************************************)
(* The limiter of login attempts (security/rate_limit.py) over its two     *)
(* stores.  "memory" keeps the times of the attempts of a key and forgets  *)
(* those older than the window; "redis" keeps a counter that vanishes a    *)
(* window after EXPIRE, which is a call of its own after the first INCR.   *)
(*                                                                         *)
(* A Request is one attempt; it is counted at most once under a key.  The  *)
(* value of the counter is the number of the requests in hits.             *)
(***************************************************************************)
EXTENDS Integers, FiniteSets

CONSTANTS Request, Key,
          Limit,      \* login_rate_limit
          Window,     \* login_rate_window_seconds
          MaxTime     \* bound of the clock

ASSUME Limits == Limit \in Nat \ {0} /\ Window \in Nat \ {0} /\ MaxTime \in Nat

VARIABLES backend,    \* RATE_LIMIT_BACKEND
          now,
          hits,       \* hits[k]: the attempts a store counts under key k
          until,      \* until[k]: when the key expires; Unset without a TTL
          time,       \* time[k][r]: when r was counted under k, else Unset
          passed      \* history, passed[k]: the attempts that were let through

limiterVars == <<backend, now, hits, until, time, passed>>

Unset == -1

LimiterInit ==
  /\ backend \in {"memory", "redis"}
  /\ now = 0
  /\ hits = [k \in Key |-> {}]
  /\ until = [k \in Key |-> Unset]
  /\ time = [k \in Key |-> [r \in Request |-> Unset]]
  /\ passed = [k \in Key |-> {}]

Expired(k) == until[k] # Unset /\ until[k] <= now

\* The attempts that still count.  A refused attempt counts like any other.
Fresh(k) ==
  IF backend = "redis"
    THEN IF Expired(k) THEN {} ELSE hits[k]
    ELSE {r \in hits[k] : now - time[k][r] < Window}

\* Mutant: the comparison comes before the attempt is added.
AllowsBeforeAdding(k, r) == Cardinality(Fresh(k)) <= Limit

Allows(k, r) == Cardinality(Fresh(k) \cup {r}) <= Limit

\* INCR answered 1: the caller still has to set the expiry.
StartsCounter(k) == backend = "redis" /\ Fresh(k) = {}

\* check_and_count, or INCR.
Count(k, r) ==
  /\ time[k][r] = Unset
  /\ hits' = [hits EXCEPT ![k] = Fresh(k) \cup {r}]
  /\ until' = [until EXCEPT ![k] = IF Fresh(k) = {} THEN Unset ELSE @]
  /\ time' = [time EXCEPT ![k][r] = now]
  /\ passed' = [passed EXCEPT ![k] = IF Allows(k, r) THEN @ \cup {r} ELSE @]
  /\ UNCHANGED <<backend, now>>

\* EXPIRE; it finds nothing to do when the key is gone.
SetExpiry(k) ==
  /\ backend = "redis"
  /\ until' = IF Fresh(k) = {} THEN until ELSE [until EXCEPT ![k] = now + Window]
  /\ UNCHANGED <<backend, now, hits, time, passed>>

Tick ==
  /\ now < MaxTime
  /\ now' = now + 1
  /\ UNCHANGED <<backend, hits, until, time, passed>>

LimiterNext ==
  \/ Tick
  \/ \E k \in Key : SetExpiry(k) \/ \E r \in Request : Count(k, r)

LimiterSpec == LimiterInit /\ [][LimiterNext]_limiterVars

-----------------------------------------------------------------------------
LimiterTypeOK ==
  /\ backend \in {"memory", "redis"}
  /\ now \in Nat
  /\ hits \in [Key -> SUBSET Request]
  /\ until \in [Key -> Nat \cup {Unset}]
  /\ time \in [Key -> [Request -> Nat \cup {Unset}]]
  /\ passed \in [Key -> SUBSET Request]

\* The attempts under k let through between t and t + Window.
PassedIn(k, t) == {r \in passed[k] : t <= time[k][r] /\ time[k][r] < t + Window}

\* The times kept in memory slide with the window.  Two counters of Redis may
\* meet in one window, but the second begins no earlier than a window after
\* the first attempt of the first one.
Bound == IF backend = "memory" THEN Limit ELSE 2 * Limit - 1

\* What a caller may rely on: in no window more attempts of a key are let
\* through than the store promises.
WindowLimited ==
  \A k \in Key, t \in 0 .. now : Cardinality(PassedIn(k, t)) <= Bound

\* Whatever a store counts, or has let through, has a time in the past.
TimesKnown ==
  \A k \in Key :
    /\ hits[k] \cup passed[k] \subseteq {r \in Request : time[k][r] # Unset}
    /\ \A r \in Request : time[k][r] <= now

\* Memory: nobody within the window is forgotten.
RecentAreKept ==
  backend = "memory" =>
    \A k \in Key : \A r \in passed[k] : now - time[k][r] < Window => r \in hits[k]

\* Redis: attempts let through by counters before the present one, which
\* began at s, that share a window with it.
Earlier(k, s) == {r \in passed[k] \ hits[k] : time[k][r] > s - Window}

\* Redis: f began the present counter; it is one of the at most Limit that the
\* counter lets through, and the first of the one before is a window away.
Counters ==
  backend = "redis" =>
    \A k \in Key :
      \/ hits[k] = {} /\ passed[k] = {}
      \/ \E f \in hits[k] :
           /\ until[k] = Unset \/ time[k][f] + Window <= until[k]
           /\ \A r \in hits[k] : time[k][f] <= time[k][r]
           /\ \A r \in passed[k] \ hits[k] : time[k][r] <= time[k][f]
           /\ Cardinality((passed[k] \cap hits[k]) \cup {f}) <= Limit
           /\ Cardinality(Earlier(k, time[k][f])) <= Limit - 1

LimiterInv == LimiterTypeOK /\ TimesKnown /\ RecentAreKept /\ Counters /\ WindowLimited
=============================================================================
