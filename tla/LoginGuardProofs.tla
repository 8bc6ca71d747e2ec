-------------------------- MODULE LoginGuardProofs --------------------------
(***************************************************************************)
(* Theorems about the limiter and the login, for any number of attempts,   *)
(* keys and connections, and whichever store is configured.                *)
(***************************************************************************)
EXTENDS LoginGuard, FiniteSetTheorems, TLAPS

-----------------------------------------------------------------------------
(***************************************************************************)
(* Sets of attempts.                                                       *)
(***************************************************************************)

LEMMA SmallerSets ==
  ASSUME NEW T \in SUBSET Request, NEW S \in SUBSET T
  PROVE  Cardinality(S) \in Nat /\ Cardinality(T) \in Nat /\ Cardinality(S) <= Cardinality(T)
<1>1. IsFiniteSet(T)
  BY FiniteRequests, FS_Subset
<1> QED BY <1>1, FS_Subset, FS_CardinalityType

LEMMA Unions ==
  ASSUME NEW S \in SUBSET Request, NEW T \in SUBSET Request
  PROVE  Cardinality(S \cup T) <= Cardinality(S) + Cardinality(T)
<1>1. IsFiniteSet(S) /\ IsFiniteSet(T)
  BY FiniteRequests, FS_Subset
<1>2. Cardinality(S \cup T) = Cardinality(S) + Cardinality(T) - Cardinality(S \cap T)
  BY <1>1, FS_Union
<1>3. Cardinality(S) \in Nat /\ Cardinality(T) \in Nat /\ Cardinality(S \cap T) \in Nat
  BY SmallerSets
<1> QED BY <1>2, <1>3

LEMMA Singles ==
  ASSUME NEW r \in Request
  PROVE  Cardinality({r}) = 1
BY FS_Singleton

LEMMA LeavingOneOut ==
  ASSUME NEW S \in SUBSET Request, NEW r \in S
  PROVE  Cardinality(S \ {r}) = Cardinality(S) - 1
<1>1. IsFiniteSet(S)
  BY FiniteRequests, FS_Subset
<1> QED BY <1>1, FS_RemoveElement

-----------------------------------------------------------------------------
(***************************************************************************)
(* The limiter alone.                                                      *)
(***************************************************************************)

LEMMA LimiterTyped ==
  ASSUME LimiterTypeOK, LimiterNext
  PROVE  LimiterTypeOK'
<1> USE DEF LimiterTypeOK
<1>1. CASE Tick
  BY <1>1 DEF Tick
<1>2. ASSUME NEW k \in Key, SetExpiry(k) PROVE LimiterTypeOK'
  BY <1>2, Limits DEF SetExpiry
<1>3. ASSUME NEW k \in Key, NEW r \in Request, Count(k, r) PROVE LimiterTypeOK'
  <2>1. Fresh(k) \in SUBSET Request
    BY DEF Fresh
  <2> QED BY <1>3, <2>1, Z3 DEF Count, Unset
<1> QED BY <1>1, <1>2, <1>3 DEF LimiterNext

\* What counting r under k does to key k.
LEMMA Counting ==
  ASSUME LimiterInv, NEW k \in Key, NEW r \in Request, Count(k, r)
  PROVE  /\ r \notin hits[k] /\ r \notin passed[k]
         /\ Fresh(k) \in SUBSET hits[k]
         /\ hits'[k] = Fresh(k) \cup {r}
         /\ passed'[k] \in {passed[k], passed[k] \cup {r}}
         /\ Allows(k, r) <=> r \in passed'[k]
         /\ time'[k][r] = now
         /\ \A q \in Request \ {r} : time'[k][q] = time[k][q]
         /\ now' = now /\ backend' = backend
<1> USE DEF LimiterInv, LimiterTypeOK
<1>1. r \notin hits[k] /\ r \notin passed[k]
  BY DEF Count, TimesKnown
<1>2. Fresh(k) \in SUBSET hits[k]
  BY DEF Fresh
<1> QED BY <1>1, <1>2 DEF Count

\* The other keys are left alone.
LEMMA CountingElsewhere ==
  ASSUME LimiterInv, NEW k \in Key, NEW r \in Request, Count(k, r)
  PROVE  /\ \A j \in Key \ {k} : /\ hits'[j] = hits[j] /\ until'[j] = until[j]
                                 /\ time'[j] = time[j] /\ passed'[j] = passed[j]
         /\ now' = now /\ backend' = backend
BY DEF Count, LimiterInv, LimiterTypeOK

LEMMA TimesStayKnown ==
  ASSUME LimiterInv, LimiterNext
  PROVE  TimesKnown'
<1> DEFINE Known(j) == /\ hits[j] \cup passed[j] \subseteq {q \in Request : time[j][q] # Unset}
                       /\ \A q \in Request : time[j][q] <= now
<1>1. now \in Nat /\ time \in [Key -> [Request -> Nat \cup {Unset}]]
      /\ \A j \in Key : Known(j)
  BY DEF LimiterInv, LimiterTypeOK, TimesKnown
<1>2. CASE Tick
  BY <1>1, <1>2 DEF Tick, Unset, TimesKnown
<1>3. ASSUME NEW k \in Key, SetExpiry(k) PROVE TimesKnown'
  BY <1>1, <1>3 DEF SetExpiry, TimesKnown
<1>4. ASSUME NEW k \in Key, NEW r \in Request, Count(k, r) PROVE TimesKnown'
  <2>1. ASSUME NEW j \in Key, j # k PROVE Known(j)'
    <3>1. hits'[j] = hits[j] /\ time'[j] = time[j] /\ passed'[j] = passed[j] /\ now' = now
      BY <1>4, <2>1, CountingElsewhere, Counting
    <3> QED BY <3>1, <1>1
  <2>2. Known(k)'
    <3>1. /\ hits'[k] \subseteq hits[k] \cup {r}
          /\ passed'[k] \subseteq passed[k] \cup {r}
          /\ time'[k][r] = now /\ now' = now
          /\ \A q \in Request \ {r} : time'[k][q] = time[k][q]
      BY <1>4, Counting
    <3>2. Known(k)
      BY <1>1
    <3> QED BY <3>1, <3>2, <1>1 DEF Unset
  <2> QED BY <2>1, <2>2 DEF TimesKnown
<1> QED BY <1>2, <1>3, <1>4 DEF LimiterNext

LEMMA RecentStayKept ==
  ASSUME LimiterInv, LimiterNext
  PROVE  RecentAreKept'
<1> DEFINE Kept(j) == \A q \in passed[j] : now - time[j][q] < Window => q \in hits[j]
<1>1. /\ now \in Nat /\ time \in [Key -> [Request -> Nat \cup {Unset}]]
      /\ hits \in [Key -> SUBSET Request] /\ passed \in [Key -> SUBSET Request]
      /\ Window \in Nat
      /\ backend = "memory" => \A j \in Key : Kept(j)
  BY Limits DEF LimiterInv, LimiterTypeOK, RecentAreKept
<1>2. CASE Tick
  BY <1>1, <1>2 DEF Tick, Unset, RecentAreKept
<1>3. ASSUME NEW k \in Key, SetExpiry(k) PROVE RecentAreKept'
  BY <1>3, <1>1 DEF SetExpiry, RecentAreKept
<1>4. ASSUME NEW k \in Key, NEW r \in Request, Count(k, r), backend = "memory"
      PROVE  \A j \in Key : Kept(j)'
  <2>1. ASSUME NEW j \in Key, j # k PROVE Kept(j)'
    <3>1. hits'[j] = hits[j] /\ time'[j] = time[j] /\ passed'[j] = passed[j] /\ now' = now
      BY <1>4, <2>1, CountingElsewhere, Counting
    <3> QED BY <3>1, <1>1, <1>4
  <2>2. Kept(k)'
    <3>1. /\ hits'[k] = Fresh(k) \cup {r}
          /\ passed'[k] \subseteq passed[k] \cup {r}
          /\ now' = now
          /\ \A q \in Request \ {r} : time'[k][q] = time[k][q]
      BY <1>4, Counting
    <3>2. Fresh(k) = {q \in hits[k] : now - time[k][q] < Window}
      BY <1>4 DEF Fresh
    <3>3. Kept(k)
      BY <1>1, <1>4
    <3> QED BY <3>1, <3>2, <3>3, <1>1
  <2> QED BY <2>1, <2>2
<1>5. ASSUME NEW k \in Key, NEW r \in Request, Count(k, r) PROVE RecentAreKept'
  <2>1. backend' = backend
    BY <1>5 DEF Count
  <2> QED BY <1>4, <1>5, <2>1 DEF RecentAreKept
<1> QED BY <1>2, <1>3, <1>5 DEF LimiterNext

\* The counter of Redis: what Counters says of one key.
CounterOf(k) ==
  \/ hits[k] = {} /\ passed[k] = {}
  \/ \E f \in hits[k] :
       /\ until[k] = Unset \/ time[k][f] + Window <= until[k]
       /\ \A r \in hits[k] : time[k][f] <= time[k][r]
       /\ \A r \in passed[k] \ hits[k] : time[k][r] <= time[k][f]
       /\ Cardinality((passed[k] \cap hits[k]) \cup {f}) <= Limit
       /\ Cardinality(Earlier(k, time[k][f])) <= Limit - 1

\* An attempt that begins a counter.
LEMMA NewCounter ==
  ASSUME LimiterInv, backend = "redis",
         NEW k \in Key, NEW r \in Request, Count(k, r), Fresh(k) = {}
  PROVE  CounterOf(k)'
<1>1. /\ r \notin hits[k] /\ r \notin passed[k]
      /\ hits'[k] = {r} /\ time'[k][r] = now
      /\ \A q \in Request \ {r} : time'[k][q] = time[k][q]
      /\ passed'[k] \in SUBSET (passed[k] \cup {r})
  BY Counting
<1>2. /\ now \in Nat /\ time \in [Key -> [Request -> Nat \cup {Unset}]]
      /\ until \in [Key -> Nat \cup {Unset}]
      /\ hits \in [Key -> SUBSET Request] /\ passed \in [Key -> SUBSET Request]
      /\ Window \in Nat \ {0} /\ Limit \in Nat \ {0}
      /\ \A q \in Request : time[k][q] <= now
  BY Limits DEF LimiterInv, LimiterTypeOK, TimesKnown
<1>3. until'[k] = Unset
  BY <1>2 DEF Count
<1>4. Cardinality((passed'[k] \cap hits'[k]) \cup {r}) <= Limit
  <2>1. (passed'[k] \cap hits'[k]) \cup {r} = {r}
    BY <1>1
  <2> QED BY <2>1, Singles, <1>2
<1>5. \A q \in passed'[k] \ hits'[k] : q \in passed[k] /\ time'[k][q] = time[k][q]
                                       /\ time'[k][q] <= now
  BY <1>1, <1>2
<1>6. Cardinality(Earlier(k, now)') <= Limit - 1
  <2>1. Earlier(k, now)' \in SUBSET {q \in passed[k] : time[k][q] > now - Window}
    <3>1. Earlier(k, now)' = {q \in passed'[k] \ hits'[k] : time'[k][q] > now' - Window}
      BY DEF Earlier
    <3>2. now' = now
      BY Counting
    <3> QED BY <3>1, <3>2, <1>5
  <2>2. CASE hits[k] = {} /\ passed[k] = {}
    <3>1. Earlier(k, now)' = {}
      BY <2>1, <2>2
    <3> QED BY <3>1, FS_EmptySet, <1>2
  <2>3. CASE \E f \in hits[k] :
               /\ until[k] = Unset \/ time[k][f] + Window <= until[k]
               /\ \A q \in hits[k] : time[k][f] <= time[k][q]
               /\ \A q \in passed[k] \ hits[k] : time[k][q] <= time[k][f]
               /\ Cardinality((passed[k] \cap hits[k]) \cup {f}) <= Limit
    <3>1. PICK f \in hits[k] :
               /\ until[k] = Unset \/ time[k][f] + Window <= until[k]
               /\ \A q \in hits[k] : time[k][f] <= time[k][q]
               /\ \A q \in passed[k] \ hits[k] : time[k][q] <= time[k][f]
               /\ Cardinality((passed[k] \cap hits[k]) \cup {f}) <= Limit
      BY <2>3
    <3>2. Expired(k)
      BY <3>1 DEF Fresh
    <3>3. time[k][f] + Window <= now /\ time[k][f] \in Int
      BY <3>1, <3>2, <1>2 DEF Expired, Unset
    <3> DEFINE U == (passed[k] \cap hits[k]) \cup {f}
    <3>4. U \in SUBSET Request /\ f \in U /\ U \ {f} \in SUBSET Request
      BY <1>2, <3>1
    <3>5. Earlier(k, now)' \in SUBSET (U \ {f})
      <4>1. ASSUME NEW q \in Earlier(k, now)' PROVE q \in U \ {f}
        <5>1. q \in passed[k] /\ time[k][q] > now - Window /\ time[k][q] \in Int
          BY <2>1, <1>2 DEF Unset
        <5>2. ~(time[k][q] <= time[k][f])
          BY <5>1, <3>3, <1>2
        <5>3. q \in hits[k] /\ q # f
          BY <5>1, <5>2, <3>1, <3>3
        <5> QED BY <5>1, <5>3
      <4> QED BY <4>1
    <3>6. Cardinality(U \ {f}) = Cardinality(U) - 1
      BY <3>4, LeavingOneOut
    <3>7. Cardinality(Earlier(k, now)') <= Cardinality(U \ {f})
          /\ Cardinality(Earlier(k, now)') \in Nat /\ Cardinality(U \ {f}) \in Nat
          /\ Cardinality(U) \in Nat
      BY <3>4, <3>5, SmallerSets
    <3> QED BY <3>1, <3>6, <3>7, <1>2
  <2> QED BY <2>2, <2>3 DEF LimiterInv, Counters
<1>7. time'[k][r] <= time'[k][r]
  BY <1>1, <1>2
<1>8. /\ until'[k] = Unset \/ time'[k][r] + Window <= until'[k]
      /\ \A q \in hits'[k] : time'[k][r] <= time'[k][q]
      /\ \A q \in passed'[k] \ hits'[k] : time'[k][q] <= time'[k][r]
      /\ Cardinality((passed'[k] \cap hits'[k]) \cup {r}) <= Limit
  BY <1>1, <1>3, <1>4, <1>5, <1>7
<1>9. Cardinality(Earlier(k, time[k][r])') <= Limit - 1
  <2>1. Earlier(k, time[k][r])' = Earlier(k, now)'
    <3>1. now' = now
      BY Counting
    <3> QED BY <3>1, <1>1 DEF Earlier
  <2> QED BY <2>1, <1>6
<1> QED BY <1>1, <1>8, <1>9 DEF CounterOf

\* An attempt counted by a counter that is there.
LEMMA SameCounter ==
  ASSUME LimiterInv, backend = "redis",
         NEW k \in Key, NEW r \in Request, Count(k, r), Fresh(k) # {}
  PROVE  CounterOf(k)'
<1>1. Fresh(k) = hits[k] /\ hits[k] # {}
  BY DEF Fresh
<1>2. /\ r \notin hits[k] /\ r \notin passed[k]
      /\ hits'[k] = hits[k] \cup {r} /\ time'[k][r] = now /\ now' = now
      /\ \A q \in Request \ {r} : time'[k][q] = time[k][q]
      /\ passed'[k] \in {passed[k], passed[k] \cup {r}}
      /\ Allows(k, r) <=> r \in passed'[k]
  BY Counting, <1>1
<1>3. /\ now \in Nat /\ time \in [Key -> [Request -> Nat \cup {Unset}]]
      /\ until \in [Key -> Nat \cup {Unset}]
      /\ hits \in [Key -> SUBSET Request] /\ passed \in [Key -> SUBSET Request]
      /\ Limit \in Nat
      /\ \A q \in Request : time[k][q] <= now
      /\ time[k] \in [Request -> Int]
  BY Limits DEF LimiterInv, LimiterTypeOK, TimesKnown, Unset
<1>4. until'[k] = until[k]
  BY <1>1, <1>3 DEF Count
<1>5. PICK f \in hits[k] :
        /\ until[k] = Unset \/ time[k][f] + Window <= until[k]
        /\ \A q \in hits[k] : time[k][f] <= time[k][q]
        /\ \A q \in passed[k] \ hits[k] : time[k][q] <= time[k][f]
        /\ Cardinality((passed[k] \cap hits[k]) \cup {f}) <= Limit
        /\ Cardinality(Earlier(k, time[k][f])) <= Limit - 1
  BY <1>1 DEF LimiterInv, Counters
<1>6. f \in hits'[k] /\ f # r /\ time'[k][f] = time[k][f]
  BY <1>2, <1>3, <1>5
<1>7. passed'[k] \ hits'[k] = passed[k] \ hits[k]
  BY <1>2
<1>8. Earlier(k, time[k][f])' = Earlier(k, time[k][f])
  <2>1. \A q \in passed'[k] \ hits'[k] : time'[k][q] = time[k][q]
    BY <1>2, <1>3, <1>7
  <2> QED BY <1>6, <1>7, <2>1 DEF Earlier
<1>9. \A q \in hits'[k] : time'[k][f] <= time'[k][q]
  <2>1. ASSUME NEW q \in hits'[k] PROVE time'[k][f] <= time'[k][q]
    <3>1. CASE q = r
      BY <3>1, <1>2, <1>3, <1>5, <1>6
    <3>2. CASE q # r
      BY <3>2, <2>1, <1>2, <1>3, <1>5, <1>6
    <3> QED BY <3>1, <3>2
  <2> QED BY <2>1
<1>10. \A q \in passed'[k] \ hits'[k] : time'[k][q] <= time'[k][f]
  BY <1>2, <1>3, <1>5, <1>6, <1>7
<1>11. Cardinality((passed'[k] \cap hits'[k]) \cup {f}) <= Limit
  <2>1. CASE Allows(k, r)
    <3>1. Cardinality(hits[k] \cup {r}) <= Limit
      BY <2>1, <1>1 DEF Allows
    <3>2. hits[k] \cup {r} \in SUBSET Request
      BY <1>3
    <3>3. (passed'[k] \cap hits'[k]) \cup {f} \in SUBSET (hits[k] \cup {r})
      BY <1>2, <1>5
    <3>4. /\ Cardinality((passed'[k] \cap hits'[k]) \cup {f}) <= Cardinality(hits[k] \cup {r})
          /\ Cardinality((passed'[k] \cap hits'[k]) \cup {f}) \in Nat
          /\ Cardinality(hits[k] \cup {r}) \in Nat
      BY <3>2, <3>3, SmallerSets
    <3> QED BY <3>1, <3>4, <1>3
  <2>2. CASE ~Allows(k, r)
    <3>1. (passed'[k] \cap hits'[k]) \cup {f} = (passed[k] \cap hits[k]) \cup {f}
      BY <2>2, <1>2
    <3> QED BY <3>1, <1>5
  <2> QED BY <2>1, <2>2
<1>12. until'[k] = Unset \/ time'[k][f] + Window <= until'[k]
  BY <1>4, <1>5, <1>6
<1>13. Cardinality(Earlier(k, time[k][f])') <= Limit - 1
  BY <1>5, <1>8
<1> QED BY <1>6, <1>9, <1>10, <1>11, <1>12, <1>13 DEF CounterOf

LEMMA CountersStay ==
  ASSUME LimiterInv, LimiterNext
  PROVE  Counters'
<1>1. /\ backend' = backend
      /\ now \in Nat /\ Window \in Nat
      /\ time \in [Key -> [Request -> Int]] /\ until \in [Key -> Int]
      /\ hits \in [Key -> SUBSET Request]
      /\ TimesKnown
  BY Limits DEF LimiterInv, LimiterTypeOK, Unset, LimiterNext, Tick, SetExpiry, Count
<1>2. SUFFICES ASSUME backend = "redis", NEW j \in Key PROVE CounterOf(j)'
  BY <1>1 DEF Counters, CounterOf
<1>3. CounterOf(j)
  BY <1>2 DEF LimiterInv, Counters, CounterOf
<1>4. CASE Tick
  BY <1>3, <1>4 DEF Tick, CounterOf, Earlier
<1>5. ASSUME NEW k \in Key, SetExpiry(k) PROVE CounterOf(j)'
  <2>1. UNCHANGED <<backend, now, hits, time, passed>>
    BY <1>5 DEF SetExpiry
  <2>2. until'[j] = until[j] \/ until'[j] = now + Window
    BY <1>1, <1>5 DEF SetExpiry
  <2>3. \A f \in hits[j] : time[j][f] + Window <= now + Window
    BY <1>1 DEF TimesKnown
  <2> QED BY <1>3, <2>1, <2>2, <2>3 DEF CounterOf, Earlier
<1>6. ASSUME NEW k \in Key, NEW r \in Request, Count(k, r) PROVE CounterOf(j)'
  <2>1. CASE j = k
    BY <1>2, <1>6, <2>1, NewCounter, SameCounter
  <2>2. CASE j # k
    <3>1. hits'[j] = hits[j] /\ until'[j] = until[j] /\ time'[j] = time[j]
          /\ passed'[j] = passed[j] /\ now' = now
      BY <1>6, <2>2, CountingElsewhere
    <3>2. \A s : Earlier(j, s)' = Earlier(j, s)
      BY <3>1 DEF Earlier
    <3> QED BY <1>3, <3>1, <3>2 DEF CounterOf, Earlier
  <2> QED BY <2>1, <2>2
<1> QED BY <1>4, <1>5, <1>6 DEF LimiterNext

\* A window that reaches to the present, when one more is let through.
LEMMA PresentWindow ==
  ASSUME LimiterInv, LimiterTypeOK', TimesKnown', RecentAreKept', Counters',
         NEW k \in Key, NEW r \in Request, Count(k, r), Allows(k, r),
         NEW t \in Nat, now < t + Window
  PROVE  Cardinality(PassedIn(k, t)') <= Bound'
<1>1. /\ hits'[k] = Fresh(k) \cup {r} /\ hits'[k] \in SUBSET Request
      /\ passed'[k] \in SUBSET Request /\ now' = now
      /\ now \in Nat /\ Window \in Nat /\ Limit \in Nat \ {0}
      /\ time'[k] \in [Request -> Int]
      /\ \A q \in Request : time'[k][q] <= now
      /\ backend' \in {"memory", "redis"}
  <2>1. hits'[k] = Fresh(k) \cup {r} /\ now' = now
    BY Counting
  <2> QED BY <2>1, Limits DEF LimiterInv, LimiterTypeOK, TimesKnown, Unset
<1>2. PassedIn(k, t)' = {q \in passed'[k] : t <= time'[k][q] /\ time'[k][q] < t + Window}
  BY DEF PassedIn
<1>3. PassedIn(k, t)' \in SUBSET Request
  BY <1>1, <1>2
<1>4. CASE backend' = "memory"
  <2>1. PassedIn(k, t)' \in SUBSET hits'[k]
    <3>1. ASSUME NEW q \in PassedIn(k, t)' PROVE q \in hits'[k]
      <4>1. q \in passed'[k] /\ t <= time'[k][q] /\ time'[k][q] \in Int
        BY <1>1, <1>2
      <4>2. now' - time'[k][q] < Window
        BY <4>1, <1>1
      <4> QED BY <4>1, <4>2, <1>4 DEF RecentAreKept
    <3> QED BY <3>1
  <2>2. Cardinality(hits'[k]) <= Limit
    BY <1>1 DEF Allows
  <2>3. /\ Cardinality(PassedIn(k, t)') <= Cardinality(hits'[k])
        /\ Cardinality(PassedIn(k, t)') \in Nat /\ Cardinality(hits'[k]) \in Nat
    BY <1>1, <2>1, SmallerSets
  <2> QED BY <2>2, <2>3, <1>4, <1>1 DEF Bound
<1>5. CASE backend' = "redis"
  <2>1. PICK f \in hits'[k] :
          /\ Cardinality((passed'[k] \cap hits'[k]) \cup {f}) <= Limit
          /\ Cardinality(Earlier(k, time[k][f])') <= Limit - 1
    <3>1. hits'[k] # {}
      BY <1>1
    <3> QED BY <3>1, <1>5 DEF Counters
  <2>2. Earlier(k, time[k][f])' =
          {q \in passed'[k] \ hits'[k] : time'[k][q] > time'[k][f] - Window}
    BY DEF Earlier
  <2> DEFINE A == (passed'[k] \cap hits'[k]) \cup {f}
             B == Earlier(k, time[k][f])'
  <2>3. A \in SUBSET Request /\ B \in SUBSET Request /\ A \cup B \in SUBSET Request
    BY <1>1, <2>1, <2>2
  <2>4. PassedIn(k, t)' \in SUBSET (A \cup B)
    <3>1. ASSUME NEW q \in PassedIn(k, t)', q \notin hits'[k] PROVE q \in B
      <4>1. q \in passed'[k] /\ t <= time'[k][q] /\ time'[k][q] \in Int
            /\ time'[k][f] \in Int /\ time'[k][f] <= now
        BY <1>1, <1>2, <2>1
      <4>2. time'[k][q] > time'[k][f] - Window
        BY <4>1, <1>1
      <4> QED BY <4>1, <4>2, <3>1, <2>2
    <3> QED BY <3>1, <1>2
  <2>5. /\ Cardinality(A) \in Nat /\ Cardinality(B) \in Nat
        /\ Cardinality(A \cup B) \in Nat /\ Cardinality(PassedIn(k, t)') \in Nat
        /\ Cardinality(PassedIn(k, t)') <= Cardinality(A \cup B)
        /\ Cardinality(A \cup B) <= Cardinality(A) + Cardinality(B)
    BY <2>3, <2>4, SmallerSets, Unions
  <2>6. Cardinality(A) <= Limit /\ Cardinality(B) <= Limit - 1
    BY <2>1
  <2>7. Bound' = 2 * Limit - 1
    BY <1>5 DEF Bound
  <2> QED
    <3> HIDE DEF A, B
    <3> QED BY <2>5, <2>6, <2>7, <1>1
<1> QED BY <1>1, <1>4, <1>5

LEMMA WindowStays ==
  ASSUME LimiterInv, LimiterNext,
         LimiterTypeOK', TimesKnown', RecentAreKept', Counters'
  PROVE  WindowLimited'
<1>1. /\ backend' = backend /\ Bound' = Bound
      /\ now \in Nat /\ Window \in Nat \ {0}
      /\ passed \in [Key -> SUBSET Request] /\ time \in [Key -> [Request -> Int]]
      /\ \A k \in Key : \A q \in Request : time[k][q] <= now
      /\ \A k \in Key, t \in 0 .. now : Cardinality(PassedIn(k, t)) <= Bound
  BY Limits DEF LimiterInv, LimiterTypeOK, Unset, LimiterNext, Tick, SetExpiry, Count,
                Bound, TimesKnown, WindowLimited
<1>2. CASE Tick
  <2>1. ASSUME NEW k \in Key, NEW t \in 0 .. now' PROVE Cardinality(PassedIn(k, t)') <= Bound
    <3>1. now' = now + 1 /\ PassedIn(k, t)' = PassedIn(k, t)
      BY <1>2 DEF Tick, PassedIn
    <3>2. CASE t = now + 1
      <4>1. \A q \in passed[k] : time[k][q] \in Int /\ time[k][q] <= now
        BY <1>1
      <4>2. PassedIn(k, t) = {}
        BY <4>1, <3>2, <1>1 DEF PassedIn
      <4>3. 0 <= Bound
        BY Limits DEF Bound
      <4> QED BY <3>1, <4>2, <4>3, FS_EmptySet
    <3>3. CASE t \in 0 .. now
      BY <3>1, <3>3, <1>1
    <3> QED BY <3>1, <3>2, <3>3, <1>1
  <2> QED BY <2>1, <1>1 DEF WindowLimited
<1>3. ASSUME NEW k \in Key, SetExpiry(k) PROVE WindowLimited'
  <2>1. now' = now /\ \A j, t : PassedIn(j, t)' = PassedIn(j, t)
    BY <1>3 DEF SetExpiry, PassedIn
  <2> QED BY <2>1, <1>1 DEF WindowLimited
<1>4. ASSUME NEW k \in Key, NEW r \in Request, Count(k, r) PROVE WindowLimited'
  <2>1. now' = now
    BY <1>4, CountingElsewhere
  <2>2. ASSUME NEW j \in Key, NEW t \in 0 .. now PROVE Cardinality(PassedIn(j, t)') <= Bound'
    <3>1. CASE j # k
      <4>1. PassedIn(j, t)' = PassedIn(j, t)
        BY <3>1, <1>4, CountingElsewhere DEF PassedIn
      <4> QED BY <4>1, <1>1
    <3>2. CASE j = k /\ Allows(k, r) /\ now < t + Window
      BY <3>2, <1>1, <1>4, PresentWindow
    <3>3. CASE j = k /\ ~(Allows(k, r) /\ now < t + Window)
      <4>1. /\ time'[k][r] = now /\ r \notin passed[k]
            /\ \A q \in Request \ {r} : time'[k][q] = time[k][q]
            /\ passed'[k] \in {passed[k], passed[k] \cup {r}}
            /\ Allows(k, r) <=> r \in passed'[k]
        BY <1>4, Counting
      <4>2. \A q : q \in PassedIn(k, t)' <=> q \in PassedIn(k, t)
        BY <4>1, <3>3, <1>1 DEF PassedIn
      <4>3. PassedIn(k, t)' = PassedIn(k, t)
        BY <4>2 DEF PassedIn
      <4> QED BY <4>3, <3>3, <1>1
    <3> QED BY <3>1, <3>2, <3>3
  <2> QED BY <2>1, <2>2 DEF WindowLimited
<1> QED BY <1>2, <1>3, <1>4 DEF LimiterNext

LEMMA LimiterStep ==
  ASSUME LimiterInv, [LimiterNext]_limiterVars
  PROVE  LimiterInv'
<1>1. CASE LimiterNext
  <2>1. LimiterTypeOK' /\ TimesKnown' /\ RecentAreKept' /\ Counters'
    BY <1>1, LimiterTyped, TimesStayKnown, RecentStayKept, CountersStay DEF LimiterInv
  <2> QED BY <1>1, <2>1, WindowStays DEF LimiterInv
<1>2. CASE UNCHANGED limiterVars
  <2>1. (LimiterTypeOK /\ TimesKnown /\ RecentAreKept)'
    BY <1>2 DEF LimiterInv, limiterVars, LimiterTypeOK, TimesKnown, RecentAreKept
  <2>2. Counters'
    BY <1>2 DEF LimiterInv, limiterVars, Counters, Earlier
  <2>3. WindowLimited'
    BY <1>2 DEF LimiterInv, limiterVars, WindowLimited, PassedIn, Bound
  <2> QED BY <2>1, <2>2, <2>3 DEF LimiterInv
<1> QED BY <1>1, <1>2

LEMMA LimiterStart ==
  ASSUME LimiterInit
  PROVE  LimiterInv
<1>1. LimiterTypeOK /\ TimesKnown /\ RecentAreKept /\ Counters
  BY DEF LimiterInit, LimiterTypeOK, TimesKnown, RecentAreKept, Counters, Unset
<1>2. \A k \in Key, t \in 0 .. now : PassedIn(k, t) = {}
  BY DEF LimiterInit, PassedIn
<1>3. 0 <= Bound
  BY Limits DEF Bound
<1> QED BY <1>1, <1>2, <1>3, FS_EmptySet DEF LimiterInv, WindowLimited

\* The limiter keeps its promise to whoever calls it, in whatever order: in no
\* window does it let more attempts of a key through than Bound, although
\* Redis is told the expiry by a call of its own, late or never.
THEOREM LimiterPromise == LimiterSpec => []WindowLimited
<1>1. LimiterInit => LimiterInv
  BY LimiterStart
<1>2. LimiterInv /\ [LimiterNext]_limiterVars => LimiterInv'
  BY LimiterStep
<1>3. LimiterInv => WindowLimited
  BY DEF LimiterInv
<1> QED BY <1>1, <1>2, <1>3, PTL DEF LimiterSpec

-----------------------------------------------------------------------------
(***************************************************************************)
(* The login.                                                              *)
(***************************************************************************)

\* Every step of the login is one of the limiter, or leaves it alone.
LEMMA LoginUsesLimiter ==
  ASSUME TypeOK, Next
  PROVE  [LimiterNext]_limiterVars
<1>1. \A r \in Request : req[r].pc # "idle" => req[r].ip \in Key /\ req[r].login \in Key
  BY Keys DEF TypeOK
<1>2. CASE Tick /\ UNCHANGED <<req, account>>
  BY <1>2 DEF LimiterNext
<1>3. ASSUME NEW r \in Request, NEW ip \in Ip, NEW login \in Login, CountIp(r, ip, login)
      PROVE  LimiterNext
  BY <1>3, Keys DEF CountIp, LimiterNext
<1>4. ASSUME NEW r \in Request, CountLogin(r) PROVE LimiterNext
  BY <1>1, <1>4 DEF CountLogin, LimiterNext
<1>5. ASSUME NEW r \in Request, ExpireKey(r) PROVE LimiterNext
  BY <1>1, <1>5 DEF ExpireKey, LimiterNext
<1>6. ASSUME NEW r \in Request,
             \/ Refuse(r) \/ \E verdict \in {"blocked", "wrong", "right"} : Judge(r, verdict)
             \/ RegisterFailure(r) \/ RegisterSuccess(r)
             \/ TakeAuditConnection(r) \/ Answer(r) \/ Fail(r)
      PROVE  UNCHANGED limiterVars
  BY <1>6 DEF Refuse, Judge, RegisterFailure, RegisterSuccess, TakeAuditConnection, Answer, Fail
<1> QED BY <1>2, <1>3, <1>4, <1>5, <1>6 DEF Next

LEMMA LoginTyped ==
  ASSUME IInv, Next, LimiterTypeOK'
  PROVE  TypeOK'
<1> DEFINE Fits == /\ req \in [Request -> Attempt] /\ account \in [Login -> Row]
                   /\ \A r \in Request :
                        req[r].pc # "idle" => req[r].ip \in Ip /\ req[r].login \in Login
<1>1. Fits /\ now \in Nat /\ Clean \in Row
  BY DEF IInv, TypeOK, LimiterTypeOK, Clean, Row
<1>2. ASSUME NEW r \in Request, NEW q \in Attempt, q.ip \in Ip, q.login \in Login,
             req' = [req EXCEPT ![r] = q], account' \in [Login -> Row]
      PROVE  Fits'
  BY <1>1, <1>2
<1>3. ASSUME Tick /\ UNCHANGED <<req, account>> PROVE Fits'
  BY <1>1, <1>3
<1>4. ASSUME NEW r \in Request, NEW ip \in Ip, NEW login \in Login, CountIp(r, ip, login)
      PROVE  Fits'
  <2> DEFINE q == [pc |-> Counted(ip, r, "expireIp", "login"), ip |-> ip,
                   login |-> login, verdict |-> "none", row |-> Clean]
  <2>1. Counted(ip, r, "expireIp", "login") \in {"expireIp", "login", "answered"}
    BY DEF Counted
  <2>2. q \in Attempt
    BY <2>1, <1>1 DEF Attempt
  <2>3. req' = [req EXCEPT ![r] = q] /\ account' = account
    BY <1>4 DEF CountIp
  <2>4. q.ip \in Ip /\ q.login \in Login
    OBVIOUS
  <2> HIDE DEF q
  <2> QED BY <1>1, <1>2, <2>2, <2>3, <2>4
\* A step that moves r, without another row than the one it has.
<1>5. ASSUME NEW r \in Request, req[r].pc # "idle",
             NEW pc \in {"login", "expireLogin", "begin", "row", "audit", "log", "answered",
                         "failed"},
             NEW verdict \in {"none", "blocked", "wrong", "right"}, NEW row \in Row,
             req' = [req EXCEPT ![r] = [@ EXCEPT !.pc = pc, !.verdict = verdict, !.row = row]],
             account' \in [Login -> Row]
      PROVE  Fits'
  <2> DEFINE q == [req[r] EXCEPT !.pc = pc, !.verdict = verdict, !.row = row]
  <2>1. q \in Attempt /\ q.ip \in Ip /\ q.login \in Login
    BY <1>1, <1>5 DEF Attempt
  <2>2. req' = [req EXCEPT ![r] = q]
    BY <1>5
  <2> HIDE DEF q
  <2> QED BY <1>2, <1>5, <2>1, <2>2
<1>6. ASSUME NEW r \in Request, req[r].pc # "idle",
             NEW pc \in {"login", "expireLogin", "begin", "row", "audit", "log", "answered",
                         "failed"},
             Goto(r, pc), account' \in [Login -> Row]
      PROVE  Fits'
  <2> DEFINE q == [req[r] EXCEPT !.pc = pc]
  <2>1. q \in Attempt /\ q.ip \in Ip /\ q.login \in Login
    BY <1>1, <1>6 DEF Attempt
  <2>2. req' = [req EXCEPT ![r] = q]
    BY <1>6 DEF Goto
  <2> HIDE DEF q, Fits
  <2> QED BY <1>2, <1>6, <2>1, <2>2
<1>7. ASSUME NEW r \in Request, CountLogin(r) PROVE Fits'
  <2>1. Counted(req[r].login, r, "expireLogin", "begin") \in {"expireLogin", "begin", "answered"}
    BY DEF Counted
  <2> QED BY <1>1, <1>6, <1>7, <2>1 DEF CountLogin
<1>8. ASSUME NEW r \in Request,
             ExpireKey(r) \/ Refuse(r) \/ TakeAuditConnection(r)
      PROVE  Fits'
  BY <1>1, <1>6, <1>8 DEF ExpireKey, Refuse, TakeAuditConnection
<1>9. ASSUME NEW r \in Request, RegisterSuccess(r) PROVE Fits'
  BY <1>1, <1>6, <1>9 DEF RegisterSuccess
<1>10. ASSUME NEW r \in Request, NEW verdict \in {"blocked", "wrong", "right"}, Judge(r, verdict)
       PROVE  Fits'
  <2> DEFINE pc == IF verdict = "blocked" THEN "audit" ELSE "row"
  <2>1. req[r] \in Attempt /\ req[r].pc # "idle" /\ account' \in [Login -> Row]
    BY <1>1, <1>10 DEF Judge
  <2>2. /\ req[r].row \in Row
        /\ [req[r] EXCEPT !.pc = pc, !.verdict = verdict]
             = [req[r] EXCEPT !.pc = pc, !.verdict = verdict, !.row = req[r].row]
    BY <2>1 DEF Attempt
  <2>3. req' = [req EXCEPT ![r] = [@ EXCEPT !.pc = pc, !.verdict = verdict, !.row = req[r].row]]
    BY <1>10, <2>2 DEF Judge
  <2>4. pc \in {"row", "audit"}
    OBVIOUS
  <2> HIDE DEF Fits, pc
  <2> QED BY <1>5, <2>1, <2>2, <2>3, <2>4
<1>11. ASSUME NEW r \in Request, RegisterFailure(r) PROVE Fits'
  <2> DEFINE row == Failed(account[req[r].login])
  <2>1. /\ req[r] \in Attempt /\ req[r].pc # "idle" /\ account[req[r].login] \in Row
        /\ account' \in [Login -> Row]
    BY <1>1, <1>11 DEF RegisterFailure
  <2>2. row \in Row
    BY <1>1, <2>1, Locks DEF Failed, Row
  <2> HIDE DEF row
  <2>3. /\ req[r].verdict \in {"none", "blocked", "wrong", "right"}
        /\ [req[r] EXCEPT !.pc = "audit", !.row = row]
             = [req[r] EXCEPT !.pc = "audit", !.verdict = req[r].verdict, !.row = row]
    BY <2>1 DEF Attempt
  <2>4. req' = [req EXCEPT ![r] = [@ EXCEPT !.pc = "audit", !.verdict = req[r].verdict,
                                            !.row = row]]
    BY <1>11, <2>3 DEF RegisterFailure, row
  <2> HIDE DEF Fits
  <2> QED BY <1>5, <2>1, <2>2, <2>3, <2>4
<1>12. ASSUME NEW r \in Request, Answer(r) \/ Fail(r) PROVE Fits'
  <2>1. req[r] \in Attempt /\ req[r].pc # "idle" /\ account' \in [Login -> Row]
    BY <1>1, <1>12 DEF Answer, Fail, Running
  <2>2. PICK pc \in {"answered", "failed"} :
          req' = [req EXCEPT ![r] = [@ EXCEPT !.pc = pc, !.row = Clean]]
    BY <1>12 DEF Answer, Fail
  <2>3. /\ req[r].verdict \in {"none", "blocked", "wrong", "right"}
        /\ [req[r] EXCEPT !.pc = pc, !.row = Clean]
             = [req[r] EXCEPT !.pc = pc, !.verdict = req[r].verdict, !.row = Clean]
    BY <2>1 DEF Attempt
  <2>4. req' = [req EXCEPT ![r] = [@ EXCEPT !.pc = pc, !.verdict = req[r].verdict, !.row = Clean]]
    BY <2>2, <2>3
  <2> HIDE DEF Fits
  <2> QED BY <1>1, <1>5, <2>1, <2>3, <2>4
<1>13. Fits'
  <2> HIDE DEF Fits
  <2> QED BY <1>3, <1>4, <1>7, <1>8, <1>9, <1>10, <1>11, <1>12 DEF Next
<1> QED BY <1>13 DEF TypeOK

\* PassedBefore, for one attempt.
Before(r) ==
  LET q == req[r] IN
  /\ q.pc = "idle" => \A k \in Key : time[k][r] = Unset
  /\ q.pc \in {"idle", "expireIp", "login"} => \A l \in Login : time[l][r] = Unset
  /\ q.pc \in {"idle", "expireIp", "login", "expireLogin", "begin"} => q.verdict = "none"
  /\ q.pc \in {"expireIp", "login", "expireLogin", "begin", "row", "audit", "log"} =>
       r \in passed[q.ip]
  /\ q.pc \in {"expireLogin", "begin", "row", "audit", "log"} => r \in passed[q.login]
  /\ q.verdict # "none" => r \in passed[q.ip] /\ r \in passed[q.login]

LEMMA CountedPasses ==
  ASSUME IInv, NEW k \in Key, NEW r \in Request, NEW expire, NEW next,
         Count(k, r), Counted(k, r, expire, next) # "answered"
  PROVE  r \in passed'[k]
<1>1. CASE StartsCounter(k)
  <2>1. Fresh(k) \cup {r} = {r} /\ 1 <= Limit
    BY <1>1, Limits DEF StartsCounter
  <2>2. Allows(k, r)
    BY <2>1, Singles DEF Allows
  <2> QED BY <2>2, Counting DEF IInv
<1>2. CASE Allows(k, r)
  BY <1>2, Counting DEF IInv
<1> QED BY <1>1, <1>2 DEF Counted

LEMMA PassedStaysBefore ==
  ASSUME IInv, Next, TypeOK'
  PROVE  PassedBefore'
<1>1. /\ req \in [Request -> Attempt] /\ Key = Ip \cup Login /\ Ip \cap Login = {}
      /\ \A r \in Request :
           req[r].pc # "idle" => req[r].ip \in Ip /\ req[r].login \in Login
      /\ \A r \in Request : Before(r)
      /\ LimiterInv
  BY Keys DEF IInv, TypeOK, PassedBefore, Before
<1>2. SUFFICES ASSUME NEW p \in Request PROVE Before(p)'
  BY DEF PassedBefore, Before
<1>3. CASE Tick /\ UNCHANGED <<req, account>>
  BY <1>1, <1>3 DEF Tick, Before
<1>4. ASSUME NEW r \in Request, UNCHANGED limiterVars,
             \A q \in Request \ {r} : req'[q] = req[q], Before(r)'
      PROVE  Before(p)'
  <2>1. CASE p = r
    BY <2>1, <1>4
  <2>2. CASE p # r
    <3>1. req'[p] = req[p] /\ time' = time /\ passed' = passed
      BY <2>2, <1>4 DEF limiterVars
    <3> QED BY <3>1, <1>1 DEF Before
  <2> QED BY <2>1, <2>2
<1>5. ASSUME NEW r \in Request, NEW k \in Key, Count(k, r),
             \A q \in Request \ {r} : req'[q] = req[q], Before(r)'
      PROVE  Before(p)'
  <2>1. CASE p = r
    BY <2>1, <1>5
  <2>2. CASE p # r
    <3>1. \A j \in Key : time'[j][p] = time[j][p] /\ passed[j] \subseteq passed'[j]
      BY <2>2, <1>1, <1>5, Counting, CountingElsewhere
    <3>2. req'[p] = req[p]
      BY <2>2, <1>5
    <3> QED BY <3>1, <3>2, <1>1 DEF Before
  <2> QED BY <2>1, <2>2
<1>6. ASSUME NEW r \in Request, NEW ip \in Ip, NEW login \in Login, CountIp(r, ip, login)
      PROVE  Before(p)'
  <2>1. /\ req'[r] = [pc |-> Counted(ip, r, "expireIp", "login"), ip |-> ip,
                      login |-> login, verdict |-> "none", row |-> Clean]
        /\ \A q \in Request \ {r} : req'[q] = req[q]
    BY <1>6, <1>1 DEF CountIp
  <2>2. Counted(ip, r, "expireIp", "login") \in {"expireIp", "login", "answered"}
    BY DEF Counted
  <2>3. \A l \in Login : time'[l][r] = Unset
    BY <1>1, <1>6, CountingElsewhere DEF CountIp, Before
  <2>4. Counted(ip, r, "expireIp", "login") # "answered" => r \in passed'[ip]
    BY <1>1, <1>6, CountedPasses DEF CountIp
  <2>5. Before(r)'
    BY <2>1, <2>2, <2>3, <2>4 DEF Before
  <2> QED BY <2>1, <2>5, <1>1, <1>5, <1>6 DEF CountIp
<1>7. ASSUME NEW r \in Request, CountLogin(r) PROVE Before(p)'
  <2> DEFINE l == req[r].login
             pc == Counted(l, r, "expireLogin", "begin")
  <2>1. /\ req'[r].pc = pc /\ req'[r].ip = req[r].ip /\ req'[r].login = l
        /\ req'[r].verdict = req[r].verdict
        /\ \A q \in Request \ {r} : req'[q] = req[q]
        /\ req[r].pc = "login" /\ l \in Login /\ req[r].ip \in Ip /\ l # req[r].ip
    BY <1>7, <1>1 DEF CountLogin, Goto, Attempt
  <2>2. pc \in {"expireLogin", "begin", "answered"}
    BY DEF Counted
  <2>3. pc # "answered" => r \in passed'[l]
    BY <1>1, <1>7, <2>1, CountedPasses DEF CountLogin
  <2>4. r \in passed'[req[r].ip]
    BY <1>1, <1>7, <2>1, CountingElsewhere DEF CountLogin, Before
  <2>5. req[r].verdict = "none"
    BY <1>1, <2>1 DEF Before
  <2>6. Before(r)'
    <3> HIDE DEF l, pc
    <3> QED BY <2>1, <2>2, <2>3, <2>4, <2>5 DEF Before
  <2> QED BY <2>1, <2>6, <1>1, <1>5, <1>7 DEF CountLogin
<1>8. ASSUME NEW r \in Request, ExpireKey(r) PROVE Before(p)'
  <2>1. time' = time /\ passed' = passed
    BY <1>8 DEF ExpireKey, SetExpiry
  <2>2. \A q \in Request \ {r} : req'[q] = req[q]
    BY <1>1, <1>8 DEF ExpireKey, Goto
  <2>3. CASE p = r
    BY <1>1, <1>8, <2>1, <2>3 DEF ExpireKey, Goto, Before, Attempt
  <2>4. CASE p # r
    <3>1. req'[p] = req[p]
      BY <2>2, <2>4
    <3> QED BY <1>1, <2>1, <3>1 DEF Before
  <2> QED BY <2>3, <2>4
<1>9. ASSUME NEW r \in Request, Refuse(r) PROVE Before(p)'
  <2>1. UNCHANGED limiterVars /\ (\A q \in Request \ {r} : req'[q] = req[q])
    BY <1>1, <1>9 DEF Refuse, Goto
  <2>2. Before(r)'
    BY <1>1, <1>9 DEF Refuse, Goto, Before, Attempt, limiterVars
  <2> QED BY <2>1, <2>2, <1>4
<1>10. ASSUME NEW r \in Request, NEW verdict \in {"blocked", "wrong", "right"}, Judge(r, verdict)
       PROVE  Before(p)'
  <2>1. UNCHANGED limiterVars /\ (\A q \in Request \ {r} : req'[q] = req[q])
    BY <1>1, <1>10 DEF Judge
  <2>2. Before(r)'
    BY <1>1, <1>10 DEF Judge, Before, Attempt, limiterVars
  <2> QED BY <2>1, <2>2, <1>4
<1>11. ASSUME NEW r \in Request, RegisterFailure(r) PROVE Before(p)'
  <2>1. UNCHANGED limiterVars /\ (\A q \in Request \ {r} : req'[q] = req[q])
    BY <1>1, <1>11 DEF RegisterFailure
  <2>2. Before(r)'
    BY <1>1, <1>11 DEF RegisterFailure, Before, Attempt, limiterVars
  <2> QED BY <2>1, <2>2, <1>4
<1>12. ASSUME NEW r \in Request, RegisterSuccess(r) PROVE Before(p)'
  <2>1. UNCHANGED limiterVars /\ (\A q \in Request \ {r} : req'[q] = req[q])
    BY <1>1, <1>12 DEF RegisterSuccess, Goto
  <2>2. Before(r)'
    BY <1>1, <1>12 DEF RegisterSuccess, Goto, Before, Attempt, limiterVars
  <2> QED BY <2>1, <2>2, <1>4
<1>13. ASSUME NEW r \in Request, TakeAuditConnection(r) PROVE Before(p)'
  <2>1. UNCHANGED limiterVars /\ (\A q \in Request \ {r} : req'[q] = req[q])
    BY <1>1, <1>13 DEF TakeAuditConnection, Goto
  <2>2. Before(r)'
    BY <1>1, <1>13 DEF TakeAuditConnection, Goto, Before, Attempt, limiterVars
  <2> QED BY <2>1, <2>2, <1>4
<1>14. ASSUME NEW r \in Request, Answer(r) \/ Fail(r) PROVE Before(p)'
  <2>1. /\ UNCHANGED limiterVars /\ (\A q \in Request \ {r} : req'[q] = req[q])
        /\ req'[r].pc \in {"answered", "failed"} /\ req'[r].ip = req[r].ip
        /\ req'[r].login = req[r].login /\ req'[r].verdict = req[r].verdict
    BY <1>1, <1>14 DEF Answer, Fail, Attempt
  <2>2. Before(r)'
    BY <1>1, <2>1 DEF Before, limiterVars
  <2> QED BY <2>1, <2>2, <1>4
<1> QED BY <1>3, <1>6, <1>7, <1>8, <1>9, <1>10, <1>11, <1>12, <1>13, <1>14 DEF Next

LEMMA LoginStep ==
  ASSUME IInv, [Next]_vars
  PROVE  IInv'
<1>1. CASE Next
  <2>1. LimiterInv'
    BY <1>1, LoginUsesLimiter, LimiterStep DEF IInv
  <2>2. TypeOK'
    BY <1>1, <2>1, LoginTyped DEF LimiterInv
  <2>3. PassedBefore'
    BY <1>1, <2>2, PassedStaysBefore
  <2> QED BY <2>1, <2>2, <2>3 DEF IInv
<1>2. CASE UNCHANGED vars
  <2>1. UNCHANGED limiterVars /\ UNCHANGED <<req, account>>
    BY <1>2 DEF vars, limiterVars
  <2>2. LimiterInv'
    BY <2>1, LimiterStep DEF IInv
  <2>3. TypeOK'
    BY <2>1, <2>2 DEF IInv, TypeOK, LimiterInv
  <2>4. PassedBefore'
    BY <2>1 DEF IInv, PassedBefore, limiterVars
  <2> QED BY <2>2, <2>3, <2>4 DEF IInv
<1> QED BY <1>1, <1>2

\* The limiter and the attempts are consistent in every reachable state: an
\* attempt that goes on was let through under both keys.
THEOREM Invariance == Spec => []IInv
<1>1. Init => IInv
  <2> SUFFICES ASSUME Init PROVE IInv
    OBVIOUS
  <2>1. LimiterInv
    BY LimiterStart DEF Init
  <2>2. TypeOK
    BY <2>1 DEF Init, TypeOK, LimiterInv, NoAttempt, Attempt, Clean, Row
  <2>3. PassedBefore
    BY Keys DEF Init, LimiterInit, PassedBefore, NoAttempt
  <2> QED BY <2>1, <2>2, <2>3 DEF IInv
<1>2. IInv /\ [Next]_vars => IInv'
  BY LoginStep
<1> QED BY <1>1, <1>2, PTL DEF Spec

\* auth_service.login: of the attempts counted under an address or a login in one
\* window no more have their passwords compared than the store promises, however
\* many overlap or fail, and each of them was counted under both keys.
THEOREM GuessesAreLimited == Spec => []GuessesLimited
<1>1. IInv => GuessesLimited
  <2> SUFFICES ASSUME IInv PROVE GuessesLimited
    OBVIOUS
  <2>1. \A r \in Compared : \A k \in {req[r].ip, req[r].login} : r \in passed[k] /\ k \in Key
    <3>1. ASSUME NEW r \in Compared PROVE req[r].pc # "idle" /\ req[r].verdict # "none"
      BY DEF Compared, IInv, PassedBefore
    <3> QED BY <3>1, Keys DEF Compared, IInv, PassedBefore, TypeOK
  <2>2. \A r \in Compared : \A k \in {req[r].ip, req[r].login} : time[k][r] # Unset
    BY <2>1 DEF IInv, LimiterInv, TimesKnown
  <2>3. ASSUME NEW k \in Key, NEW t \in 0 .. now PROVE Cardinality(Guesses(k, t)) <= Bound
    <3>1. Guesses(k, t) \in SUBSET PassedIn(k, t)
      BY <2>1 DEF Guesses, PassedIn
    <3>2. PassedIn(k, t) \in SUBSET Request
      BY DEF PassedIn, IInv, LimiterInv, LimiterTypeOK
    <3>3. /\ Cardinality(Guesses(k, t)) <= Cardinality(PassedIn(k, t))
          /\ Cardinality(Guesses(k, t)) \in Nat /\ Cardinality(PassedIn(k, t)) \in Nat
      BY <3>1, <3>2, SmallerSets
    <3>4. Cardinality(PassedIn(k, t)) <= Bound /\ Bound \in Int
      BY Limits DEF IInv, LimiterInv, WindowLimited, Bound
    <3> QED BY <3>3, <3>4
  <2> QED BY <2>2, <2>3 DEF GuessesLimited
<1> QED BY <1>1, Invariance, PTL

\* The two pools and the rows of the users never make the attempts wait for
\* one another in a circle: whoever holds an audit connection waits for
\* nothing, whoever holds a row waits for an audit connection at most, and
\* whoever holds a runtime connection for a row at most.
THEOREM NoCircularWait == Spec => []SomebodyMoves
<1>1. IInv => SomebodyMoves
  <2> SUFFICES ASSUME IInv, NEW r \in Request, Running(r)
               PROVE  \E p \in Request : CanMove(p)
    BY DEF SomebodyMoves
  <2>1. req \in [Request -> Attempt]
    BY DEF IInv, TypeOK
  <2>2. CASE \E p \in Request : req[p].pc \in {"expireIp", "login", "expireLogin", "log"}
    BY <2>2 DEF CanMove, Running
  <2>3. CASE /\ \A p \in Request : req[p].pc # "log"
             /\ \E p \in Request : req[p].pc = "audit"
    <3>1. {p \in Request : req[p].pc = "log"} = {}
      BY <2>3
    <3>2. AuditFree
      BY <3>1, FS_EmptySet, Pools DEF AuditFree
    <3> QED BY <2>3, <3>2 DEF CanMove, Running
  <2>4. CASE /\ \A p \in Request : req[p].pc \notin {"log", "audit"}
             /\ \E p \in Request : req[p].pc = "row"
    BY <2>4 DEF CanMove, Running, RowFree, HoldsRow, Logging
  <2>5. CASE \A p \in Request :
               req[p].pc \notin {"expireIp", "login", "expireLogin", "log", "audit", "row"}
    <3>1. {p \in Request : UsesRuntime(p)} = {}
      BY <2>5 DEF UsesRuntime, Logging
    <3>2. RuntimeFree
      BY <3>1, FS_EmptySet, Pools DEF RuntimeFree
    <3> QED BY <2>5, <3>2 DEF CanMove
  <2> QED BY <2>2, <2>3, <2>4, <2>5
<1> QED BY <1>1, Invariance, PTL
=============================================================================
