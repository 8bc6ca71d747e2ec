-------------------------- MODULE AuditChainProofs --------------------------
(***************************************************************************)
(* Proofs about AuditChain, for every set of companies, writers and        *)
(* contents and every retention.                                           *)
(***************************************************************************)
EXTENDS AuditChain, FiniteSetTheorems, WellFoundedInduction, TLAPS

(***************************************************************************)
(* Chains.                                                                 *)
(***************************************************************************)

\* The columns the trigger fills in.
LEMMA NextRowFields ==
  ASSUME NEW last, NEW id, NEW c, NEW body, NEW m
  PROVE  LET row == NextRow(last, id, c, body, m) IN
         /\ row.id = id /\ row.company = c /\ row.month = m
         /\ row.chain_seq = last.seq + 1
         /\ row.prev_id = last.id /\ row.prev_hash = last.hash
         /\ HashMatches(row)
BY DEF NextRow, HashMatches

\* The columns of a head.
LEMMA HeadFields ==
  /\ \A row : /\ HeadAt(row).seq = row.chain_seq
              /\ HeadAt(row).id = row.id /\ HeadAt(row).hash = row.row_hash
  /\ NoHead.seq = 0 /\ NoHead.id = NoId /\ NoHead.hash = Genesis
BY DEF HeadAt, NoHead

\* What the trigger appends to a chain makes a chain.
LEMMA ChainExtends ==
  ASSUME NEW S, NEW last, IsChain(S, last), last.seq \in Nat,
         NEW id, NEW c, NEW body, NEW m
  PROVE  LET row == NextRow(last, id, c, body, m) IN
         IsChain(S \cup {row}, HeadAt(row)) /\ HeadAt(row).seq \in Nat
<1> DEFINE row == NextRow(last, id, c, body, m)
           T == S \cup {row}
<1>1. /\ row.chain_seq = last.seq + 1
      /\ row.prev_id = last.id /\ row.prev_hash = last.hash
      /\ HashMatches(row)
  BY NextRowFields
<1>2. HeadAt(row).seq = last.seq + 1
  BY <1>1, HeadFields
<1> HIDE DEF row
<1>3. \A r \in S : r.chain_seq \in 1..last.seq
  BY DEF IsChain
<1>4. \A r \in T : r.chain_seq \in 1..(last.seq + 1)
  BY <1>1, <1>3
<1>5. \A k \in 1..(last.seq + 1) : \E r \in T : r.chain_seq = k
  <2> TAKE k \in 1..(last.seq + 1)
  <2>1. CASE k = last.seq + 1
    BY <1>1, <2>1
  <2>2. CASE k # last.seq + 1
    <3>1. k \in 1..last.seq
      BY <2>2
    <3> QED  BY <3>1 DEF IsChain
  <2> QED  BY <2>1, <2>2
<1>6. \A r, q \in T : r.chain_seq = q.chain_seq => r = q
  <2>1. \A r, q \in S : r.chain_seq = q.chain_seq => r = q
    BY DEF IsChain
  <2>2. \A r \in S : r.chain_seq # row.chain_seq
    BY <1>1, <1>3
  <2> QED  BY <2>1, <2>2
<1>7. Linked(T, row)
  <2>1. CASE last = NoHead
    BY <1>1, <2>1, HeadFields DEF Linked
  <2>2. ASSUME NEW r \in S, last = HeadAt(r) PROVE Linked(T, row)
    <3>1. /\ row.chain_seq = r.chain_seq + 1
          /\ row.prev_id = r.id /\ row.prev_hash = r.row_hash
      BY <1>1, <2>2, HeadFields
    <3> QED  BY <3>1 DEF Linked
  <2> QED  BY <2>1, <2>2 DEF IsChain
<1>8. \A r \in S : Linked(T, r) /\ HashMatches(r)
  BY DEF IsChain, Linked
<1>9. IsChain(T, HeadAt(row)) /\ HeadAt(row).seq \in Nat
  <2>1. row \in T
    OBVIOUS
  <2>2. \A r \in T : Linked(T, r) /\ HashMatches(r)
    BY <1>1, <1>7, <1>8
  <2> HIDE DEF T
  <2> QED  BY <1>2, <1>4, <1>5, <1>6, <2>1, <2>2 DEF IsChain
<1> QED  BY <1>9 DEF row

\* audit_verify_chain finds nothing in a chain.
LEMMA ChainFollows ==
  ASSUME NEW S, NEW last, IsChain(S, last), last.seq \in Nat, NEW row \in S
  PROVE  Follows(row, S)
<1> DEFINE before == {p \in S : p.chain_seq < row.chain_seq}
<1>1. \A p \in S : p.chain_seq \in 1..last.seq
  BY DEF IsChain
<1>2. Linked(S, row)
  BY DEF IsChain
<1>3. ASSUME before = {}
      PROVE  row.chain_seq = 1 /\ row.prev_hash = Genesis /\ row.prev_id = NoId
  <2>1. ~ \E p \in S : row.chain_seq = p.chain_seq + 1
    BY <1>1, <1>3
  <2> QED  BY <1>2, <2>1 DEF Linked
<1>4. ASSUME before # {}
      PROVE  \E p \in before : /\ row.chain_seq = p.chain_seq + 1
                               /\ row.prev_hash = p.row_hash
                               /\ row.prev_id = p.id
  <2>1. row.chain_seq # 1
    BY <1>1, <1>4
  <2>2. PICK p \in S : /\ row.chain_seq = p.chain_seq + 1
                       /\ row.prev_id = p.id /\ row.prev_hash = p.row_hash
    BY <1>2, <2>1 DEF Linked
  <2>3. p \in before
    BY <1>1, <2>2
  <2> QED  BY <2>2, <2>3
<1>5. \A p \in S : p.chain_seq = row.chain_seq => p = row
  BY DEF IsChain
<1> QED  BY <1>3, <1>4, <1>5 DEF Follows

\* A chain has as many rows as its last number says.
LEMMA ChainCounts ==
  ASSUME NEW S, NEW last, IsChain(S, last), last.seq \in Nat
  PROVE  IsFiniteSet(S) /\ Cardinality(S) = last.seq
<1> DEFINE f == [k \in 1..last.seq |-> CHOOSE r \in S : r.chain_seq = k]
<1>1. \A k \in 1..last.seq : f[k] \in S /\ f[k].chain_seq = k
  BY DEF IsChain
<1>2. \A r \in S : r.chain_seq \in 1..last.seq /\ f[r.chain_seq] = r
  BY <1>1 DEF IsChain
<1> HIDE DEF f
<1>3. f \in [1..last.seq -> S]
  BY <1>1 DEF f
<1>4. f \in Injection(1..last.seq, S)
  BY <1>1, <1>3 DEF Injection, IsInjective
<1>5. f \in Surjection(1..last.seq, S)
  BY <1>2, <1>3 DEF Surjection
<1>6. ExistsBijection(1..last.seq, S)
  BY <1>4, <1>5 DEF Bijection, ExistsBijection
<1>7. IsFiniteSet(1..last.seq) /\ Cardinality(1..last.seq) = last.seq
  <2>1. ASSUME NEW n \in Nat
        PROVE  IsFiniteSet(1..n) /\ Cardinality(1..n) = n
    BY ONLY FS_Interval, n \in Nat
  <2> QED  BY <2>1
<1> DEFINE I == 1..last.seq
<1>8. ExistsBijection(I, S) /\ IsFiniteSet(I)
  BY <1>6, <1>7
<1> HIDE DEF I
<1>9. IsFiniteSet(S) /\ Cardinality(S) = Cardinality(I)
  BY ONLY <1>8, FS_Bijection
<1> QED  BY <1>7, <1>9 DEF I

\* When rows are added to a chain and it remains a chain, they are numbered on
\* from its end.
LEMMA ChainGoesOn ==
  ASSUME NEW S, NEW last, IsChain(S, last), last.seq \in Nat,
         NEW T, NEW end, IsChain(T, end), end.seq \in Nat, S \subseteq T
  PROVE  LET n == Cardinality(S) IN
         {row.chain_seq : row \in T \ S} = (n + 1)..(n + Cardinality(T \ S))
<1>1. /\ IsFiniteSet(S) /\ Cardinality(S) = last.seq
      /\ IsFiniteSet(T) /\ Cardinality(T) = end.seq
  BY ChainCounts
<1>2. Cardinality(T \ S) = end.seq - last.seq
  <2>1. T \cap S = S
    OBVIOUS
  <2>2. Cardinality(T \ S) = Cardinality(T) - Cardinality(T \cap S)
    BY ONLY <1>1, FS_Difference
  <2> QED  BY <1>1, <2>1, <2>2
<1>3. last.seq + Cardinality(T \ S) = end.seq
  BY <1>2
<1>4. ASSUME NEW row \in T \ S PROVE row.chain_seq \in (last.seq + 1)..end.seq
  <2>1. row.chain_seq \in 1..end.seq
    BY DEF IsChain
  <2>2. ASSUME row.chain_seq \in 1..last.seq PROVE FALSE
    <3>1. PICK r \in S : r.chain_seq = row.chain_seq
      BY <2>2 DEF IsChain
    <3>2. r = row
      BY <3>1 DEF IsChain
    <3> QED  BY <3>1, <3>2
  <2> QED  BY <2>1, <2>2
<1>5. ASSUME NEW k \in (last.seq + 1)..end.seq
      PROVE  \E row \in T \ S : row.chain_seq = k
  <2>1. k \in 1..end.seq /\ k \notin 1..last.seq
    OBVIOUS
  <2>2. PICK row \in T : row.chain_seq = k
    BY <2>1 DEF IsChain
  <2>3. row \notin S
    BY <2>1, <2>2 DEF IsChain
  <2> QED  BY <2>2, <2>3
<1> QED  BY <1>1, <1>3, <1>4, <1>5

\* A nonempty set of numbers up to n has a largest one.
LEMMA LargestMember ==
  ASSUME NEW n \in Nat, NEW S \in SUBSET (0..n), S # {}
  PROVE  \E m \in S : \A k \in S : k <= m
<1> DEFINE R == OpToRel(<, Nat)
           T == {n - k : k \in S}
<1>1. IsWellFoundedOn(R, Nat)
  BY NatLessThanWellFounded
<1>2. \A x, y \in Nat : x < y => <<x, y>> \in R
  BY DEF OpToRel
<1> HIDE DEF R
<1>3. \A k \in S : k \in Int /\ n - k \in Nat
  OBVIOUS
<1>4. T \subseteq Nat /\ T # {}
  BY <1>3
<1>5. PICK x \in T : \A y \in T : <<y, x>> \notin R
  BY <1>1, <1>4, WFMin
<1>6. \A y \in T : ~(y < x)
  BY <1>2, <1>4, <1>5
<1>7. PICK m \in S : x = n - m
  BY <1>5
<1>8. ASSUME NEW k \in S PROVE k <= m
  <2>1. n - k \in T
    OBVIOUS
  <2>2. ~(n - k < n - m)
    BY <1>6, <1>7, <2>1
  <2> QED  BY <1>3, <2>2
<1> QED  BY <1>8

\* What a row says, whatever its identity and partition are; of the columns of
\* the caller that is their joined text.
Says(row) == <<row.company, row.body>>

\* The last hash of a chain fixes all that its rows say: two chains that agree
\* in it have the same length and say the same at every number.
LEMMA HashFixesChain ==
  ASSUME NEW S, NEW a, IsChain(S, a), a.seq \in Nat,
         NEW T, NEW b, IsChain(T, b), b.seq \in Nat,
         a.hash = b.hash, a.seq # 0, b.seq # 0
  PROVE  /\ a.seq = b.seq
         /\ \A r \in S, q \in T : r.chain_seq = q.chain_seq => Says(r) = Says(q)
<1>1. PICK r1 \in S, q1 \in T : a = HeadAt(r1) /\ b = HeadAt(q1)
  BY HeadFields DEF IsChain
<1>2. /\ r1.row_hash = q1.row_hash
      /\ r1.chain_seq = a.seq /\ q1.chain_seq = b.seq
  BY <1>1, HeadFields
<1>3. ASSUME NEW r \in S, NEW q \in T, r.row_hash = q.row_hash
      PROVE  /\ r.chain_seq = q.chain_seq /\ Says(r) = Says(q)
             /\ r.prev_hash = q.prev_hash
  BY <1>3 DEF IsChain, HashMatches, Digest, Says
<1>4. a.seq = b.seq
  BY <1>2, <1>3
<1> DEFINE bad == {k \in 0..a.seq :
                     \E r \in S, q \in T : /\ r.chain_seq = k /\ q.chain_seq = k
                                           /\ r.row_hash # q.row_hash}
<1>5. ASSUME bad # {} PROVE FALSE
  <2>1. PICK m \in bad : \A k \in bad : k <= m
    <3>1. bad \in SUBSET (0..a.seq)
      OBVIOUS
    <3> HIDE DEF bad
    <3> QED  BY <1>5, <3>1, LargestMember
  <2>2. PICK r \in S, q \in T : /\ r.chain_seq = m /\ q.chain_seq = m
                                 /\ r.row_hash # q.row_hash
    OBVIOUS
  <2>3. m # a.seq
    <3>1. \A x, y \in S : x.chain_seq = y.chain_seq => x = y
      BY DEF IsChain
    <3>2. \A x, y \in T : x.chain_seq = y.chain_seq => x = y
      BY DEF IsChain
    <3> QED  BY <1>2, <1>4, <2>2, <3>1, <3>2
  <2>4. m \in 1..a.seq
    BY <2>2 DEF IsChain
  <2>5. m + 1 \in 1..a.seq /\ m + 1 \notin bad /\ m + 1 \in 0..a.seq
    BY <2>1, <2>3, <2>4
  <2>6. PICK r2 \in S, q2 \in T : r2.chain_seq = m + 1 /\ q2.chain_seq = m + 1
    BY <1>4, <2>5 DEF IsChain
  <2>7. r2.row_hash = q2.row_hash
    BY <2>5, <2>6
  <2>8. r2.prev_hash = q2.prev_hash
    BY <1>3, <2>7
  <2>9. r2.prev_hash = r.row_hash
    <3>1. m + 1 # 1
      BY <2>4
    <3>2. PICK p \in S : r2.chain_seq = p.chain_seq + 1 /\ r2.prev_hash = p.row_hash
      BY <2>6, <3>1 DEF IsChain, Linked
    <3>3. p.chain_seq \in 1..a.seq
      BY DEF IsChain
    <3>4. p.chain_seq = m
      BY <2>4, <2>6, <3>2, <3>3
    <3>5. p = r
      BY <2>2, <3>4 DEF IsChain
    <3> QED  BY <3>2, <3>5
  <2>10. q2.prev_hash = q.row_hash
    <3>1. m + 1 # 1
      BY <2>4
    <3>2. PICK p \in T : q2.chain_seq = p.chain_seq + 1 /\ q2.prev_hash = p.row_hash
      BY <2>6, <3>1 DEF IsChain, Linked
    <3>3. p.chain_seq \in 1..b.seq
      BY DEF IsChain
    <3>4. p.chain_seq = m
      BY <2>4, <2>6, <3>2, <3>3
    <3>5. p = q
      BY <2>2, <3>4 DEF IsChain
    <3> QED  BY <3>2, <3>5
  <2> QED  BY <2>2, <2>8, <2>9, <2>10
<1>6. ASSUME NEW r \in S, NEW q \in T, r.chain_seq = q.chain_seq
      PROVE  Says(r) = Says(q)
  <2>1. r.chain_seq \in 0..a.seq
    BY DEF IsChain
  <2>2. r.row_hash = q.row_hash
    BY <1>5, <1>6, <2>1
  <2> QED  BY <1>3, <2>2
<1> QED  BY <1>4, <1>6

(***************************************************************************)
(* The invariant, action by action.                                        *)
(***************************************************************************)

\* Rows stay rows while identities and months advance.
LEMMA RowsStay ==
  ASSUME nextId \in Nat, nextId' \in Nat, nextId <= nextId',
         month \in Nat, month' \in Nat, month <= month'
  PROVE  \A row : IsRow(row) => IsRow(row)'
<1> SUFFICES ASSUME NEW row, IsRow(row)
             PROVE  IsRow(row)'
  OBVIOUS
<1>1. row.id \in 1..(nextId' - 1)
  BY DEF IsRow
<1>2. row.month \in 0..month'
  BY DEF IsRow
<1> QED  BY <1>1, <1>2 DEF IsRow

\* The initial state satisfies the invariant.
LEMMA InitChainInv == Init => ChainInv
<1> SUFFICES ASSUME Init
             PROVE  ChainInv
  OBVIOUS
<1> USE DEF Init
<1>1. TypeOK
  BY DEF TypeOK, NoHead, Tx, NoTx, NoId
<1>2. LocksAgree
  BY Distinct DEF LocksAgree
<1>3. PhasesAgree
  BY DEF PhasesAgree, Idle, NoTx
<1>4. PendingChains
  BY Distinct DEF PendingChains
<1>5. ChainUnbroken
  <2> SUFFICES ASSUME NEW c \in Company
               PROVE  IsChain(AllRows(c), state[c])
    BY DEF ChainUnbroken
  <2>1. AllRows(c) = {}
    BY DEF AllRows
  <2>2. state[c] = NoHead /\ 1..state[c].seq = {}
    BY DEF NoHead
  <2> QED  BY <2>1, <2>2 DEF IsChain
<1> QED  BY <1>1, <1>2, <1>3, <1>4, <1>5 DEF ChainInv

\* Chains depend on the rows and their heads alone.
LEMMA ChainsKept ==
  ASSUME ChainInv, logs' \cup detached' = logs \cup detached, UNCHANGED <<state>>
  PROVE  /\ ChainUnbroken'
         /\ \A c : AllRows(c)' = AllRows(c)
<1>1. \A c : AllRows(c)' = AllRows(c)
  BY DEF AllRows
<1> QED  BY <1>1 DEF ChainInv, ChainUnbroken

\* The calendar disturbs nothing.
LEMMA NextMonthStep ==
  ASSUME ChainInv, NextMonth
  PROVE  ChainInv'
<1> USE DEF NextMonth
<1>1. month \in Nat /\ month' \in Nat /\ month <= month' /\ nextId \in Nat
  BY DEF ChainInv, TypeOK
<1>2. TypeOK'
  BY <1>1, RowsStay DEF ChainInv, TypeOK
<1>3. LocksAgree'
  BY DEF ChainInv, LocksAgree
<1>4. PhasesAgree'
  <2> SUFFICES ASSUME NEW w \in Writer
               PROVE  /\ ~Idle(w)' => tx[w].company \in Company /\ tx[w].month <= month'
                      /\ Idle(w)' => written[w] = {}
                      /\ tx[w].pc = "insert" => tx[w].id \in 1..(nextId - 1)
    BY DEF PhasesAgree
  <2>1. Idle(w)' <=> Idle(w)
    BY DEF Idle
  <2>2. tx[w].month \in Nat
    BY DEF ChainInv, TypeOK, Tx
  <2> QED  BY <1>1, <2>1, <2>2 DEF ChainInv, PhasesAgree
<1>5. ChainUnbroken' /\ \A c : AllRows(c)' = AllRows(c)
  BY ChainsKept
<1>6. PendingChains'
  BY <1>5 DEF ChainInv, PendingChains
<1> QED  BY <1>2, <1>3, <1>4, <1>5, <1>6 DEF ChainInv

\* A transaction begins with nothing written.
LEMMA BeginStep ==
  ASSUME ChainInv, NEW w \in Writer, NEW c \in Company, Begin(w, c)
  PROVE  ChainInv'
<1> USE DEF Begin
<1>1. /\ tx[w].pc = "idle" /\ written[w] = {}
      /\ month \in Nat /\ nextId \in Nat
  BY DEF ChainInv, TypeOK, PhasesAgree, Idle
<1>2. TypeOK'
  <2>1. tx' \in [Writer -> Tx]
    BY <1>1 DEF ChainInv, TypeOK, Tx, NoId
  <2> QED  BY <1>1, <2>1, RowsStay DEF ChainInv, TypeOK
<1>3. \A v \in Writer : v # w => tx'[v] = tx[v]
  BY DEF ChainInv, TypeOK
<1>4. tx'[w].pc = "open" /\ tx'[w].company = c /\ tx'[w].month = month
  BY DEF ChainInv, TypeOK
<1>5. LocksAgree'
  BY <1>1, <1>3 DEF ChainInv, LocksAgree
<1>6. PhasesAgree'
  BY <1>1, <1>3, <1>4 DEF ChainInv, PhasesAgree, Idle
<1>7. ChainUnbroken' /\ \A d : AllRows(d)' = AllRows(d)
  BY ChainsKept
<1>8. PendingChains'
  BY <1>1, <1>3, <1>7 DEF ChainInv, PendingChains
<1> QED  BY <1>2, <1>5, <1>6, <1>7, <1>8 DEF ChainInv

\* A drawn identity is in the range of the sequence.
LEMMA InsertStep ==
  ASSUME ChainInv, NEW w \in Writer, NEW body \in Content, Insert(w, body)
  PROVE  ChainInv'
<1> USE DEF Insert
<1>1. /\ month \in Nat /\ nextId \in Nat /\ nextId' = nextId + 1
      /\ nextId' \in Nat /\ nextId <= nextId' /\ nextId >= 1
  <2>1. nextId >= 1
    BY DEF ChainInv, TypeOK
  <2> QED  BY <2>1 DEF ChainInv, TypeOK
<1>2. \A v \in Writer : v # w => tx'[v] = tx[v]
  BY DEF ChainInv, TypeOK
<1>3. /\ tx'[w].pc = "insert" /\ tx'[w].company = tx[w].company
      /\ tx'[w].month = tx[w].month /\ tx'[w].id = nextId
  <2>1. tx[w] \in Tx /\ tx'[w] = [tx[w] EXCEPT !.pc = "insert", !.id = nextId,
                                                !.body = body]
    BY DEF ChainInv, TypeOK
  <2> HIDE DEF Insert
  <2> QED  BY <2>1 DEF Tx
<1>4. TypeOK'
  <2>1. tx[w] \in Tx
    BY DEF ChainInv, TypeOK
  <2>2. [tx[w] EXCEPT !.pc = "insert", !.id = nextId, !.body = body] \in Tx
    BY <1>1, <2>1 DEF Tx
  <2>3. tx' \in [Writer -> Tx]
    BY <2>2 DEF ChainInv, TypeOK
  <2> QED  BY <1>1, <2>3, RowsStay DEF ChainInv, TypeOK
<1>8. \A v \in Writer : tx'[v].company = tx[v].company
  BY <1>2, <1>3
<1>5. LocksAgree'
  <2>1. holder' = holder /\ written' = written
    OBVIOUS
  <2> HIDE DEF Insert
  <2> QED  BY <1>8, <2>1 DEF ChainInv, LocksAgree
<1>6. PhasesAgree'
  <2>1. \A k \in 1..(nextId - 1) : k \in 1..(nextId' - 1)
    BY <1>1
  <2>2. nextId \in 1..(nextId' - 1)
    BY <1>1
  <2>3. ~Idle(w) /\ ~Idle(w)'
    BY <1>3 DEF Idle
  <2>4. \A v \in Writer : v # w => (Idle(v)' <=> Idle(v))
    BY <1>2 DEF Idle
  <2> QED  BY <1>2, <1>3, <2>1, <2>2, <2>3, <2>4 DEF ChainInv, PhasesAgree
<1>7. ChainUnbroken' /\ \A d : AllRows(d)' = AllRows(d)
  BY ChainsKept
<1>9. PendingChains'
  BY <1>7, <1>8 DEF ChainInv, PendingChains
<1> QED  BY <1>4, <1>5, <1>6, <1>7, <1>9 DEF ChainInv

\* The trigger extends the chain of rows S that ends at last: S is what w
\* sees, and nobody else holds the lock of its company.
LEMMA AppendStep ==
  ASSUME ChainInv, NEW w \in Writer, tx[w].pc = "insert",
         NEW last, last.seq \in Nat,
         IsChain(AllRows(tx[w].company) \cup written[w], last),
         holder[tx[w].company] \in {NoWriter, w},
         holder' = [holder EXCEPT ![tx[w].company] = w],
         Append(w, last),
         UNCHANGED <<logs, detached, state, nextId, month>>
  PROVE  ChainInv'
<1> DEFINE c == tx[w].company
           row == RowOf(w, last)
<1>1. /\ tx[w] \in Tx /\ c \in Company /\ tx[w].id \in 1..(nextId - 1)
      /\ tx[w].month \in 0..month
      /\ tx \in [Writer -> Tx] /\ holder \in [Company -> Writer \cup {NoWriter}]
  <2>1. tx \in [Writer -> Tx] /\ tx[w] \in Tx /\ tx[w].month \in Nat
    BY DEF ChainInv, TypeOK, Tx
  <2>2. ~Idle(w)
    BY DEF Idle
  <2> QED  BY <2>1, <2>2 DEF ChainInv, TypeOK, PhasesAgree
<1>2. /\ row.company = c /\ row.id = tx[w].id /\ row.month = tx[w].month
      /\ row.chain_seq = last.seq + 1
  BY NextRowFields DEF RowOf
<1>3. IsRow(row)
  BY <1>1, <1>2 DEF IsRow
<1>4. /\ IsChain((AllRows(c) \cup written[w]) \cup {row}, HeadAt(row))
      /\ HeadAt(row).seq \in Nat
  BY ChainExtends DEF RowOf
<1>5. /\ written' = [written EXCEPT ![w] = @ \cup {row}]
      /\ head' = [head EXCEPT ![w] = HeadAt(row)]
      /\ tx' = [tx EXCEPT ![w].pc = "open"]
  BY DEF Append
<1> HIDE DEF row
<1>6. /\ written'[w] = written[w] \cup {row} /\ head'[w] = HeadAt(row)
      /\ \A v \in Writer : v # w => /\ written'[v] = written[v]
                                    /\ head'[v] = head[v] /\ tx'[v] = tx[v]
  BY <1>5 DEF ChainInv, TypeOK
<1>7. tx'[w] = [tx[w] EXCEPT !.pc = "open"]
  BY <1>1, <1>5
<1>8. /\ tx'[w].pc = "open" /\ tx'[w].company = c /\ tx'[w].month = tx[w].month
      /\ tx'[w] \in Tx
  BY <1>1, <1>7 DEF Tx
<1>9. holder'[c] = w /\ \A d \in Company : d # c => holder'[d] = holder[d]
  BY <1>1
<1>10. TypeOK'
  <2>1. tx' \in [Writer -> Tx]
    BY <1>1, <1>5, <1>7, <1>8
  <2>2. holder' \in [Company -> Writer \cup {NoWriter}]
    BY <1>1
  <2>3. \A r : IsRow(r) => IsRow(r)'
    BY RowsStay DEF ChainInv, TypeOK
  <2>4. \A v \in Writer : \A r \in written'[v] : IsRow(r)'
    BY <1>3, <1>6, <2>3 DEF ChainInv, TypeOK
  <2>5. \A v \in Writer : head'[v].seq \in Nat
    BY <1>4, <1>6 DEF ChainInv, TypeOK
  <2>6. /\ written' = [v \in Writer |-> written'[v]]
        /\ head' = [v \in Writer |-> head'[v]]
    BY <1>5 DEF ChainInv, TypeOK
  <2>7. \A r \in logs' \cup detached' : IsRow(r)'
    BY <2>3 DEF ChainInv, TypeOK
  <2> QED  BY <2>1, <2>2, <2>4, <2>5, <2>6, <2>7 DEF ChainInv, TypeOK
<1>11. LocksAgree'
  <2> SUFFICES ASSUME NEW v \in Writer, NEW d \in Company
               PROVE  holder'[d] = v <=> written'[v] # {} /\ tx'[v].company = d
    BY DEF LocksAgree
  <2>1. holder[d] = v <=> written[v] # {} /\ tx[v].company = d
    BY DEF ChainInv, LocksAgree
  <2>2. CASE v = w
    BY <1>6, <1>8, <1>9, <2>1, <2>2
  <2>3. CASE v # w /\ d = c
    BY <1>6, <1>9, <2>1, <2>3, Distinct
  <2>4. CASE v # w /\ d # c
    BY <1>6, <1>9, <2>1, <2>4
  <2> QED  BY <2>2, <2>3, <2>4
<1>12. PhasesAgree'
  <2>1. ~Idle(w)' /\ \A v \in Writer : v # w => (Idle(v)' <=> Idle(v))
    BY <1>6, <1>8 DEF Idle
  <2>2. tx[w].month <= month
    BY <1>1
  <2> QED  BY <1>1, <1>6, <1>8, <2>1, <2>2 DEF ChainInv, PhasesAgree
<1>13. ChainUnbroken' /\ \A d : AllRows(d)' = AllRows(d)
  BY ChainsKept
<1>14. PendingChains'
  <2> SUFFICES ASSUME NEW v \in Writer, NEW d \in Company, holder'[d] = v
               PROVE  /\ \A r \in written'[v] : r.company = d
                      /\ IsChain(AllRows(d)' \cup written'[v], head'[v])
    BY DEF PendingChains
  <2>1. CASE v = w
    <3>1. d = c
      BY <1>8, <1>11, <2>1 DEF LocksAgree
    <3>2. \A r \in written[w] : r.company = c
      <4>1. c \in Company
        BY <1>1
      <4>2. written[w] # {} => holder[c] = w
        BY <4>1 DEF ChainInv, LocksAgree
      <4>3. holder[c] = w => \A r \in written[w] : r.company = c
        BY <4>1 DEF ChainInv, PendingChains
      <4> QED  BY <4>2, <4>3
    <3>3. AllRows(c) \cup written'[w] = (AllRows(c) \cup written[w]) \cup {row}
      BY <1>6
    <3>4. IsChain(AllRows(c) \cup written'[w], head'[w])
      BY ONLY <1>4, <1>6, <3>3
    <3>5. \A r \in written'[w] : r.company = c
      BY <1>2, <1>6, <3>2
    <3> QED  BY <1>13, <2>1, <3>1, <3>4, <3>5
  <2>2. CASE v # w
    <3>1. holder[d] = v
      BY <1>9, <2>2
    <3>2. /\ \A r \in written[v] : r.company = d
          /\ IsChain(AllRows(d) \cup written[v], head[v])
      BY <3>1 DEF ChainInv, PendingChains
    <3>3. written'[v] = written[v] /\ head'[v] = head[v]
      BY <1>6, <2>2
    <3> QED  BY <1>13, <3>2, <3>3
  <2> QED  BY <2>1, <2>2
<1> QED  BY <1>10, <1>11, <1>12, <1>13, <1>14 DEF ChainInv

\* The first row extends the committed chain.
LEMMA FirstRowStep ==
  ASSUME ChainInv, NEW w \in Writer, FirstRow(w)
  PROVE  ChainInv'
<1> DEFINE c == tx[w].company
<1>1. tx[w].pc = "insert" /\ holder[c] = NoWriter
  BY DEF FirstRow
<1>2. c \in Company
  BY <1>1 DEF ChainInv, PhasesAgree, Idle
<1>3. written[w] = {}
  BY <1>1, <1>2, Distinct DEF ChainInv, LocksAgree
<1>4. IsChain(AllRows(c), state[c]) /\ state[c].seq \in Nat
  BY <1>2 DEF ChainInv, ChainUnbroken, TypeOK
<1>5. IsChain(AllRows(c) \cup written[w], state[c])
  <2>1. AllRows(c) \cup written[w] = AllRows(c)
    BY <1>3
  <2> QED  BY <1>4, <2>1
<1>6. /\ holder' = [holder EXCEPT ![tx[w].company] = w]
      /\ Append(w, state[c])
      /\ UNCHANGED <<logs, detached, state, nextId, month>>
  BY DEF FirstRow
<1> QED  BY <1>1, <1>4, <1>5, <1>6, AppendStep

\* A further row extends what the transaction has written.
LEMMA FurtherRowStep ==
  ASSUME ChainInv, NEW w \in Writer, FurtherRow(w)
  PROVE  ChainInv'
<1> DEFINE c == tx[w].company
<1>1. /\ tx[w].pc = "insert" /\ holder[c] = w /\ Append(w, head[w])
      /\ UNCHANGED <<logs, detached, state, nextId, month>>
  BY DEF FurtherRow
<1>2. c \in Company
  BY <1>1 DEF ChainInv, PhasesAgree, Idle
<1>3. IsChain(AllRows(c) \cup written[w], head[w]) /\ head[w].seq \in Nat
  BY <1>1, <1>2 DEF ChainInv, PendingChains, TypeOK
<1>5. holder' = [holder EXCEPT ![c] = w]
  <2>1. holder' = holder /\ holder \in [Company -> Writer \cup {NoWriter}]
    BY DEF FurtherRow, ChainInv, TypeOK
  <2> QED  BY <1>1, <1>2, <2>1
<1> QED  BY <1>1, <1>3, <1>5, AppendStep

\* The end of a transaction leaves no trace of it but its rows.
LEMMA EndFacts ==
  ASSUME ChainInv, NEW w \in Writer, End(w)
  PROVE  /\ tx'[w] = NoTx /\ written'[w] = {}
         /\ \A v \in Writer : v # w => /\ written'[v] = written[v]
                                     /\ head'[v] = head[v] /\ tx'[v] = tx[v]
         /\ \A c \in Company : /\ holder[c] = w => holder'[c] = NoWriter
                               /\ holder[c] # w => holder'[c] = holder[c]
         /\ tx' \in [Writer -> Tx]
         /\ holder' \in [Company -> Writer \cup {NoWriter}]
         /\ written' = [v \in Writer |-> written'[v]]
         /\ head' = [v \in Writer |-> head'[v]]
         /\ \A v \in Writer : head'[v].seq \in Nat
<1>1. NoTx \in Tx
  BY DEF NoTx, Tx, NoId
<1>2. /\ tx \in [Writer -> Tx] /\ holder \in [Company -> Writer \cup {NoWriter}]
      /\ written = [v \in Writer |-> written[v]]
      /\ head = [v \in Writer |-> head[v]]
      /\ \A v \in Writer : head[v].seq \in Nat
  BY DEF ChainInv, TypeOK
<1>3. tx' = [tx EXCEPT ![w] = NoTx] /\ tx' \in [Writer -> Tx]
  BY <1>1, <1>2 DEF End
<1>4. holder' \in [Company -> Writer \cup {NoWriter}]
  BY <1>2 DEF End
<1>5. \A c \in Company : /\ holder[c] = w => holder'[c] = NoWriter
                         /\ holder[c] # w => holder'[c] = holder[c]
  BY DEF End
<1>6. /\ tx'[w] = NoTx /\ \A v \in Writer : v # w => tx'[v] = tx[v]
  BY <1>2, <1>3
<1>7. /\ written' = [v \in Writer |-> written'[v]]
      /\ written'[w] = {} /\ \A v \in Writer : v # w => written'[v] = written[v]
  BY <1>2 DEF End
<1>8. /\ head' = [v \in Writer |-> head'[v]]
      /\ head'[w] = NoHead /\ \A v \in Writer : v # w => head'[v] = head[v]
  BY <1>2 DEF End
<1>9. \A v \in Writer : head'[v].seq \in Nat
  BY <1>2, <1>8 DEF NoHead
<1> QED  BY <1>3, <1>4, <1>5, <1>6, <1>7, <1>8, <1>9

\* When a transaction ends, locks and phases agree as before, and the chains
\* of the other writers go on if those of their companies do.
LEMMA EndStep ==
  ASSUME ChainInv, NEW w \in Writer, End(w), UNCHANGED <<nextId, month>>
  PROVE  LocksAgree' /\ PhasesAgree'
<1>1. LocksAgree'
  <2> SUFFICES ASSUME NEW v \in Writer, NEW c \in Company
               PROVE  holder'[c] = v <=> written'[v] # {} /\ tx'[v].company = c
    BY DEF LocksAgree
  <2>1. holder[c] = v <=> written[v] # {} /\ tx[v].company = c
    BY DEF ChainInv, LocksAgree
  <2>2. CASE v = w
    BY <2>2, EndFacts, Distinct
  <2>3. CASE v # w
    BY <2>1, <2>3, EndFacts, Distinct
  <2> QED  BY <2>2, <2>3
<1>2. PhasesAgree'
  <2>1. Idle(w)' /\ tx'[w].pc = "idle"
    BY EndFacts DEF Idle, NoTx
  <2>2. \A v \in Writer : v # w => (Idle(v)' <=> Idle(v))
    BY EndFacts DEF Idle
  <2> QED  BY <2>1, <2>2, EndFacts DEF ChainInv, PhasesAgree
<1> QED  BY <1>1, <1>2

\* A rollback leaves the committed chains as they are.
LEMMA AbortStep ==
  ASSUME ChainInv, NEW w \in Writer, Abort(w)
  PROVE  ChainInv'
<1>1. End(w) /\ UNCHANGED <<logs, detached, state, nextId, month>>
  BY DEF Abort
<1>2. TypeOK'
  <2>1. \A r : IsRow(r) => IsRow(r)'
    BY <1>1, RowsStay DEF ChainInv, TypeOK
  <2>2. \A v \in Writer : \A r \in written'[v] : IsRow(r)'
    BY <1>1, <2>1, EndFacts DEF ChainInv, TypeOK
  <2>3. \A r \in logs' \cup detached' : IsRow(r)'
    BY <1>1, <2>1 DEF ChainInv, TypeOK
  <2> QED  BY <1>1, <2>2, <2>3, EndFacts DEF ChainInv, TypeOK
<1>3. LocksAgree' /\ PhasesAgree'
  BY <1>1, EndStep
<1>4. ChainUnbroken' /\ \A c : AllRows(c)' = AllRows(c)
  BY <1>1, ChainsKept
<1>5. PendingChains'
  <2> SUFFICES ASSUME NEW v \in Writer, NEW c \in Company, holder'[c] = v
               PROVE  /\ \A r \in written'[v] : r.company = c
                      /\ IsChain(AllRows(c)' \cup written'[v], head'[v])
    BY DEF PendingChains
  <2>1. v # w /\ holder[c] = v
    BY <1>1, EndFacts, Distinct
  <2>2. /\ \A r \in written[v] : r.company = c
        /\ IsChain(AllRows(c) \cup written[v], head[v])
    BY <2>1 DEF ChainInv, PendingChains
  <2>3. written'[v] = written[v] /\ head'[v] = head[v]
    BY <1>1, <2>1, EndFacts
  <2> QED  BY <1>4, <2>2, <2>3
<1> QED  BY <1>2, <1>3, <1>4, <1>5 DEF ChainInv

\* What a commit does to the rows and the head of each company.
LEMMA CommitFacts ==
  ASSUME ChainInv, NEW w \in Writer, Commit(w), NEW c \in Company
  PROVE  /\ holder[c] = w => /\ AllRows(c)' = AllRows(c) \cup written[w]
                             /\ state'[c] = head[w]
         /\ holder[c] # w => /\ AllRows(c)' = AllRows(c)
                             /\ state'[c] = state[c]
<1>1. /\ logs' = logs \cup written[w] /\ detached' = detached
      /\ state' = [d \in Company |-> IF holder[d] = w THEN head[w] ELSE state[d]]
      /\ ~Idle(w)
  BY DEF Commit, Idle
<1>2. \A d \in Company, row \in written[w] : row.company = d <=> holder[d] = w
  <2> SUFFICES ASSUME NEW d \in Company, NEW row \in written[w]
               PROVE  row.company = d <=> holder[d] = w
    OBVIOUS
  <2>1. tx[w].company \in Company
    BY <1>1 DEF ChainInv, PhasesAgree
  <2>2. holder[tx[w].company] = w
    BY <2>1 DEF ChainInv, LocksAgree
  <2>3. row.company = tx[w].company
    BY <2>1, <2>2 DEF ChainInv, PendingChains
  <2>4. holder[d] = w => d = tx[w].company
    BY DEF ChainInv, LocksAgree
  <2> QED  BY <2>2, <2>3, <2>4
<1>3. AllRows(c)' = {row \in (logs \cup written[w]) \cup detached : row.company = c}
  BY <1>1 DEF AllRows
<1>4. ASSUME holder[c] = w PROVE AllRows(c)' = AllRows(c) \cup written[w]
  BY <1>2, <1>3, <1>4 DEF AllRows
<1>5. ASSUME holder[c] # w PROVE AllRows(c)' = AllRows(c)
  BY <1>2, <1>3, <1>5 DEF AllRows
<1>6. state'[c] = IF holder[c] = w THEN head[w] ELSE state[c]
  BY <1>1
<1> QED  BY <1>4, <1>5, <1>6

\* A commit makes the pending chain of its company the committed one.
LEMMA CommitStep ==
  ASSUME ChainInv, NEW w \in Writer, Commit(w)
  PROVE  ChainInv'
<1>1. /\ End(w) /\ UNCHANGED <<detached, nextId, month>>
      /\ logs' = logs \cup written[w]
      /\ state' = [d \in Company |-> IF holder[d] = w THEN head[w] ELSE state[d]]
  BY DEF Commit
<1>2. TypeOK'
  <2>1. \A r : IsRow(r) => IsRow(r)'
    BY <1>1, RowsStay DEF ChainInv, TypeOK
  <2>2. \A v \in Writer : \A r \in written'[v] : IsRow(r)'
    BY <1>1, <2>1, EndFacts DEF ChainInv, TypeOK
  <2>3. \A r \in logs' \cup detached' : IsRow(r)'
    BY <1>1, <2>1 DEF ChainInv, TypeOK
  <2>4. state' = [c \in Company |-> state'[c]]
    BY <1>1
  <2>5. \A c \in Company : state'[c].seq \in Nat
    BY <1>1 DEF ChainInv, TypeOK
  <2>6. nextId' \in Nat \ {0} /\ month' \in Nat
    BY <1>1 DEF ChainInv, TypeOK
  <2> QED  BY <1>1, <2>2, <2>3, <2>4, <2>5, <2>6, EndFacts DEF TypeOK
<1>3. LocksAgree' /\ PhasesAgree'
  BY <1>1, EndStep
<1>4. ChainUnbroken'
  <2> SUFFICES ASSUME NEW c \in Company
               PROVE  IsChain(AllRows(c)', state'[c])
    BY DEF ChainUnbroken
  <2>1. CASE holder[c] = w
    <3>1. IsChain(AllRows(c) \cup written[w], head[w])
      BY <2>1 DEF ChainInv, PendingChains
    <3> QED  BY <2>1, <3>1, CommitFacts
  <2>2. CASE holder[c] # w
    <3>1. IsChain(AllRows(c), state[c])
      BY DEF ChainInv, ChainUnbroken
    <3> QED  BY <2>2, <3>1, CommitFacts
  <2> QED  BY <2>1, <2>2
<1>5. PendingChains'
  <2> SUFFICES ASSUME NEW v \in Writer, NEW c \in Company, holder'[c] = v
               PROVE  /\ \A r \in written'[v] : r.company = c
                      /\ IsChain(AllRows(c)' \cup written'[v], head'[v])
    BY DEF PendingChains
  <2>1. v # w /\ holder[c] = v
    BY <1>1, EndFacts, Distinct
  <2>2. /\ \A r \in written[v] : r.company = c
        /\ IsChain(AllRows(c) \cup written[v], head[v])
    BY <2>1 DEF ChainInv, PendingChains
  <2>3. written'[v] = written[v] /\ head'[v] = head[v]
    BY <1>1, <2>1, EndFacts
  <2>4. AllRows(c)' = AllRows(c)
    BY <2>1, CommitFacts
  <2> QED  BY <2>2, <2>3, <2>4
<1> QED  BY <1>2, <1>3, <1>4, <1>5 DEF ChainInv

\* Retention moves rows and touches no chain.
LEMMA DetachExpiredStep ==
  ASSUME ChainInv, DetachExpired
  PROVE  ChainInv'
<1>1. /\ logs' = {row \in logs : ~Expired(row)}
      /\ detached' = detached \cup {row \in logs : Expired(row)}
      /\ UNCHANGED <<state, holder, tx, written, head, nextId, month>>
  BY DEF DetachExpired
<1>2. logs' \cup detached' = logs \cup detached
  BY <1>1
<1>3. ChainUnbroken' /\ \A c : AllRows(c)' = AllRows(c)
  BY <1>1, <1>2, ChainsKept
<1>4. TypeOK'
  <2>1. \A r : IsRow(r) => IsRow(r)'
    BY <1>1, RowsStay DEF ChainInv, TypeOK
  <2> QED  BY <1>1, <1>2, <2>1 DEF ChainInv, TypeOK
<1>5. LocksAgree'
  BY <1>1 DEF ChainInv, LocksAgree
<1>6. PhasesAgree'
  BY <1>1 DEF ChainInv, PhasesAgree, Idle
<1>7. PendingChains'
  BY <1>1, <1>3 DEF ChainInv, PendingChains
<1> QED  BY <1>3, <1>4, <1>5, <1>6, <1>7 DEF ChainInv

(***************************************************************************)
(* Identities.                                                             *)
(***************************************************************************)

\* Where no row and no identity is new, none is shared.
LEMMA IdentitiesKept ==
  ASSUME IInv, Drawn' \subseteq Drawn,
         \A w \in Writer : tx'[w].pc = "insert" =>
           tx[w].pc = "insert" /\ tx'[w].id = tx[w].id
  PROVE  IdentitiesUnique'
BY DEF IInv, IdentitiesUnique, Inserting

\* A drawn identity is larger than all that were drawn before.
LEMMA InsertIdentities ==
  ASSUME IInv, NEW w \in Writer, NEW body \in Content, Insert(w, body)
  PROVE  IdentitiesUnique'
<1>1. Drawn' = Drawn
  BY DEF Insert, Drawn
<1>2. /\ tx'[w].id = nextId /\ \A v \in Writer \ {w} : tx'[v] = tx[v]
  <2>1. tx \in [Writer -> Tx]
    BY DEF IInv, ChainInv, TypeOK
  <2> QED  BY <2>1 DEF Insert, Tx
<1>3. \A row \in Drawn : row.id # nextId
  <2>1. \A row \in Drawn : row.id \in 1..(nextId - 1)
    BY DEF Drawn, IInv, ChainInv, TypeOK, IsRow
  <2>2. nextId \in Nat
    BY DEF IInv, ChainInv, TypeOK
  <2> QED  BY <2>1, <2>2
<1>4. \A v \in Writer : tx[v].pc = "insert" => tx[v].id # nextId
  <2>1. \A v \in Writer : tx[v].pc = "insert" => tx[v].id \in 1..(nextId - 1)
    BY DEF IInv, ChainInv, PhasesAgree
  <2>2. nextId \in Nat
    BY DEF IInv, ChainInv, TypeOK
  <2> QED  BY <2>1, <2>2
<1> QED  BY <1>1, <1>2, <1>3, <1>4 DEF IInv, IdentitiesUnique, Inserting

\* The trigger gives a row the identity its transaction has drawn.
LEMMA AppendIdentities ==
  ASSUME IInv, NEW w \in Writer, NEW last, tx[w].pc = "insert", Append(w, last),
         UNCHANGED <<logs, detached>>
  PROVE  IdentitiesUnique'
<1> DEFINE row == RowOf(w, last)
<1>1. row.id = tx[w].id
  BY NextRowFields DEF RowOf
<1>2. written' = [written EXCEPT ![w] = @ \cup {row}]
  BY DEF Append
<1> HIDE DEF row
<1>3. Drawn' \subseteq Drawn \cup {row}
  <2>1. written = [v \in Writer |-> written[v]]
    BY DEF IInv, ChainInv, TypeOK
  <2>2. \A v \in Writer : written'[v] \subseteq written[v] \cup {row}
    BY <1>2, <2>1
  <2> QED  BY <2>2 DEF Drawn
<1>4. /\ tx'[w].pc # "insert" /\ \A v \in Writer \ {w} : tx'[v] = tx[v]
  <2>1. tx \in [Writer -> Tx]
    BY DEF IInv, ChainInv, TypeOK
  <2> QED  BY <2>1 DEF Append, Tx
<1>5. \A other \in Drawn : other.id # tx[w].id
  BY DEF IInv, IdentitiesUnique, Inserting
<1> QED  BY <1>1, <1>3, <1>4, <1>5 DEF IInv, IdentitiesUnique, Inserting

\* The end of a transaction makes no rows.
LEMMA EndIdentities ==
  ASSUME IInv, NEW w \in Writer, End(w), detached' = detached,
         logs' \subseteq logs \cup written[w]
  PROVE  IdentitiesUnique'
<1>1. ChainInv
  BY DEF IInv
<1>2. Drawn' \subseteq Drawn
  BY <1>1, EndFacts DEF Drawn
<1>3. \A v \in Writer : tx'[v].pc = "insert" => tx'[v] = tx[v]
  BY <1>1, EndFacts DEF NoTx
<1> QED  BY <1>2, <1>3, IdentitiesKept

LEMMA IdentitiesStep == IInv /\ [Next]_vars => IdentitiesUnique'
<1> SUFFICES ASSUME IInv, [Next]_vars PROVE IdentitiesUnique'
  OBVIOUS
<1>1. CASE NextMonth \/ UNCHANGED vars
  <2>1. UNCHANGED <<logs, detached, written, tx>>
    BY <1>1 DEF NextMonth, vars
  <2>2. Drawn' \subseteq Drawn
    BY <2>1 DEF Drawn
  <2> QED  BY <2>1, <2>2, IdentitiesKept
<1>2. CASE DetachExpired
  <2>1. Drawn' \subseteq Drawn
    BY <1>2 DEF DetachExpired, Drawn
  <2> QED  BY <1>2, <2>1, IdentitiesKept DEF DetachExpired
<1>3. ASSUME NEW w \in Writer, NEW c \in Company, Begin(w, c) PROVE IdentitiesUnique'
  <2>1. Drawn' \subseteq Drawn
    BY <1>3 DEF Begin, Drawn
  <2>2. \A v \in Writer : tx'[v].pc = "insert" => tx'[v] = tx[v]
    <3>1. tx \in [Writer -> Tx]
      BY DEF IInv, ChainInv, TypeOK
    <3> QED  BY <1>3, <3>1 DEF Begin
  <2> QED  BY <2>1, <2>2, IdentitiesKept
<1>4. ASSUME NEW w \in Writer, NEW body \in Content, Insert(w, body)
      PROVE  IdentitiesUnique'
  BY <1>4, InsertIdentities
<1>5. ASSUME NEW w \in Writer, FirstRow(w) PROVE IdentitiesUnique'
  BY <1>5, AppendIdentities DEF FirstRow
<1>6. ASSUME NEW w \in Writer, FurtherRow(w) PROVE IdentitiesUnique'
  BY <1>6, AppendIdentities DEF FurtherRow
<1>7. ASSUME NEW w \in Writer, Commit(w) PROVE IdentitiesUnique'
  BY <1>7, EndIdentities DEF Commit
<1>8. ASSUME NEW w \in Writer, Abort(w) PROVE IdentitiesUnique'
  BY <1>8, EndIdentities DEF Abort
<1> QED  BY <1>1, <1>2, <1>3, <1>4, <1>5, <1>6, <1>7, <1>8 DEF Next, Write

(***************************************************************************)
(* Theorems.                                                               *)
(***************************************************************************)

\* Every step of every writer, of retention and of the calendar keeps locks,
\* phases and chains as they should be.
LEMMA ChainStep == ChainInv /\ [Next]_vars => ChainInv'
<1> SUFFICES ASSUME ChainInv, [Next]_vars
             PROVE  ChainInv'
  OBVIOUS
<1>1. CASE NextMonth
  BY <1>1, NextMonthStep
<1>2. CASE DetachExpired
  BY <1>2, DetachExpiredStep
<1>3. ASSUME NEW w \in Writer, NEW c \in Company, Begin(w, c)
      PROVE  ChainInv'
  BY <1>3, BeginStep
<1>4. ASSUME NEW w \in Writer, NEW body \in Content, Insert(w, body)
      PROVE  ChainInv'
  BY <1>4, InsertStep
<1>5. ASSUME NEW w \in Writer, Write(w)
      PROVE  ChainInv'
  BY <1>5, FirstRowStep, FurtherRowStep, CommitStep DEF Write
<1>6. ASSUME NEW w \in Writer, Abort(w)
      PROVE  ChainInv'
  BY <1>6, AbortStep
<1>7. CASE UNCHANGED vars
  <2>1. UNCHANGED <<logs, detached, state, holder, tx, written, head, nextId, month>>
    BY <1>7 DEF vars
  <2>2. ChainUnbroken' /\ \A c : AllRows(c)' = AllRows(c)
    BY <2>1, ChainsKept
  <2>3. TypeOK'
    BY <2>1 DEF ChainInv, TypeOK, IsRow
  <2>4. LocksAgree' /\ PhasesAgree'
    BY <2>1 DEF ChainInv, LocksAgree, PhasesAgree, Idle
  <2>5. PendingChains'
    BY <2>1, <2>2 DEF ChainInv, PendingChains
  <2> QED  BY <2>2, <2>3, <2>4, <2>5 DEF ChainInv
<1> QED  BY <1>1, <1>2, <1>3, <1>4, <1>5, <1>6, <1>7 DEF Next

\* Every step of every writer, of retention and of the calendar preserves
\* the invariant: the rows of a lock holder extend the committed chain.
THEOREM Invariance == Spec => []IInv
<1>1. Init => IInv
  BY InitChainInv DEF Init, IInv, IdentitiesUnique, Drawn, Inserting, NoTx
<1>2. IInv /\ [Next]_vars => IInv'
  BY ChainStep, IdentitiesStep DEF IInv
<1> QED  BY <1>1, <1>2, PTL DEF Spec

\* Rows, heads, locks and transactions hold values of their kind.
THEOREM TypeCorrectness == Spec => []TypeOK
<1>1. IInv => TypeOK
  BY DEF IInv, ChainInv
<1> QED  BY Invariance, <1>1, PTL

\* No interleaving of writers, rollbacks, months and retention forks the
\* chain of a company or leaves a gap in it.
THEOREM ChainsNeverBreak == Spec => []ChainUnbroken
<1>1. IInv => ChainUnbroken
  BY DEF IInv, ChainInv
<1> QED  BY Invariance, <1>1, PTL

\* As long as retention has detached nothing, audit_verify_chain reports no
\* row of any company and audit_chain_status finds every state consistent.
THEOREM VerificationFindsNothing == Spec => []VerificationIsClean
<1>1. IInv => VerificationIsClean
  <2> SUFFICES ASSUME IInv, detached = {}, NEW c \in Company
               PROVE  Problems(c) = {} /\ Consistent(c)
    BY DEF VerificationIsClean
  <2>1. Rows(c) = AllRows(c)
    BY DEF Rows, AllRows
  <2>2. IsChain(Rows(c), state[c]) /\ state[c].seq \in Nat
    BY <2>1 DEF IInv, ChainInv, ChainUnbroken, TypeOK
  <2>3. \A row \in Rows(c) : Follows(row, Rows(c)) /\ HashMatches(row)
    <3> TAKE row \in Rows(c)
    <3>1. HashMatches(row)
      BY <2>2 DEF IsChain
    <3> QED  BY <2>2, <3>1, ChainFollows
  <2>4. Problems(c) = {}
    BY <2>3 DEF Problems
  <2>5. Cardinality(Rows(c)) = state[c].seq
    BY <2>2, ChainCounts
  <2>6. \A row \in Rows(c) : row.chain_seq \in 1..state[c].seq
    BY <2>2 DEF IsChain
  <2>7. state[c].seq # 0 => \E row \in Rows(c) : row.chain_seq = state[c].seq
    <3>1. \A k \in 1..state[c].seq : \E r \in Rows(c) : r.chain_seq = k
      BY <2>2 DEF IsChain
    <3> QED  BY <2>2, <3>1
  <2> QED  BY <2>2, <2>4, <2>5, <2>6, <2>7 DEF Consistent
<1> QED  BY Invariance, <1>1, PTL

\* The writers of a company queue on its lock, and the first of the queue is
\* never held up.
THEOREM QueuesMove == Spec => []HoldersNeverWait
<1>1. ASSUME IInv, NEW w \in Writer, Waits(w)
      PROVE  ~Idle(holder[tx[w].company]) /\ ~Waits(holder[tx[w].company])
  <2>1. tx[w].company \in Company
    BY <1>1 DEF Waits, IInv, ChainInv, PhasesAgree, Idle
  <2>2. PICK c \in Company, v \in Writer : c = tx[w].company /\ v = holder[c]
    BY <1>1, <2>1 DEF Waits, IInv, ChainInv, TypeOK
  <2>3. written[v] # {} /\ tx[v].company = c
    BY <1>1, <2>2 DEF IInv, ChainInv, LocksAgree
  <2>4. ~Idle(v)
    BY <1>1, <2>2, <2>3 DEF IInv, ChainInv, PhasesAgree
  <2>5. ~Waits(v)
    BY <2>2, <2>3 DEF Waits
  <2> QED  BY <2>2, <2>4, <2>5
<1>2. IInv => HoldersNeverWait
  BY <1>1 DEF HoldersNeverWait
<1> QED  BY Invariance, <1>2, PTL

\* The log of a company grows at its end only.
THEOREM LogOnlyGrowsAtItsEnd == Spec => AppendOnly
<1> DEFINE Grows ==
      \A row \in (logs' \cup detached') \ (logs \cup detached) :
        \A old \in AllRows(row.company) : old.chain_seq < row.chain_seq
<1>1. IInv /\ IInv' /\ [Next]_vars => [Grows]_logs
  <2> SUFFICES ASSUME IInv, IInv', [Next]_vars
               PROVE  Grows \/ UNCHANGED logs
    OBVIOUS
  <2>1. CASE UNCHANGED vars
    BY <2>1 DEF vars
  <2>2. CASE DetachExpired
    BY <2>2 DEF DetachExpired
  <2>3. ASSUME NEW w \in Writer, Commit(w)
        PROVE  Grows
    <3> SUFFICES ASSUME NEW row \in (logs' \cup detached') \ (logs \cup detached),
                        NEW old \in AllRows(row.company)
                 PROVE  old.chain_seq < row.chain_seq
      OBVIOUS
    <3>1. row \in written[w]
      BY <2>3 DEF Commit
    <3>2. /\ tx[w].company \in Company /\ holder[tx[w].company] = w
      BY <2>3, <3>1 DEF IInv, ChainInv, PhasesAgree, LocksAgree, Commit, Idle
    <3>3. row.company = tx[w].company
      BY <3>1, <3>2 DEF IInv, ChainInv, PendingChains
    <3>4. PICK c \in Company : c = row.company /\ holder[c] = w
      BY <3>2, <3>3
    <3>5. IsChain(AllRows(c), state[c]) /\ state[c].seq \in Nat
      BY DEF IInv, ChainInv, ChainUnbroken, TypeOK
    <3>6. IsChain(AllRows(c) \cup written[w], head[w]) /\ head[w].seq \in Nat
      BY <3>4 DEF IInv, ChainInv, PendingChains, TypeOK
    <3>7. row \notin AllRows(c)
      BY DEF AllRows
    <3>8. old.chain_seq \in 1..state[c].seq
      BY <3>4, <3>5 DEF IsChain
    <3>9. row.chain_seq \in 1..head[w].seq
      BY <3>1, <3>6 DEF IsChain
    <3>10. ASSUME row.chain_seq \in 1..state[c].seq
           PROVE  FALSE
      <4>1. PICK r \in AllRows(c) : r.chain_seq = row.chain_seq
        BY <3>5, <3>10 DEF IsChain
      <4>2. r = row
        BY <3>1, <3>6, <4>1 DEF IsChain
      <4> QED  BY <3>7, <4>1, <4>2
    <3> QED  BY <3>5, <3>6, <3>8, <3>9, <3>10
  <2>4. CASE NextMonth
    BY <2>4 DEF NextMonth
  <2>5. ASSUME NEW w \in Writer,
               FirstRow(w) \/ FurtherRow(w) \/ Abort(w)
                 \/ (\E c \in Company : Begin(w, c))
                 \/ (\E body \in Content : Insert(w, body))
        PROVE  UNCHANGED logs
    BY <2>5 DEF FirstRow, FurtherRow, Abort, Begin, Insert
  <2> QED  BY <2>1, <2>2, <2>3, <2>4, <2>5 DEF Next, Write
<1> QED  BY <1>1, Invariance, PTL DEF Spec, AppendOnly

\* Whatever is a chain that ends in the last hash of a company, like an archive
\* that is compared by it (AUDIT_CHAIN_DESIGN 7), says what the log says, at the
\* same numbers, and nothing else.
HashFixesLog ==
  \A c \in Company : \A S, last :
    /\ IsChain(S, last) /\ last.seq \in Nat \ {0}
    /\ state[c].seq # 0 /\ last.hash = state[c].hash
    => {<<row.chain_seq, Says(row)>> : row \in S}
         = {<<row.chain_seq, Says(row)>> : row \in AllRows(c)}

\* The last hash in audit_chain_state fixes the whole log of its company.
THEOREM LastHashFixesLog == Spec => []HashFixesLog
<1>1. ASSUME IInv, NEW c \in Company, NEW S, NEW last,
             IsChain(S, last), last.seq \in Nat \ {0},
             state[c].seq # 0, last.hash = state[c].hash
      PROVE  {<<row.chain_seq, Says(row)>> : row \in S}
                = {<<row.chain_seq, Says(row)>> : row \in AllRows(c)}
  <2> DEFINE T == AllRows(c)
  <2>1. IsChain(T, state[c]) /\ state[c].seq \in Nat
    BY <1>1 DEF IInv, ChainInv, ChainUnbroken, TypeOK
  <2> HIDE DEF T
  <2>2. /\ last.seq = state[c].seq
        /\ \A r \in S, q \in T : r.chain_seq = q.chain_seq => Says(r) = Says(q)
    BY <1>1, <2>1, HashFixesChain
  <2>3. \A r \in S : \E q \in T : q.chain_seq = r.chain_seq
    BY <1>1, <2>1, <2>2 DEF IsChain
  <2>4. \A q \in T : \E r \in S : q.chain_seq = r.chain_seq
    BY <1>1, <2>1, <2>2 DEF IsChain
  <2> HIDE DEF Says
  <2>5. {<<row.chain_seq, Says(row)>> : row \in S}
          = {<<row.chain_seq, Says(row)>> : row \in T}
    BY <2>2, <2>3, <2>4
  <2> QED  BY <2>5 DEF T
<1>2. IInv => HashFixesLog
  BY <1>1 DEF HashFixesLog
<1> QED  BY <1>2, Invariance, PTL

(***************************************************************************)
(* The log implements the ledger.                                          *)
(***************************************************************************)

\* A commit adds the rows of its transaction to the ledger of one company.
LEMMA CommitExtends ==
  ASSUME IInv, IInv', NEW w \in Writer, Commit(w), Entries' # Entries
  PROVE  Ledger!Next
<1>1. PICK c \in Company : AllRows(c)' # AllRows(c)
  BY DEF Entries
<1>2. ChainInv
  BY DEF IInv
<1>3. holder[c] = w
  BY <1>1, <1>2, CommitFacts
<1>4. \A d \in Company : d # c => holder[d] # w
  BY <1>2, <1>3 DEF ChainInv, LocksAgree
<1>5. /\ AllRows(c) \subseteq AllRows(c)'
      /\ \A d \in Company : d # c => AllRows(d)' = AllRows(d)
  BY <1>2, <1>3, <1>4, CommitFacts
<1> DEFINE old == AllRows(c)
           all == AllRows(c)'
           new == all \ old
<1>6. new # {}
  BY <1>1, <1>5
<1>7. /\ IsChain(old, state[c]) /\ state[c].seq \in Nat
      /\ IsChain(all, state'[c]) /\ state'[c].seq \in Nat
  BY DEF IInv, ChainInv, ChainUnbroken, TypeOK
<1>8. \A d \in Company : AllRows(d)' \subseteq Drawn'
  BY DEF AllRows, Drawn
<1>9. \A x, y \in Drawn' : x.id = y.id => x = y
  BY DEF IInv, IdentitiesUnique
<1>10. Entries[c] = old /\ Entries'[c] = all /\ \A d \in Company : Entries[d] = AllRows(d)
  BY DEF Entries
<1>11. Entries' = [Entries EXCEPT ![c] = @ \cup new]
  <2>1. old \cup new = all
    BY <1>5
  <2> HIDE DEF new, old, all
  <2>2. \A d \in Company : d # c => Entries'[d] = Entries[d]
    BY <1>5 DEF Entries
  <2>3. /\ Entries = [d \in Company |-> Entries[d]]
        /\ Entries' = [d \in Company |-> Entries'[d]]
    BY DEF Entries
  <2> QED  BY <1>10, <2>1, <2>2, <2>3
<1>12. {row.chain_seq : row \in new} =
         (Cardinality(old) + 1)..(Cardinality(old) + Cardinality(new))
  <2> HIDE DEF old, all
  <2> QED  BY <1>5, <1>7, ChainGoesOn DEF old, all
<1>13. \A entry \in new : \A d \in Company : \A x \in AllRows(d) \cup new :
         x.id = entry.id => x = entry
  <2>1. new \subseteq Drawn' /\ \A d \in Company : AllRows(d) \subseteq Drawn'
    BY <1>5, <1>8
  <2> QED  BY <1>9, <2>1
<1>14. Ledger!Extend(c, new)
  <2>0. \A X : Ledger!Cardinality(X) = Cardinality(X)
    BY DEF Ledger!Cardinality, Cardinality
  <2> HIDE DEF old, all, new
  <2> QED  BY <2>0, <1>6, <1>10, <1>11, <1>12, <1>13 DEF Ledger!Extend, Ledger!Numbers
<1>15. new = Entries'[c] \ Entries[c]
  BY <1>10
<1> QED  BY <1>14, <1>15 DEF Ledger!Next

\* Every step of the log extends the ledger of one company as the ledger
\* allows, or does not show in it; retention is one that does not show.
THEOREM Refinement == Spec => ImplementsLedger
<1>1. Init => Ledger!Init
  BY DEF Init, Ledger!Init, Entries, AllRows
<1>2. IInv /\ IInv' /\ [Next]_vars => [Ledger!Next]_Entries
  <2> SUFFICES ASSUME IInv, IInv', [Next]_vars, Entries' # Entries PROVE Ledger!Next
    OBVIOUS
  <2>1. ASSUME NEW w \in Writer, Commit(w) PROVE Ledger!Next
    BY <2>1, CommitExtends
  <2>2. ASSUME logs' \cup detached' = logs \cup detached PROVE FALSE
    BY <2>2 DEF Entries, AllRows
  <2>3. CASE DetachExpired
    <3>1. logs' \cup detached' = logs \cup detached
      BY <2>3 DEF DetachExpired
    <3> QED  BY <2>2, <3>1
  <2>4. ASSUME NEW w \in Writer,
               FirstRow(w) \/ FurtherRow(w) \/ Abort(w)
                 \/ (\E c \in Company : Begin(w, c))
                 \/ (\E body \in Content : Insert(w, body))
        PROVE  FALSE
    BY <2>2, <2>4 DEF FirstRow, FurtherRow, Abort, Begin, Insert
  <2>5. CASE NextMonth \/ UNCHANGED vars
    BY <2>2, <2>5 DEF NextMonth, vars
  <2> QED  BY <2>1, <2>3, <2>4, <2>5 DEF Next, Write
<1> QED  BY <1>1, <1>2, Invariance, PTL DEF Spec, ImplementsLedger, Ledger!Spec
=============================================================================
