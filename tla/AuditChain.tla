----------------------------- MODULE AuditChain -----------------------------
(***************************************************************************)
(* The audit log of PUTZPLAN: rows of audit_logs appended by transactions  *)
(* of the role putzplan_audit, numbered and hashed into one chain per      *)
(* company by the trigger audit_hash_chain, and checked by                 *)
(* audit_verify_chain.                                                     *)
(*                                                                         *)
(* An INSERT draws the identity of its row first; the trigger then waits   *)
(* for the advisory lock of the company, which the transaction keeps to    *)
(* its end, and only then reads audit_chain_state.  Rows and state become  *)
(* visible together at the commit.  A transaction writes for one company   *)
(* (audit_session); an INSERT of several rows is several Inserts of one    *)
(* transaction.  The partition of a row is the month its transaction       *)
(* began, which is what DEFAULT now() yields.                              *)
(*                                                                         *)
(* sha256 is taken to be injective: a digest is the tuple of what it was   *)
(* computed from.  A Content is the text the columns of the caller make    *)
(* once they are joined by '|': rows whose columns join to one text have   *)
(* one Content, and one digest.  UPDATE and DELETE have no action:         *)
(* audit_immutable refuses them.                                           *)
(***************************************************************************)
EXTENDS Integers, FiniteSets

CONSTANTS Company,
          Writer,       \* transactions of audit_service in progress at a time
          Content,      \* the hashed columns a caller gives, joined
          NoCompany, NoWriter, NoContent,
          MaxId,        \* bound on the identities drawn
          Retention,    \* partitioned_tables.retention_months, in months
          MaxMonth      \* bound on the calendar

ASSUME Distinct == NoWriter \notin Writer
ASSUME Bounds == MaxId \in Nat /\ Retention \in Nat /\ MaxMonth \in Nat

VARIABLES logs,         \* committed rows of audit_logs and its partitions
          detached,     \* rows in partitions that retention has detached
          state,        \* audit_chain_state: the head of each chain
          holder,       \* holder[c]: the writer with the advisory lock of c
          tx,           \* what each writer is doing
          written,      \* the uncommitted rows of each writer
          head,         \* the head each writer has left behind its rows
          nextId,       \* the identity sequence, never rolled back
          month         \* the current month

vars == <<logs, detached, state, holder, tx, written, head, nextId, month>>

NoId == 0               \* SQL NULL; identities start at 1
Genesis == <<>>         \* repeat('0', 64)

Digest(prev_hash, seq, c, body) == <<prev_hash, seq, c, body>>

\* A company without a row in audit_chain_state starts like this one.
NoHead == [seq |-> 0, id |-> NoId, hash |-> Genesis]

HeadAt(row) == [seq |-> row.chain_seq, id |-> row.id, hash |-> row.row_hash]

\* Mutant: the hash leaves the position out.
NextRowUnnumbered(last, id, c, body, m) ==
  [id |-> id, company |-> c, body |-> body, chain_seq |-> last.seq + 1,
   prev_id |-> last.id, prev_hash |-> last.hash,
   row_hash |-> Digest(last.hash, last.seq, c, body), month |-> m]

\* Mutant: the number is taken before it is advanced.
NextRowFromZero(last, id, c, body, m) ==
  [id |-> id, company |-> c, body |-> body, chain_seq |-> last.seq,
   prev_id |-> last.id, prev_hash |-> last.hash,
   row_hash |-> Digest(last.hash, last.seq, c, body), month |-> m]

\* What the trigger makes of a row, given the head of the chain.
NextRow(last, id, c, body, m) ==
  [id |-> id, company |-> c, body |-> body, chain_seq |-> last.seq + 1,
   prev_id |-> last.id, prev_hash |-> last.hash,
   row_hash |-> Digest(last.hash, last.seq + 1, c, body), month |-> m]

Tx == [pc      : {"idle", "open", "insert"},
       company : Company \cup {NoCompany},
       month   : Nat,
       id      : Nat,
       body    : Content \cup {NoContent}]

NoTx == [pc |-> "idle", company |-> NoCompany, month |-> 0, id |-> NoId,
         body |-> NoContent]

Idle(w) == tx[w].pc = "idle"

-----------------------------------------------------------------------------
Init ==
  /\ logs = {}
  /\ detached = {}
  /\ state = [c \in Company |-> NoHead]
  /\ holder = [c \in Company |-> NoWriter]
  /\ tx = [w \in Writer |-> NoTx]
  /\ written = [w \in Writer |-> {}]
  /\ head = [w \in Writer |-> NoHead]
  /\ nextId = 1
  /\ month = 0

\* A transaction lasts seconds (a statement of putzplan_audit ends after 10 s,
\* and between its statements a process that lives goes on): one may begin
\* in a month and end in the next, but not in the one after.
NextMonth ==
  /\ month < MaxMonth
  /\ \A w \in Writer : ~Idle(w) => tx[w].month = month
  /\ month' = month + 1
  /\ UNCHANGED <<logs, detached, state, holder, tx, written, head, nextId>>

\* audit_session(company_id): now() is fixed here.
Begin(w, c) ==
  /\ Idle(w)
  /\ tx' = [tx EXCEPT ![w] = [pc |-> "open", company |-> c, month |-> month,
                              id |-> NoId, body |-> NoContent]]
  /\ UNCHANGED <<logs, detached, state, holder, written, head, nextId, month>>

\* AuditRepository.append reaches the trigger; the identity is drawn before.
Insert(w, body) ==
  /\ tx[w].pc = "open"
  /\ nextId <= MaxId
  /\ tx' = [tx EXCEPT ![w].pc = "insert", ![w].id = nextId, ![w].body = body]
  /\ nextId' = nextId + 1
  /\ UNCHANGED <<logs, detached, state, holder, written, head, month>>

\* The row that w is inserting, when the chain ends at last.
RowOf(w, last) ==
  NextRow(last, tx[w].id, tx[w].company, tx[w].body, tx[w].month)

Append(w, last) ==
  /\ written' = [written EXCEPT ![w] = @ \cup {RowOf(w, last)}]
  /\ head' = [head EXCEPT ![w] = HeadAt(RowOf(w, last))]
  /\ tx' = [tx EXCEPT ![w].pc = "open"]

\* Mutant: the trigger relies on FOR UPDATE alone, which locks nothing while
\* the company has no state row.
FirstRowUnlocked(w) ==
  LET c == tx[w].company IN
  /\ tx[w].pc = "insert"
  /\ holder[c] = NoWriter \/ state[c] = NoHead
  /\ holder[c] # w
  /\ holder' = [holder EXCEPT ![c] = w]
  /\ Append(w, state[c])
  /\ UNCHANGED <<logs, detached, state, nextId, month>>

\* The trigger on the first row of a transaction: wait for the lock, then
\* read the head.
FirstRow(w) ==
  LET c == tx[w].company IN
  /\ tx[w].pc = "insert"
  /\ holder[c] = NoWriter
  /\ holder' = [holder EXCEPT ![c] = w]
  /\ Append(w, state[c])
  /\ UNCHANGED <<logs, detached, state, nextId, month>>

\* Mutant: the state is updated by an AFTER trigger, as in the first version.
FurtherRowStale(w) ==
  LET c == tx[w].company IN
  /\ tx[w].pc = "insert"
  /\ holder[c] = w
  /\ Append(w, state[c])
  /\ UNCHANGED <<logs, detached, state, holder, nextId, month>>

\* On a further row the lock is held, and the transaction reads the head it
\* wrote itself.
FurtherRow(w) ==
  LET c == tx[w].company IN
  /\ tx[w].pc = "insert"
  /\ holder[c] = w
  /\ Append(w, head[w])
  /\ UNCHANGED <<logs, detached, state, holder, nextId, month>>

\* Mutant: the advisory lock is a session lock that outlives a rollback.
EndKeepingLock(w) ==
  /\ tx' = [tx EXCEPT ![w] = NoTx]
  /\ written' = [written EXCEPT ![w] = {}]
  /\ head' = [head EXCEPT ![w] = NoHead]
  /\ UNCHANGED holder

\* The end of a transaction frees its advisory lock.
End(w) ==
  /\ tx' = [tx EXCEPT ![w] = NoTx]
  /\ written' = [written EXCEPT ![w] = {}]
  /\ head' = [head EXCEPT ![w] = NoHead]
  /\ holder' = [c \in Company |-> IF holder[c] = w THEN NoWriter ELSE holder[c]]

Commit(w) ==
  /\ tx[w].pc = "open"
  /\ logs' = logs \cup written[w]
  /\ state' = [c \in Company |-> IF holder[c] = w THEN head[w] ELSE state[c]]
  /\ End(w)
  /\ UNCHANGED <<detached, nextId, month>>

\* Mutant: audit_chain_state is written on a connection of its own.
AbortKeepingState(w) ==
  /\ ~Idle(w)
  /\ state' = [c \in Company |-> IF holder[c] = w THEN head[w] ELSE state[c]]
  /\ End(w)
  /\ UNCHANGED <<logs, detached, nextId, month>>

\* The connection or the worker dies, or a statement fails: audit_service
\* logs the error and the request goes on without its entry.
Abort(w) ==
  /\ ~Idle(w)
  /\ End(w)
  /\ UNCHANGED <<logs, detached, state, nextId, month>>

Expired(row) == row.month < month - Retention

\* detach_expired_partitions(false).  DETACH PARTITION waits for every
\* transaction that has inserted into audit_logs.
DetachExpired ==
  /\ \A w \in Writer : tx[w].pc # "insert" /\ written[w] = {}
  /\ \E row \in logs : Expired(row)
  /\ logs' = {row \in logs : ~Expired(row)}
  /\ detached' = detached \cup {row \in logs : Expired(row)}
  /\ UNCHANGED <<state, holder, tx, written, head, nextId, month>>

Write(w) == FirstRow(w) \/ FurtherRow(w) \/ Commit(w)

Next ==
  \/ NextMonth
  \/ DetachExpired
  \/ \E w \in Writer :
       \/ \E c \in Company : Begin(w, c)
       \/ \E body \in Content : Insert(w, body)
       \/ Write(w)
       \/ Abort(w)

Spec == Init /\ [][Next]_vars

\* A waiting transaction gets the advisory lock in its turn, and a session
\* that wrote what it had to commits (it is the body of an async with).
FairSpec == Spec /\ \A w \in Writer : SF_vars(Write(w))

-----------------------------------------------------------------------------
(***************************************************************************)
(* audit_verify_chain and audit_chain_status.                              *)
(***************************************************************************)
Rows(c) == {row \in logs : row.company = c}

\* The rows are read in the order of chain_seq; of two with one number the
\* second is out of sequence.
Follows(row, S) ==
  LET before == {p \in S : p.chain_seq < row.chain_seq} IN
  /\ \A p \in S : p.chain_seq = row.chain_seq => p = row
  /\ IF before = {}
       THEN /\ row.chain_seq = 1
            /\ row.prev_hash = Genesis /\ row.prev_id = NoId
       ELSE \E p \in before :
              /\ row.chain_seq = p.chain_seq + 1
              /\ row.prev_hash = p.row_hash /\ row.prev_id = p.id

HashMatches(row) ==
  row.row_hash = Digest(row.prev_hash, row.chain_seq, row.company, row.body)

\* The rows audit_verify_chain reports.
Problems(c) == {row \in Rows(c) : ~Follows(row, Rows(c)) \/ ~HashMatches(row)}

\* The column "consistent" of audit_chain_status.
Consistent(c) ==
  /\ Cardinality(Rows(c)) = state[c].seq
  /\ state[c].seq # 0 => \E row \in Rows(c) : row.chain_seq = state[c].seq
  /\ \A row \in Rows(c) : row.chain_seq <= state[c].seq

-----------------------------------------------------------------------------
(***************************************************************************)
(* Properties.                                                             *)
(***************************************************************************)
IsRow(row) ==
  /\ row.company \in Company
  /\ row.id \in 1..(nextId - 1)
  /\ row.chain_seq \in Nat \ {0}
  /\ row.month \in 0..month

\* Every variable holds values of its kind.
TypeOK ==
  /\ \A row \in logs \cup detached : IsRow(row)
  /\ state = [c \in Company |-> state[c]]
  /\ \A c \in Company : state[c].seq \in Nat
  /\ holder \in [Company -> Writer \cup {NoWriter}]
  /\ tx \in [Writer -> Tx]
  /\ written = [w \in Writer |-> written[w]]
  /\ \A w \in Writer : \A row \in written[w] : IsRow(row)
  /\ head = [w \in Writer |-> head[w]]
  /\ \A w \in Writer : head[w].seq \in Nat
  /\ nextId \in Nat \ {0} /\ month \in Nat

\* A set of rows is a chain that ends at last: its numbers are 1, 2, ...
\* without gap or double, every row carries the identity and the hash of
\* the row before it and its own correct hash, and last describes the last.
Linked(S, row) ==
  \/ row.chain_seq = 1 /\ row.prev_id = NoId /\ row.prev_hash = Genesis
  \/ \E p \in S : /\ row.chain_seq = p.chain_seq + 1
                  /\ row.prev_id = p.id /\ row.prev_hash = p.row_hash

IsChain(S, last) ==
  /\ \A r \in S : r.chain_seq \in 1..last.seq
  /\ \A k \in 1..last.seq : \E r \in S : r.chain_seq = k
  /\ \A r, q \in S : r.chain_seq = q.chain_seq => r = q
  /\ \A r \in S : Linked(S, r) /\ HashMatches(r)
  /\ last = NoHead \/ \E r \in S : last = HeadAt(r)

AllRows(c) == {row \in logs \cup detached : row.company = c}

\* Concurrent writers, rollbacks and month changes never fork the chain of a
\* company nor leave a gap in it, and audit_chain_state is its head
\* (AUDIT_CHAIN_DESIGN, "no branching").
ChainUnbroken == \A c \in Company : IsChain(AllRows(c), state[c])

\* Until retention detaches a partition, audit_verify_chain reports nothing
\* and audit_chain_status is consistent, at any moment between commits.
VerificationIsClean ==
  detached = {} => \A c \in Company : Problems(c) = {} /\ Consistent(c)

\* What is in the log stays in it, and a new row is later in its chain than
\* every row that was there: no reader sees the log grow in the middle.
AppendOnly ==
  [][\A row \in (logs' \cup detached') \ (logs \cup detached) :
       \A old \in AllRows(row.company) : old.chain_seq < row.chain_seq]_logs

\* Whoever waits for the lock of a company waits for a writer that is at work
\* and waits for nobody: no circle of writers, and no lock left behind.
Waits(w) == tx[w].pc = "insert" /\ holder[tx[w].company] \notin {NoWriter, w}

HoldersNeverWait ==
  \A w \in Writer : Waits(w) =>
    LET other == holder[tx[w].company] IN ~Idle(other) /\ ~Waits(other)

\* Every transaction of the log ends, whoever holds the locks.
WritersEnd == \A w \in Writer : ~Idle(w) ~> Idle(w)

-----------------------------------------------------------------------------
(***************************************************************************)
(* The inductive invariant: beside the committed chain, the rows a holder  *)
(* of the lock has written extend it.                                      *)
(***************************************************************************)
LocksAgree ==
  \A w \in Writer, c \in Company :
    holder[c] = w <=> written[w] # {} /\ tx[w].company = c

\* An open transaction has a company, an inserting one a drawn identity.
PhasesAgree ==
  \A w \in Writer :
    /\ ~Idle(w) => tx[w].company \in Company /\ tx[w].month <= month
    /\ Idle(w) => written[w] = {}
    /\ tx[w].pc = "insert" => tx[w].id \in 1..(nextId - 1)

PendingChains ==
  \A w \in Writer, c \in Company : holder[c] = w =>
    /\ \A row \in written[w] : row.company = c
    /\ IsChain(AllRows(c) \cup written[w], head[w])

\* An identity is of one row, written or about to be.
Drawn == logs \cup detached \cup UNION {written[w] : w \in Writer}
Inserting(w) == tx[w].pc = "insert"

IdentitiesUnique ==
  /\ \A row, other \in Drawn : row.id = other.id => row = other
  /\ \A w \in Writer : Inserting(w) =>
       /\ \A row \in Drawn : row.id # tx[w].id
       /\ \A v \in Writer \ {w} : Inserting(v) => tx[v].id # tx[w].id

ChainInv == TypeOK /\ LocksAgree /\ PhasesAgree /\ PendingChains /\ ChainUnbroken
IInv == ChainInv /\ IdentitiesUnique

-----------------------------------------------------------------------------
(***************************************************************************)
(* The log implements the ledger; the rows that retention has detached     *)
(* remain entries of it.                                                   *)
(***************************************************************************)
Entries == [c \in Company |-> AllRows(c)]
Ledger == INSTANCE AuditLedger WITH ledger <- Entries

\* Whatever writers, rollbacks, month changes and retention do, the log is an
\* append-only ledger per company.
ImplementsLedger == Ledger!Spec

-----------------------------------------------------------------------------
(***************************************************************************)
(* What the operating procedure says of verification, and retention        *)
(* contradicts.                                                            *)
(***************************************************************************)

\* AUDIT_CHAIN_DESIGN section 7: a row reported by the daily
\* audit_verify_chain is a violation of the log.  No writer here violates
\* it, so nothing may be reported.
NoFalseAlarm == \A c \in Company : Problems(c) = {}
=============================================================================
