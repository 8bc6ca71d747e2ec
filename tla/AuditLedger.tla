---------------------------- MODULE AuditLedger -----------------------------
(***************************************************************************)
(* What the audit log promises its readers, with no lock, hash or          *)
(* partition in it (AUDIT_CHAIN_DESIGN 1 and 2): every company has entries *)
(* numbered 1, 2, ..., and they only become more.  A transaction adds its  *)
(* entries behind those of its company, all at once; none of them has the  *)
(* identity of another entry.                                              *)
(***************************************************************************)
EXTENDS Naturals, FiniteSets

CONSTANT Company

VARIABLE ledger         \* ledger[c]: the entries of company c

Init == ledger = [c \in Company |-> {}]

Numbers(S) == {entry.chain_seq : entry \in S}

Extend(c, new) ==
  LET last == Cardinality(ledger[c]) IN
  /\ new # {}
  /\ Numbers(new) = (last + 1)..(last + Cardinality(new))
  /\ \A entry \in new : \A d \in Company : \A old \in ledger[d] \cup new :
       old.id = entry.id => old = entry
  /\ ledger' = [ledger EXCEPT ![c] = @ \cup new]

Next == \E c \in Company : Extend(c, ledger'[c] \ ledger[c])

Spec == Init /\ [][Next]_ledger
=============================================================================
