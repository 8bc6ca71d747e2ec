---------------------------- MODULE MCAuditChain ----------------------------
(* Instances of AuditChain for TLC. *)
EXTENDS AuditChain, TLC

\* Writers and companies are interchangeable.
Symmetric == Permutations(Writer) \cup Permutations(Company)
=============================================================================
