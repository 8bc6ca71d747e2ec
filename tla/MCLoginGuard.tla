---------------------------- MODULE MCLoginGuard ----------------------------
(* Instances of LoginGuard for TLC. *)
EXTENDS LoginGuard, TLC

\* Attempts are interchangeable, and so are addresses.
Symmetric == Permutations(Request) \cup Permutations(Ip)
=============================================================================
