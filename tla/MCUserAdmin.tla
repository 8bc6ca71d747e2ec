---------------------------- MODULE MCUserAdmin ----------------------------
\* Instances of UserAdmin for TLC.
EXTENDS UserAdmin, TLC

Symmetric == Permutations(User) \cup Permutations(Request)
=============================================================================
