--------------------------- MODULE MCSessionStore ---------------------------
(* Instances of SessionStore for TLC. *)
EXTENDS SessionStore, TLC

\* Requests are interchangeable, and so are session ids: a new row may take
\* any unissued one.
Symmetric == Permutations(Request) \cup Permutations(Session)
=============================================================================
