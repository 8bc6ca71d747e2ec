---------------------------- MODULE TokenFamily -----------------------------
(***************************************************************************)
(* What the chain of refresh tokens promises, with no database in it: the  *)
(* contract stated by the docstrings of auth_service.refresh and           *)
(* AuthRepository.rotate_session.  A family is named by its first token.   *)
(* It has at most one usable token, its head; a rotation replaces the head *)
(* by a token never used before; a closed family stays closed, because its *)
(* first token is used up.                                                 *)
(***************************************************************************)
EXTENDS Naturals

CONSTANT Token

VARIABLES head,     \* head[f]: the usable tokens of family f, none or one
          used      \* every token ever handed out

famVars == <<head, used>>

TypeOK ==
  /\ head \in [Token -> SUBSET Token]
  /\ used \in SUBSET Token

Init ==
  /\ head = [f \in Token |-> {}]
  /\ used = {}

\* A login opens a family with a token of its own.
Open(t) ==
  /\ t \notin used
  /\ used' = used \cup {t}
  /\ head' = [head EXCEPT ![t] = {t}]

\* A refresh replaces the head of an open family.
Rotate(f, t) ==
  /\ head[f] # {}
  /\ t \notin used
  /\ used' = used \cup {t}
  /\ head' = [head EXCEPT ![f] = {t}]

\* A logout, a revocation or a detected reuse closes families.
Close(F) ==
  /\ UNCHANGED used
  /\ head' = [f \in Token |-> IF f \in F THEN {} ELSE head[f]]

Next ==
  \/ \E F \in SUBSET Token : Close(F)
  \/ \E t \in Token : Open(t)
  \/ \E f, t \in Token : Rotate(f, t)

Spec == Init /\ [][Next]_famVars
=============================================================================
