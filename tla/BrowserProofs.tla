--------------------------- MODULE BrowserProofs ---------------------------
(***************************************************************************)
(* Proofs about Browser for any number of tabs, calls and tokens.  The     *)
(* steps that matter are few: a call moves on (Moved), the cookies change, *)
(* families are closed, a token is issued, the grace of one ends.          *)
(***************************************************************************)
EXTENDS Browser, TLAPS

LEMMA NoneUnused ==
  ASSUME TypeOK
  PROVE  /\ None \notin used /\ ~Superseded(None) /\ ~Live(None)
         /\ \A s \in used : s \in Session
  BY NoneIsNone DEF TypeOK, Families!TypeOK, Superseded, Live

LEMMA NewIsUnissued ==
  ASSUME Unissued # {}
  PROVE  New \in Session /\ New \notin used
<1>1. PICK s \in Session : s \notin used
  BY DEF Unissued
<1> QED BY <1>1, Zenon DEF New

LEMMA FetchTyped ==
  ASSUME NEW kind \in {"none", "start", "login", "loginMe", "page", "logout"},
         NEW x \in Tab \cup {None}, NEW stage \in {"first", "refresh", "again"},
         NEW access \in SessionOrNone, NEW cookies \in SessionOrNone
  PROVE  Fetch(kind, x, stage, access, cookies) \in CallState
BY DEF Fetch, CallState, SessionOrNone

-----------------------------------------------------------------------------
(* Types. *)

\* tab and call as they are typed.
CallsTyped == tab \in [Tab -> TabState] /\ call \in [Call -> CallState]
ServerTyped == /\ Families!TypeOK
               /\ family \in [Session -> SessionOrNone]
               /\ recent \in SUBSET Session

LEMMA BeginTyped ==
  ASSUME TypeOK, NEW x \in Tab, NEW c \in Call,
         OpenTab(x, c) \/ Page(x, c) \/ Login(x, c) \/ Logout(x, c)
  PROVE  TypeOK'
<1>1. /\ tab[x].access \in SessionOrNone /\ None \in SessionOrNone /\ jar \in SessionOrNone
      /\ x \in Tab \cup {None}
  BY DEF TypeOK, TabState, SessionOrNone
<1>2. ASSUME NEW kind \in {"start", "login", "page", "logout"}, NEW access \in SessionOrNone,
             Begin(c, kind, x, access)
      PROVE  /\ call' \in [Call -> CallState] /\ overlapped' \in BOOLEAN
             /\ UNCHANGED <<server, jar, lost>>
  <2>1. Fetch(kind, x, "first", access, jar) \in CallState
    BY <1>1, FetchTyped
  <2> QED BY <1>2, <2>1 DEF Begin, TypeOK
<1>3. ASSUME UNCHANGED <<server, jar, lost>>, call' \in [Call -> CallState],
             tab' \in [Tab -> TabState], overlapped' \in BOOLEAN
      PROVE  TypeOK'
  BY <1>3 DEF TypeOK, Families!TypeOK, server
<1>4. CASE OpenTab(x, c)
  <2>1. tab' \in [Tab -> TabState] /\ Begin(c, "start", x, None)
    BY <1>1, <1>4 DEF OpenTab, TypeOK, TabState
  <2> QED BY <1>1, <1>2, <1>3, <2>1
<1>5. CASE Page(x, c)
  <2>1. tab' \in [Tab -> TabState] /\ Begin(c, "page", x, tab[x].access)
    BY <1>5 DEF Page, TypeOK
  <2> QED BY <1>1, <1>2, <1>3, <2>1
<1>6. ASSUME NEW kind \in {"login", "logout"}, Waiting(x, c, kind) PROVE TypeOK'
  <2>1. tab' \in [Tab -> TabState] /\ Begin(c, kind, x, tab[x].access)
    BY <1>6 DEF Waiting, TypeOK, TabState
  <2> QED BY <1>1, <1>2, <1>3, <2>1
<1> QED BY <1>4, <1>5, <1>6 DEF Login, Logout

LEMMA ServerTypes ==
  ASSUME TypeOK, NEW c \in Call, Serve(c)
  PROVE  TypeOK'
<1>1. ASSUME NEW answer \in {"ok", "401", "race", "error"}, NEW token \in SessionOrNone,
             Answer(c, answer, token)
      PROVE  CallsTyped' /\ UNCHANGED <<jar, history>>
  <2> DEFINE q == [call[c] EXCEPT !.pc = "answered", !.answer = answer, !.token = token,
                                  !.access = None, !.header = None]
  <2>1. call[c] \in CallState /\ None \in SessionOrNone
    BY DEF TypeOK, SessionOrNone
  <2>2. q \in CallState
    BY <2>1 DEF CallState
  <2>3. call' = [call EXCEPT ![c] = q] /\ UNCHANGED <<jar, tab, history>>
    BY <1>1 DEF Answer
  <2> HIDE DEF q
  <2> QED BY <2>2, <2>3 DEF TypeOK, CallsTyped
<1>2. ASSUME CallsTyped', ServerTyped', UNCHANGED <<jar, history>> PROVE TypeOK'
  BY <1>2 DEF TypeOK, CallsTyped, ServerTyped, history
<1>3. ASSUME NEW answer \in {"ok", "401", "race", "error"}, Reply(c, answer) PROVE TypeOK'
  <2>1. ServerTyped' /\ Answer(c, answer, None)
    BY <1>3 DEF Reply, TypeOK, ServerTyped, server, Families!TypeOK
  <2> QED BY <1>1, <1>2, <2>1 DEF SessionOrNone
<1>4. ASSUME NEW F, NEW answer \in {"ok", "error"}, Families!Close(F), Answer(c, answer, None),
             UNCHANGED <<family, recent>>
      PROVE  TypeOK'
  <2>1. ServerTyped'
    BY <1>4 DEF Families!Close, TypeOK, ServerTyped, Families!TypeOK
  <2> QED BY <1>1, <1>2, <1>4, <2>1 DEF SessionOrNone
<1>5. ASSUME NEW f \in SessionOrNone, Unissued # {},
             Families!Open(New) \/ Families!Rotate(f, New), Issue(c, f), recent' \in SUBSET Session
      PROVE  TypeOK'
  <2>1. New \in Session
    BY <1>5, NewIsUnissued
  <2>2. Families!TypeOK'
    BY <1>5, <2>1 DEF Families!Open, Families!Rotate, TypeOK, Families!TypeOK
  <2>3. ServerTyped'
    BY <1>5, <2>1, <2>2 DEF Issue, TypeOK, ServerTyped
  <2>4. Answer(c, "ok", New) /\ New \in SessionOrNone
    BY <1>5, <2>1 DEF Issue, SessionOrNone
  <2> QED BY <1>1, <1>2, <2>3, <2>4
<1>6. CASE ServeRefresh(c)
  <2>1. ASSUME NEW s, s = call[c].cookie, Live(s), Rotate(c, s) PROVE TypeOK'
    <3>1. s \in Session /\ family[s] \in SessionOrNone
      BY <2>1, NoneUnused DEF TypeOK, CallState, SessionOrNone
    <3>2. recent' \in SUBSET Session
      BY <2>1, <3>1 DEF Rotate, TypeOK
    <3> QED BY <1>5, <2>1, <3>1, <3>2 DEF Rotate
  <2> QED BY <1>3, <1>4, <1>6, <2>1 DEF ServeRefresh
<1>7. CASE ServeLogin(c)
  <2>1. CASE Unissued # {} /\ Families!Open(New) /\ Issue(c, New) /\ UNCHANGED recent
    <3>1. New \in SessionOrNone /\ recent' \in SUBSET Session
      BY <2>1, NewIsUnissued DEF SessionOrNone, TypeOK
    <3> QED BY <1>5, <2>1, <3>1
  <2> QED BY <1>3, <1>7, <2>1 DEF ServeLogin
<1>8. CASE ServeLogout(c)
  BY <1>3, <1>4, <1>8 DEF ServeLogout
<1>9. CASE ServeRest(c)
  BY <1>3, <1>9 DEF ServeRest
<1> QED BY <1>3, <1>6, <1>7, <1>8, <1>9 DEF Serve

LEMMA ScriptTypes ==
  ASSUME TypeOK, NEW c \in Call,
         \/ Attach(c) \/ Lose(c) \/ LoseBody(c) \/ Unauthorized(c) \/ Refreshed(c)
         \/ RefreshFailed(c) \/ Succeed(c) \/ Fail(c)
  PROVE  TypeOK'
<1>1. call[c] \in CallState /\ None \in SessionOrNone /\ jar \in SessionOrNone
  BY DEF TypeOK, SessionOrNone
<1>2. ASSUME NEW q \in CallState, call' = [call EXCEPT ![c] = q], UNCHANGED server,
             jar' \in SessionOrNone, tab' \in [Tab -> TabState], history' \in BOOLEAN \X BOOLEAN
      PROVE  TypeOK'
  BY <1>2 DEF TypeOK, Families!TypeOK, server, history
<1>3. UNCHANGED history => history' \in BOOLEAN \X BOOLEAN
  BY DEF TypeOK, history
<1>4. ASSUME NEW x PROVE LoggedOut(x) \in [Tab -> TabState]
  BY <1>1 DEF LoggedOut, TypeOK, TabState
<1>5. ASSUME NEW pc \in {"done", "failed"}, End(c, pc), UNCHANGED <<server, history>>,
             jar' \in SessionOrNone, tab' \in [Tab -> TabState]
      PROVE  TypeOK'
  <2> DEFINE q == [kind |-> call[c].kind, tab |-> call[c].tab, stage |-> "first", pc |-> pc,
                   access |-> None, header |-> None, cookie |-> None,
                   answer |-> IF call[c].answer = "race" THEN "race" ELSE "none",
                   token |-> None]
  <2>1. q \in CallState
    BY <1>1 DEF CallState
  <2>2. call' = [call EXCEPT ![c] = q]
    BY <1>5 DEF End
  <2> HIDE DEF q
  <2> QED BY <1>2, <1>3, <1>5, <2>1, <2>2
<1>6. CASE Attach(c)
  <2> DEFINE q == [call[c] EXCEPT !.pc = "network", !.cookie = jar]
  <2>1. q \in CallState
    BY <1>1 DEF CallState
  <2>2. call' = [call EXCEPT ![c] = q] /\ UNCHANGED <<server, jar, tab, history>>
    BY <1>6 DEF Attach
  <2> HIDE DEF q
  <2> QED BY <1>1, <1>2, <1>3, <2>1, <2>2 DEF TypeOK
<1>7. CASE Lose(c)
  <2> DEFINE q == [call[c] EXCEPT !.answer = "error", !.token = None]
  <2>1. q \in CallState
    BY <1>1 DEF CallState
  <2>2. /\ call' = [call EXCEPT ![c] = q] /\ UNCHANGED <<server, jar, tab>>
        /\ history' \in BOOLEAN \X BOOLEAN
    BY <1>7 DEF Lose, TypeOK, history
  <2> HIDE DEF q
  <2> QED BY <1>1, <1>2, <2>1, <2>2 DEF TypeOK
<1>8. ASSUME NEW x \in Tab \cup {None}, NEW stage \in {"first", "refresh", "again"},
             NEW kind \in {"none", "start", "login", "loginMe", "page", "logout"},
             NEW access \in SessionOrNone, NEW cookies \in SessionOrNone,
             call' = [call EXCEPT ![c] = Fetch(kind, x, stage, access, cookies)],
             UNCHANGED <<server, history>>, jar' \in SessionOrNone, tab' \in [Tab -> TabState]
      PROVE  TypeOK'
  <2>1. Fetch(kind, x, stage, access, cookies) \in CallState
    BY FetchTyped
  <2> QED BY <1>2, <1>3, <1>8, <2>1
<1>9. /\ call[c].tab \in Tab \cup {None} /\ call[c].token \in SessionOrNone
      /\ call[c].kind \in {"none", "start", "login", "loginMe", "page", "logout"}
  BY <1>1 DEF CallState
<1>15. CASE LoseBody(c)
  <2> DEFINE q == [call[c] EXCEPT !.answer = "error", !.token = None, !.cookie = None]
  <2>1. q \in CallState
    BY <1>1 DEF CallState
  <2>2. /\ call' = [call EXCEPT ![c] = q] /\ UNCHANGED <<server, tab, history>>
        /\ jar' = call[c].token
    BY <1>15 DEF LoseBody
  <2> HIDE DEF q
  <2> QED BY <1>2, <1>3, <1>9, <2>1, <2>2 DEF TypeOK
<1>10. CASE Unauthorized(c)
  <2>1. /\ call' = [call EXCEPT ![c] = Fetch(call[c].kind, call[c].tab, "refresh", None, jar)]
        /\ UNCHANGED <<server, jar, tab, history>>
    BY <1>10 DEF Unauthorized
  <2> QED BY <1>1, <1>8, <1>9, <2>1 DEF TypeOK
<1>11. CASE Refreshed(c)
  <2>1. /\ call' = [call EXCEPT ![c] = Fetch(call[c].kind, call[c].tab, "again", call[c].token,
                                            call[c].token)]
        /\ jar' = call[c].token /\ UNCHANGED <<server, history>>
    BY <1>11 DEF Refreshed
  <2>2. tab' \in [Tab -> TabState]
    BY <1>9, <1>11 DEF Refreshed, TypeOK, TabState
  <2> QED BY <1>1, <1>8, <1>9, <2>1, <2>2
<1>12. CASE RefreshFailed(c)
  <2> DEFINE q == [call[c] EXCEPT !.pc = "failing"]
  <2>1. q \in CallState
    BY <1>1 DEF CallState
  <2>2. /\ call' = [call EXCEPT ![c] = q] /\ UNCHANGED <<server, jar, history>>
        /\ tab' = LoggedOut(call[c].tab)
    BY <1>12 DEF RefreshFailed
  <2> HIDE DEF q
  <2> QED BY <1>1, <1>2, <1>3, <1>4, <2>1, <2>2
<1>13. CASE Succeed(c)
  <2>1. CASE call[c].kind \in {"start", "loginMe"}
    <3>1. tab' \in [Tab -> TabState]
      <4>1. ASSUME NEW x
            PROVE  [tab EXCEPT ![x].me = TRUE, ![x].loading = FALSE] \in [Tab -> TabState]
        BY DEF TypeOK, TabState
      <4>2. tab' = [tab EXCEPT ![call[c].tab].me = TRUE, ![call[c].tab].loading = FALSE]
        BY <1>13, <2>1 DEF Succeed
      <4> QED BY <4>1, <4>2
    <3>2. End(c, "done") /\ UNCHANGED <<server, jar, history>>
      BY <1>13, <2>1 DEF Succeed
    <3> QED BY <1>1, <1>5, <3>1, <3>2
  <2>2. CASE call[c].kind = "login"
    <3>1. tab' \in [Tab -> TabState]
      BY <1>9, <1>13, <2>2 DEF Succeed, TypeOK, TabState
    <3>2. /\ call' = [call EXCEPT ![c] = Fetch("loginMe", call[c].tab, "first", call[c].token,
                                              call[c].token)]
          /\ jar' = call[c].token /\ UNCHANGED <<server, history>>
      BY <1>13, <2>2 DEF Succeed
    <3> QED BY <1>8, <1>9, <3>1, <3>2
  <2>3. CASE call[c].kind = "page"
    <3>1. End(c, "done") /\ UNCHANGED <<server, jar, tab, history>>
      BY <1>13, <2>3 DEF Succeed
    <3> QED BY <1>1, <1>5, <3>1 DEF TypeOK
  <2>4. CASE call[c].kind = "logout"
    <3>1. /\ End(c, "done") /\ UNCHANGED <<server, history>>
          /\ jar' = None /\ tab' = LoggedOut(call[c].tab)
      BY <1>13, <2>4 DEF Succeed
    <3> QED BY <1>1, <1>4, <1>5, <3>1
  <2> QED BY <1>13, <2>1, <2>2, <2>3, <2>4 DEF Succeed
<1>14. CASE Fail(c)
  <2>1. tab' \in [Tab -> TabState]
    <3>1. ASSUME NEW x PROVE [tab EXCEPT ![x].me = FALSE, ![x].loading = FALSE] \in [Tab -> TabState]
      BY DEF TypeOK, TabState
    <3> QED BY <1>4, <1>14, <3>1 DEF Fail, TypeOK
  <2>2. End(c, "failed") /\ UNCHANGED <<server, jar, history>>
    BY <1>14 DEF Fail
  <2> QED BY <1>1, <1>5, <2>1, <2>2
<1> QED BY <1>6, <1>7, <1>10, <1>11, <1>12, <1>13, <1>14, <1>15

LEMMA Typed ==
  ASSUME TypeOK, [Next]_vars
  PROVE  TypeOK'
<1>1. CASE UNCHANGED vars
  BY <1>1 DEF vars, server, history, TypeOK, Families!TypeOK
<1>2. ASSUME NEW s \in Session, GraceEnds(s) PROVE TypeOK'
  BY <1>2 DEF GraceEnds, TypeOK, history, Families!TypeOK
<1>3. ASSUME NEW f \in Session, EndElsewhere(f) PROVE TypeOK'
  <2>1. Families!TypeOK'
    BY <1>3 DEF EndElsewhere, Families!Close, TypeOK, Families!TypeOK
  <2> QED BY <1>3, <2>1 DEF EndElsewhere, TypeOK, history
<1>4. ASSUME NEW c \in Call, Step(c) PROVE TypeOK'
  BY <1>4, ServerTypes, ScriptTypes DEF Step
<1> QED BY <1>1, <1>2, <1>3, <1>4, BeginTyped DEF Next

-----------------------------------------------------------------------------
(* Tokens and cookies. *)

Tokens == TokensKnown /\ Undelivered /\ CookieIsCurrent /\ RotatedLately

\* Closing families makes no token superseded, and spares the usable token of
\* every family in which some token is.
LEMMA Closing ==
  ASSUME TypeOK, TokensKnown, NEW F, Families!Close(F), UNCHANGED <<used, family>>
  PROVE  /\ \A f \in Session : head'[f] \subseteq head[f]
         /\ \A s : Superseded(s)' => Superseded(s)
         /\ \A s, t : Superseded(s)' /\ t \in used /\ family[t] = family[s] /\ Live(t)
                     => Live(t)'
<1>1. head' = [f \in Session |-> IF f \in F THEN {} ELSE head[f]]
  BY DEF Families!Close
<1>2. \A f \in Session : head'[f] \subseteq head[f]
  BY <1>1
<1>3. ASSUME NEW s, Superseded(s)'
      PROVE  /\ s \in Session /\ family[s] \in Session /\ head[family[s]] # {}
             /\ head'[family[s]] = head[family[s]]
  <2>1. s \in used /\ head'[family[s]] # {}
    BY <1>3 DEF Superseded
  <2>2. s \in Session /\ family[s] \in Session
    BY <2>1 DEF TypeOK, Families!TypeOK, TokensKnown, SessionOrNone
  <2> QED BY <1>1, <2>1, <2>2
<1>4. ASSUME NEW s, Superseded(s)' PROVE Superseded(s)
  <2>1. ASSUME Live(s) PROVE FALSE
    <3>1. PICK f \in Session : s \in head[f]
      BY <2>1 DEF Live
    <3>2. f = family[s]
      BY <3>1 DEF TokensKnown
    <3>3. Live(s)'
      BY <1>3, <1>4, <3>1, <3>2 DEF Live
    <3> QED BY <1>4, <3>3 DEF Superseded
  <2> QED BY <1>3, <1>4, <2>1 DEF Superseded
<1>5. ASSUME NEW s, NEW t, Superseded(s)', t \in used, family[t] = family[s], Live(t)
      PROVE  Live(t)'
  <2>1. PICK f \in Session : t \in head[f]
    BY <1>5 DEF Live
  <2>2. f = family[s]
    BY <1>5, <2>1 DEF TokensKnown
  <2> QED BY <1>3, <1>5, <2>1, <2>2 DEF Live
<1> QED BY <1>2, <1>4, <1>5

\* Steps that issue nothing and deliver nothing: calls move on, and families
\* may be closed.
MovesOn(d) ==
  /\ call'[d].token = None /\ (call[d].token = None \/ lost')
  /\ \/ call'[d].cookie \in {None, jar}
     \/ /\ call'[d].cookie = call[d].cookie
        /\ call'[d].pc \in {"network", "answered"} => call[d].pc \in {"network", "answered"}
  /\ call'[d].pc = "script" \/ call'[d].cookie # None =>
       Guarded(call'[d].kind, call'[d].stage)

Moves == /\ lost => lost'
         /\ \A d \in Call : call'[d] = call[d] \/ MovesOn(d)

LEMMA MovesKeepTokens ==
  ASSUME IInv, TypeOK', Moves, NEW F, Families!Close(F), UNCHANGED <<family, recent, jar>>
  PROVE  Tokens'
<1>1. TypeOK /\ TokensKnown /\ Undelivered /\ CookieIsCurrent /\ RotatedLately
  BY DEF IInv
<1>2. UNCHANGED used
  BY DEF Families!Close
<1>3. /\ \A f \in Session : head'[f] \subseteq head[f]
      /\ \A s : Superseded(s)' => Superseded(s)
      /\ \A s, t : Superseded(s)' /\ t \in used /\ family[t] = family[s] /\ Live(t) => Live(t)'
  BY <1>1, <1>2, Closing
<1>4. \A d \in Call : call'[d] = call[d] \/ MovesOn(d)
  BY DEF Moves
<1>5. TokensKnown'
  <2>1. \A d \in Call :
          /\ {call'[d].cookie, call'[d].token} \subseteq used \cup {None}
          /\ call'[d].pc = "script" \/ call'[d].cookie # None =>
               Guarded(call'[d].kind, call'[d].stage)
    BY <1>1, <1>4 DEF MovesOn, TokensKnown, Guarded
  <2>2. \A f \in Session : /\ \A s \in head'[f] : family[s] = f
                          /\ \A s, t \in head'[f] : s = t
    BY <1>1, <1>3 DEF TokensKnown
  <2> QED BY <1>1, <1>2, <2>1, <2>2 DEF TokensKnown, Guarded
<1>6. Undelivered'
  <2> SUFFICES ASSUME NEW d \in Call, NEW t, t = call'[d].token, t # None
               PROVE  /\ call'[d].pc = "answered" /\ SetsCookies(call[d])'
                      /\ jar # t /\ ~Superseded(t)'
                      /\ \A e \in Call : call'[e].cookie # t /\ (call'[e].token = t => e = d)
                      /\ call'[d].cookie # None => family[t] = family[call'[d].cookie]
    BY DEF Undelivered, Superseded, Live
  <2>1. call'[d] = call[d]
    BY <1>4 DEF MovesOn
  <2>2. /\ call[d].pc = "answered" /\ SetsCookies(call[d])
        /\ jar # t /\ ~Superseded(t)
        /\ \A e \in Call : call[e].cookie # t /\ (call[e].token = t => e = d)
        /\ call[d].cookie # None => family[t] = family[call[d].cookie]
    BY <1>1, <2>1 DEF Undelivered
  <2>3. \A e \in Call : call'[e].cookie # t /\ (call'[e].token = t => e = d)
    BY <1>4, <2>1, <2>2 DEF MovesOn
  <2> QED BY <1>3, <2>1, <2>2, <2>3 DEF SetsCookies
<1>7. CookieIsCurrent'
  <2> SUFFICES ASSUME ~lost', NEW j, j = jar, Superseded(j)'
               PROVE  \E d \in Call : \E t : call'[d].cookie = j /\ call'[d].token = t /\ Live(t)'
    BY DEF CookieIsCurrent, Superseded, Live
  <2>1. ~lost /\ Superseded(jar)
    BY <1>3 DEF Moves
  <2>2. PICK d \in Call : call[d].cookie = jar /\ Live(call[d].token)
    BY <1>1, <2>1 DEF CookieIsCurrent
  <2> DEFINE t == call[d].token
  <2>3. t # None /\ jar # None /\ t \in used
    BY <1>1, <2>1, <2>2, NoneUnused DEF TokensKnown
  <2>4. call'[d] = call[d] /\ family[t] = family[jar] /\ Live(t)
    BY <1>1, <1>4, <2>1, <2>2, <2>3 DEF Undelivered, MovesOn
  <2>5. call'[d].token = t /\ call'[d].cookie = j
    BY <2>2, <2>4
  <2>6. \E u : u = t
    OBVIOUS
  <2>7. PICK u : u = call[d].token
    BY <2>6
  <2>8. Live(u)'
    BY <1>3, <2>3, <2>4, <2>7
  <2> QED BY <2>5, <2>7, <2>8
<1>8. RotatedLately'
  <2> SUFFICES ASSUME ~lost', NEW s \in Session, Superseded(s)',
                      \/ jar = s
                      \/ \E d \in Call : /\ call'[d].cookie = s
                                        /\ call'[d].pc \in {"network", "answered"}
               PROVE  s \in recent
    BY DEF RotatedLately
  <2>1. ~lost /\ Superseded(s) /\ s # None
    BY <1>3, NoneIsNone DEF Moves
  <2>2. \/ jar = s
        \/ \E d \in Call : call[d].cookie = s /\ call[d].pc \in {"network", "answered"}
    BY <1>4, <2>1 DEF MovesOn
  <2> QED BY <1>1, <2>1, <2>2 DEF RotatedLately
<1> QED BY <1>5, <1>6, <1>7, <1>8 DEF Tokens

LEMMA DeliveryKeepsTokens ==
  ASSUME IInv, TypeOK', NEW c \in Call, UNCHANGED <<server, lost>>,
         jar' \in {None, call[c].token},
         \A d \in Call : d # c => call'[d] = call[d],
         call'[c].token = None, call'[c].cookie = None,
         call'[c].pc = "script" => Guarded(call'[c].kind, call'[c].stage)
  PROVE  Tokens'
<1>1. TypeOK /\ TokensKnown /\ Undelivered /\ CookieIsCurrent /\ RotatedLately
  BY DEF IInv
<1>2. UNCHANGED <<head, used, family, recent>>
  BY DEF server
<1>3. ~Superseded(jar')
  BY <1>1, NoneUnused DEF Undelivered
<1>4. TokensKnown'
  <2>1. jar' \in used \cup {None}
    BY <1>1 DEF TokensKnown
  <2>2. \A d \in Call :
          /\ {call'[d].cookie, call'[d].token} \subseteq used \cup {None}
          /\ call'[d].pc = "script" \/ call'[d].cookie # None =>
               Guarded(call'[d].kind, call'[d].stage)
    BY <1>1 DEF TokensKnown
  <2> QED BY <1>1, <1>2, <2>1, <2>2 DEF TokensKnown, Guarded
<1>5. Undelivered'
  <2> SUFFICES ASSUME NEW d \in Call, NEW t, t = call'[d].token, t # None
               PROVE  /\ call'[d].pc = "answered" /\ SetsCookies(call[d])'
                      /\ jar' # t /\ ~Superseded(t)'
                      /\ \A e \in Call : call'[e].cookie # t /\ (call'[e].token = t => e = d)
                      /\ call'[d].cookie # None => family[t] = family[call'[d].cookie]
    BY <1>2 DEF Undelivered, Superseded, Live
  <2>1. d # c /\ call'[d] = call[d]
    OBVIOUS
  <2>2. /\ call[d].pc = "answered" /\ SetsCookies(call[d])
        /\ jar # t /\ ~Superseded(t)
        /\ \A e \in Call : call[e].cookie # t /\ (call[e].token = t => e = d)
        /\ call[d].cookie # None => family[t] = family[call[d].cookie]
    BY <1>1, <2>1 DEF Undelivered
  <2>3. jar' # t
    BY <2>1, <2>2
  <2>4. ~Superseded(t)'
    BY <1>2, <2>2 DEF Superseded, Live
  <2> QED BY <2>1, <2>2, <2>3, <2>4 DEF SetsCookies
<1>6. CookieIsCurrent'
  BY <1>2, <1>3 DEF CookieIsCurrent, Superseded, Live
<1>7. RotatedLately'
  <2> SUFFICES ASSUME ~lost, NEW s \in Session, Superseded(s),
                      \/ jar' = s
                      \/ \E d \in Call : /\ call'[d].cookie = s
                                        /\ call'[d].pc \in {"network", "answered"}
               PROVE  s \in recent
    BY <1>2 DEF RotatedLately, Superseded, Live
  <2>1. PICK d \in Call : call'[d].cookie = s /\ call'[d].pc \in {"network", "answered"}
    BY <1>3
  <2>2. call'[d] = call[d]
    BY <2>1, NoneIsNone
  <2> QED BY <1>1, <2>1, <2>2 DEF RotatedLately
<1> QED BY <1>4, <1>5, <1>6, <1>7 DEF Tokens

\* New is issued in the answer to c: to family f, whose usable token, if it had
\* one, c has presented.
LEMMA IssueKeepsTokens ==
  ASSUME IInv, TypeOK', NEW c \in Call, NEW f \in Session, NEW n, n = New, Unissued # {}, Issue(c, f),
         head' = [head EXCEPT ![f] = {n}], used' = used \cup {n}, recent \subseteq recent',
         \/ f = n /\ call[c].kind = "login" /\ call[c].cookie = None
         \/ /\ call[c].cookie \in head[f] /\ call[c].cookie \in recent'
            /\ call[c].stage = "refresh"
  PROVE  Tokens'
<1>1. TypeOK /\ TokensKnown /\ Undelivered /\ CookieIsCurrent /\ RotatedLately
  BY DEF IInv
<1>2. n = New /\ n \in Session /\ n \notin used /\ n # None
  BY NewIsUnissued, NoneIsNone
<1>3. /\ call[c].pc = "network" /\ call'[c].pc = "answered" /\ call'[c].answer = "ok"
      /\ call'[c].token = n /\ call'[c].cookie = call[c].cookie
      /\ call'[c].stage = call[c].stage /\ call'[c].kind = call[c].kind
      /\ \A d \in Call : d # c => call'[d] = call[d]
      /\ UNCHANGED <<jar, lost>>
  <2> DEFINE q == [call[c] EXCEPT !.pc = "answered", !.answer = "ok", !.token = n,
                                  !.access = None, !.header = None]
  <2>1. call[c] \in CallState /\ call \in [Call -> CallState]
    BY <1>1 DEF TypeOK
  <2>2. /\ q.pc = "answered" /\ q.answer = "ok" /\ q.token = n
        /\ q.cookie = call[c].cookie /\ q.stage = call[c].stage /\ q.kind = call[c].kind
    BY <2>1 DEF CallState
  <2>3. /\ call[c].pc = "network" /\ call' = [call EXCEPT ![c] = q]
        /\ UNCHANGED <<jar, lost>>
    BY <1>2 DEF Issue, Answer, history
  <2> HIDE DEF q
  <2> QED BY <2>1, <2>2, <2>3
<1>4. /\ family' = [family EXCEPT ![n] = f]
      /\ head \in [Session -> SUBSET Session] /\ family \in [Session -> SessionOrNone]
      /\ \A s \in used : s \in Session /\ s # n /\ family'[s] = family[s] /\ family[s] \in Session
      /\ family'[n] = f /\ head'[f] = {n} /\ \A g \in Session : g # f => head'[g] = head[g]
  <2>1. /\ family' = [family EXCEPT ![n] = f]
        /\ head \in [Session -> SUBSET Session] /\ family \in [Session -> SessionOrNone]
        /\ \A s \in used : s \in Session
    BY <1>1, <1>2 DEF Issue, TypeOK, Families!TypeOK
  <2>2. \A s \in used : family[s] \in Session
    BY <1>1, <2>1 DEF TokensKnown, SessionOrNone
  <2> QED BY <1>2, <2>1, <2>2
\* Only the token presented is newly superseded.
<1>5. ASSUME NEW s, Superseded(s)'
      PROVE  s \in used /\ (Superseded(s) \/ (s = call[c].cookie /\ s \in recent'))
  <2>1. s \in used
    <3>1. Live(n)'
      BY <1>4 DEF Live
    <3> QED BY <1>5, <3>1 DEF Superseded
  <2>2. CASE family[s] # f
    <3>1. head'[family[s]] = head[family[s]]
      BY <1>4, <2>1, <2>2
    <3>2. Live(s) => Live(s)'
      BY <1>1, <1>4, <2>2 DEF Live, TokensKnown
    <3> QED BY <1>4, <1>5, <2>1, <3>1, <3>2 DEF Superseded
  <2>3. CASE family[s] = f
    <3>1. f # n
      BY <1>1, <1>2, <1>4, <2>1, <2>3, NoneIsNone DEF TokensKnown
    <3>2. call[c].cookie \in head[f] /\ call[c].cookie \in recent'
      BY <3>1
    <3>3. Live(s) => s = call[c].cookie
      BY <1>1, <2>3, <3>2 DEF Live, TokensKnown
    <3> QED BY <2>1, <2>3, <3>2, <3>3 DEF Superseded
  <2> QED BY <2>1, <2>2, <2>3
<1>6. TokensKnown'
  <2>1. \A s \in Session : /\ s \in used' <=> family'[s] # None
                          /\ family'[s] \in used' \cup {None}
    <3>1. f \in used' /\ f # None
      BY <1>1, <1>4, NoneIsNone DEF TokensKnown
    <3> QED BY <1>1, <1>2, <1>4, <3>1 DEF TokensKnown
  <2>2. \A g \in Session : /\ \A s \in head'[g] : family'[s] = g
                          /\ \A s, t \in head'[g] : s = t
    <3>1. ASSUME NEW g \in Session, g # f, NEW s \in head'[g] PROVE family'[s] = g
      <4>1. s \in head[g] /\ s \in Session
        BY <1>4, <3>1
      <4>2. family[s] = g /\ s \in used
        BY <1>1, <4>1, NoneIsNone DEF TokensKnown
      <4> QED BY <1>4, <4>2
    <3> QED BY <1>1, <1>4, <3>1 DEF TokensKnown
  <2>3. jar' \in used' \cup {None}
    BY <1>1, <1>3 DEF TokensKnown
  <2>4. \A d \in Call :
          /\ {call'[d].cookie, call'[d].token} \subseteq used' \cup {None}
          /\ call'[d].pc = "script" \/ call'[d].cookie # None =>
               Guarded(call'[d].kind, call'[d].stage)
    BY <1>1, <1>3 DEF TokensKnown
  <2> QED BY <2>1, <2>2, <2>3, <2>4 DEF TokensKnown, Guarded
<1>7. Undelivered'
  <2> SUFFICES ASSUME NEW d \in Call, NEW t, t = call'[d].token, t # None
               PROVE  /\ call'[d].pc = "answered" /\ SetsCookies(call[d])'
                      /\ jar # t /\ ~Superseded(t)'
                      /\ \A e \in Call : call'[e].cookie # t /\ (call'[e].token = t => e = d)
                      /\ call'[d].cookie # None => family'[t] = family'[call'[d].cookie]
    BY <1>3 DEF Undelivered, Superseded, Live
  <2>1. CASE d = c
    <3>1. t = n
      BY <1>3, <2>1
    <3>2. ~Superseded(t)'
      BY <1>2, <1>5, <3>1
    <3>3. /\ jar # n
          /\ \A e \in Call : call'[e].cookie # n /\ (call'[e].token = n => e = c)
      BY <1>1, <1>2, <1>3 DEF TokensKnown
    <3>4. call'[c].cookie # None => family'[n] = family'[call'[c].cookie]
      <4>1. SUFFICES ASSUME call[c].cookie # None
                     PROVE  f = family'[call[c].cookie]
        BY <1>3, <1>4
      <4>2. call[c].cookie \in used
        BY <1>1, <4>1 DEF TokensKnown
      <4> QED BY <1>1, <1>4, <4>1, <4>2 DEF TokensKnown
    <3>5. SetsCookies(call[d])'
      BY <1>3, <2>1 DEF SetsCookies
    <3> QED BY <1>3, <2>1, <3>1, <3>2, <3>3, <3>4, <3>5
  <2>2. CASE d # c
    <3>1. call'[d] = call[d]
      BY <1>3, <2>2
    <3>2. /\ call[d].pc = "answered" /\ SetsCookies(call[d])
          /\ jar # t /\ ~Superseded(t)
          /\ \A e \in Call : call[e].cookie # t /\ (call[e].token = t => e = d)
          /\ call[d].cookie # None => family[t] = family[call[d].cookie]
      BY <1>1, <3>1 DEF Undelivered
    <3>3. t \in used /\ call[d].cookie \in used \cup {None}
      BY <1>1, <3>1 DEF TokensKnown
    <3>4. ~Superseded(t)'
      BY <1>5, <3>2
    <3>5. \A e \in Call : call'[e].cookie # t /\ (call'[e].token = t => e = d)
      BY <1>2, <1>3, <3>2, <3>3
    <3> QED BY <1>4, <3>1, <3>2, <3>3, <3>4, <3>5 DEF SetsCookies
  <2> QED BY <2>1, <2>2
<1>8. CookieIsCurrent'
  <2> SUFFICES ASSUME ~lost, Superseded(jar)'
               PROVE  \E d \in Call : \E t : call'[d].cookie = jar /\ call'[d].token = t /\ Live(t)'
    BY <1>3 DEF CookieIsCurrent, Superseded, Live
  <2>1. Superseded(jar) \/ jar = call[c].cookie
    BY <1>3, <1>5 DEF Superseded, Live
  <2>2. CASE jar = call[c].cookie
    <3>1. Live(n)'
      BY <1>4 DEF Live
    <3> QED BY <1>3, <2>2, <3>1
  <2>3. CASE Superseded(jar)
    <3>1. PICK d \in Call : call[d].cookie = jar /\ Live(call[d].token)
      BY <1>1, <2>3 DEF CookieIsCurrent
    <3>2. PICK t : t = call[d].token
      OBVIOUS
    <3>3. t # None
      BY <1>1, <3>1, <3>2, NoneUnused
    <3>4. call[d].pc = "answered" /\ d # c /\ t # call[c].cookie
      BY <1>1, <1>3, <3>2, <3>3 DEF Undelivered
    <3>5. PICK g \in Session : t \in head[g]
      BY <3>1, <3>2 DEF Live
    <3>6. g # f
      BY <1>1, <1>2, <1>4, <3>4, <3>5, NoneIsNone DEF TokensKnown
    <3>7. Live(t)'
      BY <1>4, <3>5, <3>6 DEF Live
    <3> QED BY <1>3, <3>1, <3>2, <3>4, <3>7
  <2> QED BY <2>1, <2>2, <2>3
<1>9. RotatedLately'
  <2> SUFFICES ASSUME ~lost, NEW s \in Session, Superseded(s)',
                      \/ jar = s
                      \/ \E d \in Call : /\ call'[d].cookie = s
                                        /\ call'[d].pc \in {"network", "answered"}
               PROVE  s \in recent'
    BY <1>3 DEF RotatedLately
  <2>1. \/ jar = s
        \/ \E d \in Call : call[d].cookie = s /\ call[d].pc \in {"network", "answered"}
    BY <1>3
  <2> QED BY <1>1, <1>5, <2>1 DEF RotatedLately
<1> QED BY <1>6, <1>7, <1>8, <1>9 DEF Tokens

\* The grace of a token that the browser still holds does not end: the answer
\* that replaces it would be under way.
LEMMA GraceKeepsTokens ==
  ASSUME IInv, NEW s \in Session, GraceEnds(s)
  PROVE  Tokens'
<1>1. TypeOK /\ TokensKnown /\ Undelivered /\ CookieIsCurrent /\ RotatedLately
  BY DEF IInv
<1>2. UNCHANGED <<head, used, family, jar, tab, call, lost, overlapped>>
  BY DEF GraceEnds, history
<1>3. TokensKnown' /\ Undelivered' /\ CookieIsCurrent'
  BY <1>1, <1>2 DEF TokensKnown, Guarded, Undelivered, SetsCookies, CookieIsCurrent, Superseded, Live
<1>4. RotatedLately'
  <2> SUFFICES ASSUME ~lost, NEW t \in Session, Superseded(t),
                      \/ jar = t
                      \/ \E d \in Call : /\ call[d].cookie = t
                                        /\ call[d].pc \in {"network", "answered"}
               PROVE  t \in recent'
    BY <1>2 DEF RotatedLately, Superseded, Live
  <2>1. t \in recent
    BY <1>1 DEF RotatedLately
  <2>2. ASSUME t = s PROVE FALSE
    <3>1. jar = s
      BY <2>2 DEF GraceEnds
    <3>2. PICK d \in Call : call[d].cookie = s /\ Live(call[d].token)
      BY <1>1, <2>2, <3>1 DEF CookieIsCurrent
    <3>3. call[d].token # None
      BY <1>1, <3>2, NoneUnused
    <3>4. call[d].pc = "answered"
      BY <1>1, <3>3 DEF Undelivered
    <3> QED BY <3>2, <3>4 DEF GraceEnds
  <2> QED BY <2>1, <2>2 DEF GraceEnds
<1> QED BY <1>3, <1>4 DEF Tokens

-----------------------------------------------------------------------------
(* Every step is one of those. *)

LEMMA Untouched ==
  ASSUME TypeOK, UNCHANGED server
  PROVE  Families!Close({}) /\ UNCHANGED <<family, recent>>
<1>1. head \in [Session -> SUBSET Session]
  BY DEF TypeOK, Families!TypeOK
<1>2. UNCHANGED <<head, used, family, recent>>
  BY DEF server
<1>3. head = [f \in Session |-> head[f]]
  BY <1>1
<1> QED BY <1>2, <1>3 DEF Families!Close

LEMMA OneMoves ==
  ASSUME IInv, TypeOK', NEW c \in Call, NEW q, call' = [call EXCEPT ![c] = q],
         MovesOn(c), lost => lost', UNCHANGED jar,
         \/ UNCHANGED server
         \/ \E F : Families!Close(F) /\ UNCHANGED <<family, recent>>
  PROVE  Tokens'
<1>1. TypeOK
  BY DEF IInv
<1>2. \A d \in Call : d # c => call'[d] = call[d]
  BY <1>1 DEF TypeOK
<1>3. Moves
  BY <1>2 DEF Moves
<1> QED BY <1>1, <1>3, MovesKeepTokens, Untouched

LEMMA FetchOf ==
  ASSUME NEW kind, NEW x, NEW stage, NEW access, NEW cookies, NEW q,
         q = Fetch(kind, x, stage, access, cookies)
  PROVE  /\ q.token = None /\ q.cookie = None /\ q.kind = kind /\ q.stage = stage
         /\ q.pc = "script" => Guarded(kind, stage)
BY DEF Fetch

\* A call that is ended, or starts over, with nothing to deliver.
LEMMA Blank ==
  ASSUME IInv, TypeOK', NEW c \in Call, NEW q, call' = [call EXCEPT ![c] = q],
         q.token = None, q.cookie = None, q.pc = "script" => Guarded(q.kind, q.stage),
         call[c].token = None, UNCHANGED <<server, jar, lost>>
  PROVE  Tokens'
<1>1. call'[c] = q
  BY DEF IInv, TypeOK
<1>2. MovesOn(c)
  BY <1>1 DEF MovesOn
<1> QED BY <1>2, OneMoves

\* A call whose answer has been used.
LEMMA Delivered ==
  ASSUME IInv, TypeOK', NEW c \in Call, NEW q, call' = [call EXCEPT ![c] = q],
         q.token = None, q.cookie = None, q.pc = "script" => Guarded(q.kind, q.stage),
         jar' \in {None, call[c].token}, UNCHANGED <<server, lost>>
  PROVE  Tokens'
<1>1. call'[c] = q /\ \A d \in Call : d # c => call'[d] = call[d]
  BY DEF IInv, TypeOK
<1> QED BY <1>1, DeliveryKeepsTokens

LEMMA Nothing ==
  ASSUME IInv, NEW c \in Call,
         call[c].pc # "answered" \/ call[c].answer # "ok"
           \/ (call[c].stage # "refresh" /\ call[c].kind \notin {"login", "logout"})
  PROVE  call[c].token = None
BY DEF IInv, Undelivered, SetsCookies

LEMMA BeginKeepsTokens ==
  ASSUME IInv, TypeOK', NEW c \in Call, NEW kind, NEW x, NEW access, Begin(c, kind, x, access)
  PROVE  Tokens'
<1> DEFINE q == Fetch(kind, x, "first", access, jar)
<1>1. /\ q.token = None /\ q.cookie = None
      /\ q.pc = "script" => Guarded(q.kind, q.stage)
  BY FetchOf
<1>2. call' = [call EXCEPT ![c] = q] /\ UNCHANGED <<server, jar, lost>>
  BY DEF Begin
<1>3. call[c].token = None
  BY Nothing DEF Begin
<1> HIDE DEF q
<1> QED BY <1>1, <1>2, <1>3, Blank

LEMMA AnswerKeepsTokens ==
  ASSUME IInv, TypeOK', NEW c \in Call, NEW answer, Answer(c, answer, None),
         \/ UNCHANGED server
         \/ \E F : Families!Close(F) /\ UNCHANGED <<family, recent>>
  PROVE  Tokens'
<1> DEFINE q == [call[c] EXCEPT !.pc = "answered", !.answer = answer, !.token = None,
                                !.access = None, !.header = None]
<1>1. call[c] \in CallState /\ call \in [Call -> CallState]
  BY DEF IInv, TypeOK
<1>2. /\ q.pc = "answered" /\ q.token = None /\ q.cookie = call[c].cookie
      /\ q.kind = call[c].kind /\ q.stage = call[c].stage
  BY <1>1 DEF CallState
<1>3. /\ call[c].pc = "network" /\ call' = [call EXCEPT ![c] = q] /\ UNCHANGED <<jar, lost>>
  BY DEF Answer, history
<1>4. call[c].token = None
  BY <1>3, Nothing
<1>5. call[c].cookie # None => Guarded(call[c].kind, call[c].stage)
  BY DEF IInv, TokensKnown
<1> HIDE DEF q
<1>6. call'[c] = q
  BY <1>1, <1>3
<1>7. MovesOn(c)
  BY <1>2, <1>3, <1>4, <1>5, <1>6 DEF MovesOn
<1> QED BY <1>3, <1>7, OneMoves

LEMMA ServeKeepsTokens ==
  ASSUME IInv, TypeOK', NEW c \in Call, Serve(c)
  PROVE  Tokens'
<1>1. TypeOK /\ TokensKnown
  BY DEF IInv
<1>2. ASSUME NEW answer, Reply(c, answer) PROVE Tokens'
  BY <1>2, AnswerKeepsTokens DEF Reply
<1>3. CASE ServeRefresh(c)
  <2>1. ASSUME NEW s, s = call[c].cookie, Live(s), Rotate(c, s) PROVE Tokens'
    <3>1. PICK f \in Session : s \in head[f]
      BY <2>1 DEF Live
    <3>2. f = family[s]
      BY <1>1, <3>1 DEF TokensKnown
    <3>3. PICK n : n = New
      OBVIOUS
    <3>4. /\ Issue(c, f) /\ Unissued # {} /\ head' = [head EXCEPT ![f] = {n}]
          /\ used' = used \cup {n} /\ recent' = recent \cup {s}
      BY <2>1, <3>2, <3>3 DEF Rotate, Families!Rotate
    <3> QED BY <1>3, <2>1, <3>1, <3>3, <3>4, IssueKeepsTokens DEF ServeRefresh
  <2>2. ASSUME NEW s, Families!Close({family[s]}), Answer(c, "error", None),
               UNCHANGED <<family, recent>>
        PROVE  Tokens'
    BY <2>2, AnswerKeepsTokens
  <2> QED BY <1>2, <1>3, <2>1, <2>2 DEF ServeRefresh
<1>4. CASE ServeLogin(c)
  <2>1. CASE Unissued # {} /\ Families!Open(New) /\ Issue(c, New) /\ UNCHANGED recent
    <3>1. call[c].kind = "login" /\ call[c].cookie = None
      BY <1>1, <1>4 DEF ServeLogin, TokensKnown, Guarded
    <3>2. PICK n : n = New
      OBVIOUS
    <3>3. /\ n \in Session /\ Issue(c, n) /\ head' = [head EXCEPT ![n] = {n}]
          /\ used' = used \cup {n}
      BY <2>1, <3>2, NewIsUnissued DEF Families!Open
    <3> QED BY <2>1, <3>1, <3>2, <3>3, IssueKeepsTokens
  <2> QED BY <1>2, <1>4, <2>1 DEF ServeLogin
<1>5. CASE ServeLogout(c)
  BY <1>2, <1>5, AnswerKeepsTokens DEF ServeLogout
<1>6. CASE ServeRest(c)
  BY <1>2, <1>6 DEF ServeRest
<1> QED BY <1>2, <1>3, <1>4, <1>5, <1>6 DEF Serve

LEMMA ScriptKeepsTokens ==
  ASSUME IInv, TypeOK', NEW c \in Call,
         \/ Attach(c) \/ Lose(c) \/ LoseBody(c) \/ Unauthorized(c) \/ Refreshed(c)
         \/ RefreshFailed(c) \/ Succeed(c) \/ Fail(c)
  PROVE  Tokens'
<1>1. /\ call[c] \in CallState /\ call \in [Call -> CallState]
      /\ call[c].cookie # None => Guarded(call[c].kind, call[c].stage)
      /\ call[c].pc = "script" => Guarded(call[c].kind, call[c].stage)
  BY DEF IInv, TypeOK, TokensKnown
<1>2. ASSUME NEW pc \in {"done", "failed"}, End(c, pc), UNCHANGED <<server, lost>>,
             jar' \in {None, call[c].token} \/ (jar' = jar /\ call[c].token = None)
      PROVE  Tokens'
  <2> DEFINE q == [kind |-> call[c].kind, tab |-> call[c].tab, stage |-> "first", pc |-> pc,
                   access |-> None, header |-> None, cookie |-> None,
                   answer |-> IF call[c].answer = "race" THEN "race" ELSE "none",
                   token |-> None]
  <2>1. q.token = None /\ q.cookie = None /\ q.pc # "script"
    OBVIOUS
  <2>2. call' = [call EXCEPT ![c] = q]
    BY <1>2 DEF End
  <2> HIDE DEF q
  <2> QED BY <1>2, <2>1, <2>2, Blank, Delivered
<1>3. ASSUME NEW kind, NEW x, NEW stage, NEW access, NEW cookies,
             call' = [call EXCEPT ![c] = Fetch(kind, x, stage, access, cookies)],
             UNCHANGED <<server, lost>>,
             jar' = call[c].token \/ (jar' = jar /\ call[c].token = None)
      PROVE  Tokens'
  <2> DEFINE q == Fetch(kind, x, stage, access, cookies)
  <2>1. /\ q.token = None /\ q.cookie = None
        /\ q.pc = "script" => Guarded(q.kind, q.stage)
    BY FetchOf
  <2>2. call' = [call EXCEPT ![c] = q]
    BY <1>3
  <2> HIDE DEF q
  <2> QED BY <1>3, <2>1, <2>2, Blank, Delivered
<1>4. CASE Attach(c)
  <2> DEFINE q == [call[c] EXCEPT !.pc = "network", !.cookie = jar]
  <2>1. /\ q.pc = "network" /\ q.token = call[c].token /\ q.cookie = jar
        /\ q.kind = call[c].kind /\ q.stage = call[c].stage
    BY <1>1 DEF CallState
  <2>2. /\ call[c].pc = "script" /\ call' = [call EXCEPT ![c] = q]
        /\ UNCHANGED <<server, jar, lost>>
    BY <1>4 DEF Attach, history
  <2>3. call[c].token = None
    BY <2>2, Nothing
  <2> HIDE DEF q
  <2>4. call'[c] = q
    BY <1>1, <2>2
  <2>5. MovesOn(c)
    BY <1>1, <2>1, <2>2, <2>3, <2>4 DEF MovesOn
  <2> QED BY <2>2, <2>5, OneMoves
<1>5. CASE Lose(c)
  <2> DEFINE q == [call[c] EXCEPT !.answer = "error", !.token = None]
  <2>1. /\ q.pc = call[c].pc /\ q.token = None /\ q.cookie = call[c].cookie
        /\ q.kind = call[c].kind /\ q.stage = call[c].stage
    BY <1>1 DEF CallState
  <2>2. /\ call[c].pc = "answered" /\ call' = [call EXCEPT ![c] = q]
        /\ UNCHANGED <<server, jar>> /\ (lost => lost')
    BY <1>5 DEF Lose
  <2>3. call[c].token = None \/ lost'
    BY <1>5 DEF Lose, IInv, Undelivered
  <2> HIDE DEF q
  <2>4. call'[c] = q
    BY <1>1, <2>2
  <2>5. MovesOn(c)
    BY <1>1, <2>1, <2>2, <2>3, <2>4 DEF MovesOn
  <2> QED BY <2>2, <2>5, OneMoves
<1>11. CASE LoseBody(c)
  <2> DEFINE q == [call[c] EXCEPT !.answer = "error", !.token = None, !.cookie = None]
  <2>1. q.token = None /\ q.cookie = None /\ q.pc = call[c].pc
    BY <1>1 DEF CallState
  <2>2. /\ call[c].pc = "answered" /\ call' = [call EXCEPT ![c] = q]
        /\ jar' = call[c].token /\ UNCHANGED <<server, lost>>
    BY <1>11 DEF LoseBody, history
  <2> HIDE DEF q
  <2> QED BY <2>1, <2>2, Delivered
<1>6. CASE Unauthorized(c)
  <2>1. call[c].token = None
    BY <1>6, Nothing DEF Unauthorized, Arrives
  <2>2. /\ call' = [call EXCEPT ![c] = Fetch(call[c].kind, call[c].tab, "refresh", None, jar)]
        /\ UNCHANGED <<server, jar, lost>>
    BY <1>6 DEF Unauthorized, history
  <2> QED BY <1>3, <2>1, <2>2
<1>7. CASE Refreshed(c)
  <2>1. /\ call' = [call EXCEPT ![c] = Fetch(call[c].kind, call[c].tab, "again", call[c].token,
                                            call[c].token)]
        /\ jar' = call[c].token /\ UNCHANGED <<server, lost>>
    BY <1>7 DEF Refreshed, history
  <2> QED BY <1>3, <2>1
<1>8. CASE RefreshFailed(c)
  <2> DEFINE q == [call[c] EXCEPT !.pc = "failing"]
  <2>1. /\ q.pc = "failing" /\ q.token = call[c].token /\ q.cookie = call[c].cookie
        /\ q.kind = call[c].kind /\ q.stage = call[c].stage
    BY <1>1 DEF CallState
  <2>2. call' = [call EXCEPT ![c] = q] /\ UNCHANGED <<server, jar, lost>>
    BY <1>8 DEF RefreshFailed, history
  <2>3. call[c].token = None
    BY <1>8, Nothing DEF RefreshFailed, Arrives
  <2> HIDE DEF q
  <2>4. call'[c] = q
    BY <1>1, <2>2
  <2>5. MovesOn(c)
    BY <1>1, <2>1, <2>2, <2>3, <2>4 DEF MovesOn
  <2> QED BY <2>2, <2>5, OneMoves
<1>9. CASE Succeed(c)
  <2>1. Arrives(c, {"first", "again"}, {"ok"}) /\ UNCHANGED <<server, lost>>
    BY <1>9 DEF Succeed, history
  <2>2. CASE call[c].kind \in {"start", "loginMe", "page"}
    <3>1. call[c].token = None
      BY <2>1, <2>2, Nothing DEF Arrives
    <3>2. End(c, "done") /\ UNCHANGED jar
      BY <1>9, <2>2 DEF Succeed
    <3> QED BY <1>2, <2>1, <3>1, <3>2
  <2>3. CASE call[c].kind = "login"
    <3>1. /\ call' = [call EXCEPT ![c] = Fetch("loginMe", call[c].tab, "first", call[c].token,
                                              call[c].token)]
          /\ jar' = call[c].token
      BY <1>9, <2>3 DEF Succeed
    <3> QED BY <1>3, <2>1, <3>1
  <2>4. CASE call[c].kind = "logout"
    BY <1>2, <1>9, <2>1, <2>4 DEF Succeed
  <2> QED BY <1>9, <2>2, <2>3, <2>4 DEF Succeed
<1>10. CASE Fail(c)
  <2>1. call[c].token = None
    BY <1>10, Nothing DEF Fail, Arrives
  <2>2. End(c, "failed") /\ UNCHANGED <<server, jar, lost>>
    BY <1>10 DEF Fail, history
  <2> QED BY <1>2, <2>1, <2>2
<1> QED BY <1>4, <1>5, <1>6, <1>7, <1>8, <1>9, <1>10, <1>11

-----------------------------------------------------------------------------
(***************************************************************************)
(* Calls and tabs.  A call that is under way touches its own tab only, and *)
(* the start of a tab that logs in is over.                                *)
(***************************************************************************)
Scripts == CallsOfTabs /\ AnswersFit /\ LoginHolds

LEMMA StepKeepsScripts ==
  ASSUME IInv, TypeOK', NEW c \in Call, Running(c), NEW q, call' = [call EXCEPT ![c] = q],
         NEW x, x = call[c].tab, q.tab = x, q.pc # "idle",
         q.kind = call[c].kind \/ (call[c].kind = "login" /\ q.kind = "loginMe"),
         \A y \in Tab : y # x => tab'[y] = tab[y],
         tab'[x].start = tab[x].start,
         q.pc = "answered" /\ SetsCookies(q) /\ q.kind # "logout" => q.token # None,
         q.kind = "logout" => q.stage = "first" /\ q.answer # "401" /\ q.token = None,
         q.kind = "loginMe" /\ (call[c].kind = "loginMe" => Achieved(call[c], tab[x]))
           => Achieved(q, tab'[x])
  PROVE  Scripts'
<1>1. CallsOfTabs /\ AnswersFit /\ LoginHolds /\ call \in [Call -> CallState]
  BY DEF IInv, TypeOK
<1>2. call'[c] = q /\ \A d \in Call : d # c => call'[d] = call[d]
  BY <1>1
<1>3. \A d \in Call : call'[d].tab = call[d].tab
  BY <1>2
<1>4. ~Over(c) /\ call[c].pc # "idle"
  BY DEF Running, Over
<1>5. x \in Tab /\ tab[x].start \in Call
  BY <1>1, <1>4 DEF CallsOfTabs
<1>6. \A y \in Tab : tab'[y].start = tab[y].start
  OBVIOUS
<1>7. \A d \in Call : Over(d) => Over(d)'
  BY <1>2, <1>4 DEF Over
<1>8. CallsOfTabs'
  <2>0. ASSUME NEW y \in Tab, tab'[y].start = None PROVE ~tab'[y].me
    BY <1>1, <1>5, <1>6, <2>0, NoneIsNone DEF CallsOfTabs
  <2> SUFFICES ASSUME NEW d \in Call
               PROVE  IF call'[d].pc = "idle" THEN call'[d].tab = None
                      ELSE /\ call'[d].tab \in Tab /\ tab'[call'[d].tab].start \in Call
                           /\ call'[d].kind \in {"login", "loginMe"} =>
                                call'[tab'[call'[d].tab].start].pc \in {"done", "failed"}
    BY <2>0 DEF CallsOfTabs, Over
  <2> DEFINE y == call[d].tab
  <2>1. call'[d].pc = "idle" <=> call[d].pc = "idle"
    BY <1>2, <1>4
  <2>2. call'[d].tab = y
    BY <1>3
  <2>3. CASE call[d].pc = "idle"
    BY <1>1, <2>1, <2>2, <2>3 DEF CallsOfTabs
  <2>4. CASE call[d].pc # "idle"
    <3>1. /\ y \in Tab /\ tab[y].start \in Call
          /\ call[d].kind \in {"login", "loginMe"} => Over(tab[y].start)
      BY <1>1, <2>4 DEF CallsOfTabs
    <3>2. call'[d].kind \in {"login", "loginMe"} => call[d].kind \in {"login", "loginMe"}
      BY <1>2
    <3>3. tab'[y].start = tab[y].start
      BY <1>6, <3>1
    <3>4. call'[d].kind \in {"login", "loginMe"} => call'[tab[y].start].pc \in {"done", "failed"}
      BY <1>2, <1>4, <3>1, <3>2 DEF Over
    <3> QED BY <2>1, <2>2, <2>4, <3>1, <3>3, <3>4 DEF Over
  <2> QED BY <2>3, <2>4
<1>9. AnswersFit'
  <2> SUFFICES ASSUME NEW d \in Call
               PROVE  /\ call'[d].pc = "answered" /\ SetsCookies(call'[d])
                           /\ call'[d].kind # "logout" => call'[d].token # None
                      /\ call'[d].kind = "logout" =>
                           /\ call'[d].stage = "first" /\ call'[d].answer # "401"
                           /\ call'[d].token = None
    BY DEF AnswersFit, SetsCookies
  <2> QED BY <1>1, <1>2 DEF AnswersFit
<1>10. LoginHolds'
  <2> SUFFICES ASSUME NEW d \in Call, call'[d].kind = "loginMe", Alone(d)'
               PROVE  Achieved(call'[d], tab'[call'[d].tab])
    BY DEF LoginHolds, Achieved
  <2> DEFINE y == call[d].tab
  <2>1. CASE d = c
    <3>1. \A e \in Call : call[e].tab = x => e \in {c, tab[x].start}
      BY <1>3, <2>1 DEF Alone
    <3>2. Alone(c)
      BY <3>1 DEF Alone
    <3> QED BY <1>1, <1>2, <2>1, <3>2 DEF LoginHolds
  <2>2. CASE d # c
    <3>1. call[d].kind = "loginMe" /\ call'[d] = call[d]
      BY <1>2, <2>2
    <3>2. CASE call[d].pc = "idle"
      BY <3>1, <3>2 DEF Achieved
    <3>3. CASE call[d].pc # "idle"
      <4>1. y \in Tab /\ Over(tab[y].start)
        BY <1>1, <3>1, <3>3 DEF CallsOfTabs
      <4>2. \A e \in Call : call[e].tab = y => e \in {d, tab[y].start}
        BY <1>3, <1>6, <4>1 DEF Alone
      <4>3. Alone(d)
        BY <4>2 DEF Alone
      <4>4. x # y
        BY <1>4, <2>2, <4>1, <4>2
      <4>5. tab'[y] = tab[y]
        BY <4>1, <4>4
      <4> QED BY <1>1, <3>1, <4>3, <4>5 DEF LoginHolds
    <3> QED BY <3>2, <3>3
  <2> QED BY <2>1, <2>2
<1> QED BY <1>8, <1>9, <1>10 DEF Scripts

\* A new call is alone only if nothing of its tab but the start went before.
LEMMA BeginKeepsScripts ==
  ASSUME IInv, NEW x \in Tab, NEW c \in Call, NEW kind, NEW access,
         Begin(c, kind, x, access), kind \in {"start", "page", "login", "logout"},
         \A y \in Tab : y # x => tab'[y] = tab[y],
         \/ tab[x].start = None /\ tab'[x].start = c /\ kind # "login"
         \/ /\ tab[x].start \in Call
            /\ tab'[x].start = tab[x].start /\ tab'[x].access = tab[x].access
            /\ tab'[x].me = tab[x].me
            /\ kind = "login" => Over(tab[x].start)
  PROVE  Scripts'
<1>1. /\ CallsOfTabs /\ AnswersFit /\ LoginHolds
      /\ call \in [Call -> CallState]
  BY DEF IInv, TypeOK
<1> DEFINE q == Fetch(kind, x, "first", access, jar)
<1>2. /\ q.kind = kind /\ q.tab = x /\ q.stage = "first"
      /\ q.pc \in {"script", "network"} /\ q.answer = "none" /\ q.token = None
  BY DEF Fetch
<1>3. /\ call[c].pc = "idle" /\ c # None
      /\ call'[c] = q /\ \A d \in Call : d # c => call'[d] = call[d]
  BY <1>1, NoneIsNone DEF Begin
<1> HIDE DEF q
<1>4. \A y \in Tab : y # x => tab'[y] = tab[y]
  OBVIOUS
<1>5. ~Over(c) /\ x # None
  BY <1>3, NoneIsNone DEF Over
<1>6. ASSUME NEW d \in Call, d # c, call[d].pc # "idle"
      PROVE  /\ call[d].tab \in Tab
             /\ tab'[call[d].tab].start = tab[call[d].tab].start
             /\ tab'[call[d].tab].access = tab[call[d].tab].access
             /\ tab'[call[d].tab].me = tab[call[d].tab].me
  <2>1. call[d].tab \in Tab /\ tab[call[d].tab].start \in Call
    BY <1>1, <1>6 DEF CallsOfTabs
  <2> QED BY <2>1, NoneIsNone
<1>7. CallsOfTabs'
  <2>1. ASSUME NEW y \in Tab, tab'[y].start = None PROVE ~tab'[y].me
    BY <1>1, <1>3, <1>4, <2>1, NoneIsNone DEF CallsOfTabs
  <2>2. /\ call'[c].pc # "idle" /\ call'[c].tab \in Tab
        /\ tab'[call'[c].tab].start \in Call
    BY <1>2, <1>3
  <2>3. call'[c].kind \in {"login", "loginMe"} => call'[tab'[call'[c].tab].start].pc \in {"done", "failed"}
    <3>1. ASSUME kind = "login" PROVE call'[tab[x].start].pc \in {"done", "failed"} /\ tab'[x].start = tab[x].start
      <4>1. tab[x].start \in Call /\ Over(tab[x].start) /\ tab'[x].start = tab[x].start
        BY <3>1
      <4> QED BY <1>3, <1>5, <4>1 DEF Over
    <3> QED BY <1>2, <1>3, <3>1 DEF Over
  <2>4. ASSUME NEW d \in Call, d # c
        PROVE  IF call'[d].pc = "idle" THEN call'[d].tab = None
               ELSE /\ call'[d].tab \in Tab /\ tab'[call'[d].tab].start \in Call
                    /\ call'[d].kind \in {"login", "loginMe"} =>
                         call'[tab'[call'[d].tab].start].pc \in {"done", "failed"}
    <3>1. call'[d] = call[d]
      BY <1>3, <2>4
    <3>2. CASE call[d].pc = "idle"
      BY <1>1, <3>1, <3>2 DEF CallsOfTabs
    <3>3. CASE call[d].pc # "idle"
      <4>1. /\ tab[call[d].tab].start \in Call
            /\ call[d].kind \in {"login", "loginMe"} => Over(tab[call[d].tab].start)
        BY <1>1, <3>3 DEF CallsOfTabs
      <4>2. call[d].kind \in {"login", "loginMe"} => call'[tab[call[d].tab].start].pc \in {"done", "failed"}
        BY <1>3, <1>5, <4>1 DEF Over
      <4> QED BY <1>6, <2>4, <3>1, <3>3, <4>1, <4>2 DEF Over
    <3> QED BY <3>2, <3>3
  <2> QED BY <2>1, <2>2, <2>3, <2>4 DEF CallsOfTabs, Over
<1>8. AnswersFit'
  <2> SUFFICES ASSUME NEW d \in Call
               PROVE  /\ call'[d].pc = "answered" /\ SetsCookies(call'[d])
                           /\ call'[d].kind # "logout" => call'[d].token # None
                      /\ call'[d].kind = "logout" =>
                           /\ call'[d].stage = "first" /\ call'[d].answer # "401"
                           /\ call'[d].token = None
    BY DEF AnswersFit, SetsCookies
  <2> QED BY <1>1, <1>2, <1>3 DEF AnswersFit
<1>9. LoginHolds'
  <2> SUFFICES ASSUME NEW d \in Call, call'[d].kind = "loginMe", Alone(d)'
               PROVE  Achieved(call'[d], tab'[call'[d].tab])
    BY DEF LoginHolds, Achieved
  <2>1. d # c /\ call'[d] = call[d] /\ \A e \in Call : e # c => call'[e].tab = call[e].tab
    BY <1>2, <1>3
  <2>2. CASE call[d].pc = "idle"
    BY <2>1, <2>2 DEF Achieved
  <2>3. CASE call[d].pc # "idle"
    <3> DEFINE y == call[d].tab
    <3>1. y \in Tab /\ tab[y].start \in Call /\ Over(tab[y].start)
      BY <1>1, <2>1, <2>3 DEF CallsOfTabs
    <3>2. \A e \in Call : call'[e].tab = y => e \in {d, tab[y].start}
      BY <1>6, <2>1, <2>3 DEF Alone
    <3>3. \A e \in Call : call[e].tab = y => e \in {d, tab[y].start}
      <4>1. call[c].tab = None
        BY <1>1, <1>3 DEF CallsOfTabs
      <4>2. y # None
        BY <3>1, NoneIsNone
      <4> QED BY <2>1, <3>2, <4>1, <4>2
    <3>4. Achieved(call[d], tab[y])
      BY <1>1, <2>1, <3>3 DEF LoginHolds, Alone
    <3> QED BY <1>6, <2>1, <2>3, <3>4 DEF Achieved
  <2> QED BY <2>2, <2>3
<1> QED BY <1>7, <1>8, <1>9 DEF Scripts

LEMMA OpeningKeepsScripts ==
  ASSUME IInv, NEW x \in Tab, NEW c \in Call,
         OpenTab(x, c) \/ Page(x, c) \/ Login(x, c) \/ Logout(x, c)
  PROVE  Scripts'
<1>1. /\ tab \in [Tab -> TabState] /\ CallsOfTabs
      /\ tab[x].start \in Call \cup {None}
  BY DEF IInv, TypeOK, TabState
<1>2. tab[x].me => tab[x].start \in Call
  BY <1>1 DEF CallsOfTabs
<1>3. CASE OpenTab(x, c)
  <2>1. /\ Begin(c, "start", x, None) /\ tab[x].start = None /\ tab'[x].start = c
        /\ \A y \in Tab : y # x => tab'[y] = tab[y]
    BY <1>1, <1>3 DEF OpenTab
  <2> QED BY <2>1, BeginKeepsScripts
<1>4. CASE Page(x, c)
  <2>1. Begin(c, "page", x, tab[x].access) /\ UNCHANGED tab /\ tab[x].start \in Call
    BY <1>2, <1>4 DEF Page, ShowsPages
  <2> QED BY <2>1, BeginKeepsScripts
<1>5. ASSUME NEW kind \in {"login", "logout"}, Waiting(x, c, kind), tab[x].start \in Call,
             kind = "login" => Over(tab[x].start)
      PROVE  Scripts'
  <2>1. /\ Begin(c, kind, x, tab[x].access)
        /\ tab' = [tab EXCEPT ![x].loading = TRUE]
    BY <1>5 DEF Waiting
  <2>2. /\ \A y \in Tab : y # x => tab'[y] = tab[y]
        /\ tab'[x].start = tab[x].start /\ tab'[x].access = tab[x].access
        /\ tab'[x].me = tab[x].me
    BY <1>1, <2>1 DEF TabState
  <2> QED BY <1>5, <2>1, <2>2, BeginKeepsScripts
<1>6. CASE Login(x, c)
  <2>1. Waiting(x, c, "login") /\ tab[x].start \in Call /\ Over(tab[x].start)
    BY <1>1, <1>6 DEF Login, ShowsLogin
  <2> QED BY <1>5, <2>1
<1>7. CASE Logout(x, c)
  <2>1. Waiting(x, c, "logout") /\ tab[x].start \in Call
    BY <1>2, <1>7 DEF Logout, ShowsPages
  <2> QED BY <1>5, <2>1
<1> QED BY <1>3, <1>4, <1>6, <1>7

LEMMA AnswerKeepsScripts ==
  ASSUME IInv, TypeOK', NEW c \in Call, NEW answer, NEW token, Answer(c, answer, token),
         answer = "ok" /\ (call[c].stage = "refresh" \/ call[c].kind = "login") => token # None,
         call[c].kind = "logout" => answer # "401" /\ token = None
  PROVE  Scripts'
<1> DEFINE q == [call[c] EXCEPT !.pc = "answered", !.answer = answer, !.token = token,
                                !.access = None, !.header = None]
<1>1. call[c] \in CallState /\ AnswersFit /\ CallsOfTabs
  BY DEF IInv, TypeOK
<1>2. /\ call' = [call EXCEPT ![c] = q] /\ UNCHANGED tab
      /\ call[c].pc = "network"
  BY DEF Answer
<1>3. /\ q.tab = call[c].tab /\ q.kind = call[c].kind /\ q.stage = call[c].stage
      /\ q.pc = "answered" /\ q.answer = answer /\ q.token = token
  BY <1>1 DEF CallState
<1> HIDE DEF q
<1>4. Running(c)
  BY <1>2 DEF Running
<1>5. q.pc = "answered" /\ SetsCookies(q) /\ q.kind # "logout" => q.token # None
  BY <1>3 DEF SetsCookies
<1>6. q.kind = "logout" => q.stage = "first" /\ q.answer # "401" /\ q.token = None
  BY <1>1, <1>3 DEF AnswersFit
<1>7. q.kind = "loginMe" /\ (call[c].kind = "loginMe" => Achieved(call[c], tab[call[c].tab]))
        => Achieved(q, tab'[call[c].tab])
  BY <1>2, <1>3 DEF Achieved
<1> QED BY <1>2, <1>3, <1>4, <1>5, <1>6, <1>7, StepKeepsScripts

LEMMA ServeKeepsScripts ==
  ASSUME IInv, TypeOK', NEW c \in Call, Serve(c)
  PROVE  Scripts'
<1>1. AnswersFit /\ (Unissued # {} => New # None)
  BY NewIsUnissued, NoneIsNone DEF IInv
<1>2. ASSUME NEW answer \in {"401", "race", "error"}, Answer(c, answer, None),
             call[c].kind = "logout" => answer # "401"
      PROVE  Scripts'
  BY <1>2, AnswerKeepsScripts
<1>3. CASE ServeRefresh(c)
  <2>1. call[c].kind # "logout"
    BY <1>1, <1>3 DEF ServeRefresh, AnswersFit
  <2>2. CASE Unissued # {} /\ Answer(c, "ok", New)
    BY <1>1, <2>1, <2>2, AnswerKeepsScripts
  <2> QED BY <1>2, <1>3, <2>1, <2>2 DEF ServeRefresh, Rotate, Issue, Reply
<1>4. CASE ServeLogin(c)
  <2>1. CASE Unissued # {} /\ Answer(c, "ok", New)
    BY <1>1, <1>4, <2>1, AnswerKeepsScripts DEF ServeLogin
  <2> QED BY <1>2, <1>4, <2>1 DEF ServeLogin, Issue, Reply
<1>5. CASE ServeLogout(c)
  <2>1. call[c].kind = "logout" /\ call[c].stage = "first"
    BY <1>1, <1>5 DEF ServeLogout, AnswersFit
  <2>2. Answer(c, "ok", None) \/ Answer(c, "error", None)
    BY <1>5 DEF ServeLogout, Reply
  <2> QED BY <1>2, <2>1, <2>2, AnswerKeepsScripts
<1>6. CASE ServeRest(c)
  <2>1. call[c].kind # "logout" /\ call[c].kind # "login" /\ call[c].stage # "refresh"
    BY <1>6 DEF ServeRest
  <2>2. Answer(c, "ok", None) \/ Answer(c, "401", None)
    BY <1>6 DEF ServeRest, Reply
  <2> QED BY <1>2, <2>1, <2>2, AnswerKeepsScripts
<1>7. CASE Reply(c, "error")
  BY <1>2, <1>7 DEF Reply
<1> QED BY <1>3, <1>4, <1>5, <1>6, <1>7 DEF Serve

LEMMA ScriptKeepsScripts ==
  ASSUME IInv, TypeOK', NEW c \in Call,
         \/ Attach(c) \/ Lose(c) \/ LoseBody(c) \/ Unauthorized(c) \/ Refreshed(c)
         \/ RefreshFailed(c) \/ Succeed(c) \/ Fail(c)
  PROVE  Scripts'
<1> DEFINE x == call[c].tab
<1>1. /\ call[c] \in CallState /\ AnswersFit /\ CallsOfTabs
      /\ tab \in [Tab -> TabState]
  BY DEF IInv, TypeOK
<1>2. Running(c)
  BY DEF Attach, Lose, LoseBody, Unauthorized, Refreshed, RefreshFailed, Succeed, Fail, Arrives,
         Running
<1>3. x \in Tab
  BY <1>1, <1>2 DEF CallsOfTabs, Running
<1>4. ASSUME NEW y \in Tab PROVE LoggedOut(x)[y].start = tab[y].start
                               /\ (y # x => LoggedOut(x)[y] = tab[y])
  BY <1>1, <1>3 DEF LoggedOut, TabState
<1>5. ASSUME NEW kind, NEW stage \in {"first", "refresh", "again"}, NEW access, NEW cookies,
             call' = [call EXCEPT ![c] = Fetch(kind, x, stage, access, cookies)],
             kind = call[c].kind \/ (call[c].kind = "login" /\ kind = "loginMe"),
             kind # "logout",
             \A y \in Tab : y # x => tab'[y] = tab[y], tab'[x].start = tab[x].start,
             \/ kind # "loginMe" \/ tab'[x].access # None
             \/ call[c].kind = "loginMe" /\ UNCHANGED tab,
             call[c].pc = "answered"
      PROVE  Scripts'
  <2> DEFINE q == Fetch(kind, x, stage, access, cookies)
  <2>1. /\ q.kind = kind /\ q.tab = x /\ q.pc \in {"script", "network"}
    BY DEF Fetch
  <2>2. call' = [call EXCEPT ![c] = q]
    BY <1>5
  <2> HIDE DEF q
  <2>3. q.kind = "loginMe" /\ (call[c].kind = "loginMe" => Achieved(call[c], tab[x]))
          => Achieved(q, tab'[x])
    BY <1>5, <2>1 DEF Achieved
  <2>4. /\ q.pc # "idle" /\ q.pc # "answered" /\ q.kind # "logout"
        /\ q.kind = call[c].kind \/ (call[c].kind = "login" /\ q.kind = "loginMe")
    BY <1>5, <2>1
  <2>5. \A y \in Tab : y # x => tab'[y] = tab[y]
    BY <1>5
  <2>6. tab'[x].start = tab[x].start
    BY <1>5
  <2> QED BY <1>2, <2>1, <2>2, <2>3, <2>4, <2>5, <2>6, StepKeepsScripts
<1>6. ASSUME NEW pc \in {"done", "failed"}, End(c, pc),
             \A y \in Tab : y # x => tab'[y] = tab[y], tab'[x].start = tab[x].start,
             pc = "done" /\ call[c].kind = "loginMe" /\ Achieved(call[c], tab[x])
               => tab'[x].access # None /\ tab'[x].me,
             call[c].kind = "logout" => call[c].answer # "401"
      PROVE  Scripts'
  <2> DEFINE q == [kind |-> call[c].kind, tab |-> x, stage |-> "first", pc |-> pc,
                   access |-> None, header |-> None, cookie |-> None,
                   answer |-> IF call[c].answer = "race" THEN "race" ELSE "none",
                   token |-> None]
  <2>1. /\ q.kind = call[c].kind /\ q.tab = x /\ q.pc = pc /\ q.stage = "first"
        /\ q.answer # "401" /\ q.token = None
    OBVIOUS
  <2>2. call' = [call EXCEPT ![c] = q]
    BY <1>6 DEF End
  <2> HIDE DEF q
  <2>3. q.kind = "loginMe" /\ (call[c].kind = "loginMe" => Achieved(call[c], tab[x]))
          => Achieved(q, tab'[x])
    BY <1>6, <2>1 DEF Achieved
  <2>4. /\ q.pc # "idle" /\ q.pc # "answered"
        /\ q.kind = "logout" => q.stage = "first" /\ q.answer # "401" /\ q.token = None
    BY <1>6, <2>1
  <2>5. \A y \in Tab : y # x => tab'[y] = tab[y]
    BY <1>6
  <2>6. tab'[x].start = tab[x].start
    BY <1>6
  <2> QED BY <1>2, <2>1, <2>2, <2>3, <2>4, <2>5, <2>6, StepKeepsScripts
<1>7. ASSUME NEW q, call' = [call EXCEPT ![c] = q],
             q.tab = x /\ q.kind = call[c].kind /\ q.stage = call[c].stage,
             q.pc \in {"network", "answered", "failing"},
             q.pc = "answered" => q.answer = "error",
             q.answer \in {call[c].answer, "error"}, q.token \in {call[c].token, None},
             \A y \in Tab : y # x => tab'[y] = tab[y], tab'[x].start = tab[x].start,
             q.pc = "failing" \/ (UNCHANGED tab /\ call[c].pc \in {"script", "answered"})
      PROVE  Scripts'
  <2>1. q.pc = "answered" /\ SetsCookies(q) /\ q.kind # "logout" => q.token # None
    BY <1>7 DEF SetsCookies
  <2>2. q.kind = "logout" => q.stage = "first" /\ q.answer # "401" /\ q.token = None
    BY <1>1, <1>7 DEF AnswersFit
  <2>3. q.kind = "loginMe" /\ (call[c].kind = "loginMe" => Achieved(call[c], tab[x]))
          => Achieved(q, tab'[x])
    BY <1>7 DEF Achieved
  <2>4. /\ call' = [call EXCEPT ![c] = q] /\ q.tab = x /\ q.pc # "idle"
        /\ q.kind = call[c].kind \/ (call[c].kind = "login" /\ q.kind = "loginMe")
    BY <1>7
  <2>5. \A y \in Tab : y # x => tab'[y] = tab[y]
    BY <1>7
  <2>6. tab'[x].start = tab[x].start
    BY <1>7
  <2> QED BY <1>2, <2>1, <2>2, <2>3, <2>4, <2>5, <2>6, StepKeepsScripts, ZenonT(30)
<1>8. CASE Attach(c)
  <2> DEFINE q == [call[c] EXCEPT !.pc = "network", !.cookie = jar]
  <2>1. /\ q.tab = x /\ q.kind = call[c].kind /\ q.stage = call[c].stage
        /\ q.pc = "network" /\ q.answer = call[c].answer /\ q.token = call[c].token
    BY <1>1 DEF CallState
  <2>2. call' = [call EXCEPT ![c] = q] /\ UNCHANGED tab /\ call[c].pc = "script"
    BY <1>8 DEF Attach
  <2> HIDE DEF q
  <2> QED BY <1>7, <2>1, <2>2
<1>9. CASE Lose(c)
  <2> DEFINE q == [call[c] EXCEPT !.answer = "error", !.token = None]
  <2>1. /\ q.tab = x /\ q.kind = call[c].kind /\ q.stage = call[c].stage
        /\ q.pc = call[c].pc /\ q.answer = "error" /\ q.token = None
    BY <1>1 DEF CallState
  <2>2. call' = [call EXCEPT ![c] = q] /\ UNCHANGED tab /\ call[c].pc = "answered"
    BY <1>9 DEF Lose
  <2> HIDE DEF q
  <2> QED BY <1>7, <2>1, <2>2
<1>15. CASE LoseBody(c)
  <2> DEFINE q == [call[c] EXCEPT !.answer = "error", !.token = None, !.cookie = None]
  <2>1. /\ q.tab = x /\ q.kind = call[c].kind /\ q.stage = call[c].stage
        /\ q.pc = call[c].pc /\ q.answer = "error" /\ q.token = None
    BY <1>1 DEF CallState
  <2>2. call' = [call EXCEPT ![c] = q] /\ UNCHANGED tab /\ call[c].pc = "answered"
    BY <1>15 DEF LoseBody
  <2> HIDE DEF q
  <2> QED BY <1>7, <2>1, <2>2
<1>10. CASE Unauthorized(c)
  <2>1. /\ call' = [call EXCEPT ![c] = Fetch(call[c].kind, x, "refresh", None, jar)]
        /\ UNCHANGED tab /\ call[c].pc = "answered" /\ call[c].answer = "401"
    BY <1>10 DEF Unauthorized, Arrives
  <2>2. call[c].kind # "logout"
    BY <1>1, <2>1 DEF AnswersFit
  <2> QED BY <1>5, <2>1, <2>2
<1>11. CASE Refreshed(c)
  <2> DEFINE s == call[c].token
  <2>1. /\ call' = [call EXCEPT ![c] = Fetch(call[c].kind, x, "again", s, s)]
        /\ tab' = [tab EXCEPT ![x].access = s]
        /\ call[c].pc = "answered" /\ call[c].answer = "ok" /\ call[c].stage = "refresh"
    BY <1>11 DEF Refreshed, Arrives
  <2>2. call[c].kind # "logout" /\ s # None
    BY <1>1, <2>1 DEF AnswersFit, SetsCookies
  <2>3. /\ \A y \in Tab : y # x => tab'[y] = tab[y]
        /\ tab'[x].start = tab[x].start /\ tab'[x].access = s
    BY <1>1, <1>3, <2>1 DEF TabState
  <2> QED BY <1>5, <2>1, <2>2, <2>3
<1>12. CASE RefreshFailed(c)
  <2> DEFINE q == [call[c] EXCEPT !.pc = "failing"]
  <2>1. /\ q.tab = x /\ q.kind = call[c].kind /\ q.stage = call[c].stage
        /\ q.pc = "failing" /\ q.answer = call[c].answer /\ q.token = call[c].token
    BY <1>1 DEF CallState
  <2>2. call' = [call EXCEPT ![c] = q] /\ tab' = LoggedOut(x)
    BY <1>12 DEF RefreshFailed
  <2> HIDE DEF q
  <2> QED BY <1>3, <1>4, <1>7, <2>1, <2>2
<1>13. CASE Succeed(c)
  <2>0. call[c].pc = "answered" /\ call[c].answer = "ok"
    BY <1>13 DEF Succeed, Arrives
  <2>1. CASE call[c].kind \in {"start", "loginMe"}
    <3>1. End(c, "done") /\ tab' = [tab EXCEPT ![x].me = TRUE, ![x].loading = FALSE]
      BY <1>13, <2>1 DEF Succeed
    <3>2. /\ \A y \in Tab : y # x => tab'[y] = tab[y]
          /\ tab'[x].start = tab[x].start /\ tab'[x].access = tab[x].access
          /\ tab'[x].me
      BY <1>1, <1>3, <3>1 DEF TabState
    <3>3. call[c].kind = "loginMe" /\ Achieved(call[c], tab[x]) => tab[x].access # None
      BY <2>0 DEF Achieved
    <3> QED BY <1>6, <2>1, <3>1, <3>2, <3>3
  <2>2. CASE call[c].kind = "login"
    <3> DEFINE s == call[c].token
    <3>1. /\ call' = [call EXCEPT ![c] = Fetch("loginMe", x, "first", s, s)]
          /\ tab' = [tab EXCEPT ![x].access = s]
      BY <1>13, <2>2 DEF Succeed
    <3>2. s # None
      BY <1>1, <2>0, <2>2 DEF AnswersFit, SetsCookies
    <3>3. /\ \A y \in Tab : y # x => tab'[y] = tab[y]
          /\ tab'[x].start = tab[x].start /\ tab'[x].access = s
      BY <1>1, <1>3, <3>1 DEF TabState
    <3> QED BY <1>5, <2>0, <2>2, <3>1, <3>2, <3>3
  <2>3. CASE call[c].kind = "page"
    <3>1. End(c, "done") /\ UNCHANGED tab
      BY <1>13, <2>3 DEF Succeed
    <3> QED BY <1>6, <2>3, <3>1
  <2>4. CASE call[c].kind = "logout"
    <3>1. End(c, "done") /\ tab' = LoggedOut(x)
      BY <1>13, <2>4 DEF Succeed
    <3> QED BY <1>3, <1>4, <1>6, <2>0, <2>4, <3>1
  <2> QED BY <1>13, <2>1, <2>2, <2>3, <2>4 DEF Succeed
<1>14. CASE Fail(c)
  <2>1. End(c, "failed")
    BY <1>14 DEF Fail
  <2>2. \/ tab' = tab \/ tab' = LoggedOut(x)
        \/ tab' = [tab EXCEPT ![x].me = FALSE, ![x].loading = FALSE]
    BY <1>14 DEF Fail
  <2>3. /\ \A y \in Tab : y # x => tab'[y] = tab[y]
        /\ tab'[x].start = tab[x].start
    BY <1>1, <1>3, <1>4, <2>2 DEF TabState
  <2> QED BY <1>1, <1>6, <2>1, <2>3 DEF AnswersFit
<1> QED BY <1>8, <1>9, <1>10, <1>11, <1>12, <1>13, <1>14, <1>15

-----------------------------------------------------------------------------
(***************************************************************************)
(* One call at a time.                                                     *)
(***************************************************************************)

\* The calls that are not under way demand nothing: it is enough to look at
\* the one that moves.
LEMMA StepKeepsOrder ==
  ASSUME IInv, NEW c \in Call, Running(c), NEW q, call' = [call EXCEPT ![c] = q],
         UNCHANGED overlapped,
         ~overlapped /\ q.kind = "logout" =>
           /\ q.pc \in {"network", "answered"} => q.cookie = jar'
           /\ q.pc = "answered" /\ q.answer = "ok" /\ ~lost' /\ jar' # None =>
                head'[family'[jar']] = {}
  PROVE  OneAtATime'
<1>1. OneAtATime /\ call \in [Call -> CallState]
  BY DEF IInv, TypeOK
<1>2. call'[c] = q /\ \A d \in Call : d # c => call'[d] = call[d]
  BY <1>1
<1> SUFFICES ASSUME ~overlapped
             PROVE  /\ \A d, e \in Call : Running(d)' /\ Running(e)' => d = e
                    /\ \A d \in Call : call'[d].kind = "logout" =>
                         /\ call'[d].pc \in {"network", "answered"} => call'[d].cookie = jar'
                         /\ call'[d].pc = "answered" /\ call'[d].answer = "ok"
                              /\ ~lost' /\ jar' # None => head'[family'[jar']] = {}
  BY DEF OneAtATime, Running
<1>3. \A d \in Call : Running(d)' => d = c
  BY <1>1, <1>2 DEF OneAtATime, Running
<1>4. ASSUME NEW d \in Call, call'[d].kind = "logout", call'[d].pc \in {"network", "answered"}
      PROVE  d = c
  BY <1>3, <1>4 DEF Running
<1> QED BY <1>2, <1>3, <1>4

LEMMA BeginKeepsOrder ==
  ASSUME IInv, NEW c \in Call, NEW kind, NEW x, NEW access, Begin(c, kind, x, access)
  PROVE  OneAtATime'
<1>1. call \in [Call -> CallState]
  BY DEF IInv, TypeOK
<1> DEFINE q == Fetch(kind, x, "first", access, jar)
<1>2. kind = "logout" => q.pc = "script"
  BY DEF Fetch, Guarded
<1>3. q.kind = kind
  BY DEF Fetch
<1>4. /\ call[c].pc = "idle" /\ call'[c] = q
      /\ \A d \in Call : d # c => call'[d] = call[d]
      /\ overlapped' = (overlapped \/ \E d \in Call : Running(d))
  BY <1>1 DEF Begin
<1> HIDE DEF q
<1> SUFFICES ASSUME ~overlapped, \A d \in Call : ~Running(d)
             PROVE  /\ \A d, e \in Call : Running(d)' /\ Running(e)' => d = e
                    /\ \A d \in Call : call'[d].kind = "logout" =>
                         call'[d].pc \notin {"network", "answered"}
  BY <1>4 DEF OneAtATime, Running
<1> QED BY <1>2, <1>3, <1>4 DEF Running

\* The cookies a logout presents: when no call but this is under way, nothing
\* that replaces them is on its way.
LEMMA LogoutCloses ==
  ASSUME IInv, NEW c \in Call, ServeLogout(c), call'[c].answer = "ok",
         ~overlapped, ~lost, jar # None
  PROVE  head'[family[jar]] = {}
<1>1. /\ TypeOK /\ TokensKnown /\ Undelivered /\ CookieIsCurrent /\ OneAtATime
      /\ call \in [Call -> CallState]
  BY DEF IInv, TypeOK
<1>2. call[c].pc = "network" /\ call[c].kind = "logout" /\ Running(c)
  BY DEF ServeLogout, Answer, Reply, Running
<1>3. call[c].cookie = jar
  BY <1>1, <1>2 DEF OneAtATime
<1>4. jar \in used /\ jar \in Session /\ family[jar] \in Session
  BY <1>1, NoneUnused DEF TokensKnown, TypeOK, SessionOrNone
<1>5. ~Superseded(jar)
  <2>1. SUFFICES ASSUME NEW d \in Call, Live(call[d].token) PROVE FALSE
    BY <1>1 DEF CookieIsCurrent
  <2>2. call[d].token # None /\ call[d].pc = "answered"
    BY <1>1, <2>1, NoneUnused DEF Undelivered
  <2>3. Running(d)
    BY <2>2 DEF Running
  <2> QED BY <1>1, <1>2, <2>2, <2>3 DEF OneAtATime
<1>6. ~Reply(c, "error")
  <2>1. SUFFICES ASSUME Answer(c, "error", None) PROVE FALSE
    BY DEF Reply
  <2>2. call[c] \in CallState
    BY <1>1
  <2>3. call'[c] = [call[c] EXCEPT !.pc = "answered", !.answer = "error",
                                  !.token = None, !.access = None, !.header = None]
    BY <1>1, <2>1 DEF Answer
  <2>4. call'[c].answer = "error"
    BY <2>2, <2>3 DEF CallState
  <2> QED BY <2>4
<1>7. Families!Close({f \in Session : jar \in head[f]})
  BY <1>2, <1>3, <1>6 DEF ServeLogout
<1>8. head[family[jar]] = {} \/ jar \in head[family[jar]]
  <2>1. CASE Live(jar)
    BY <1>1, <2>1 DEF Live, TokensKnown
  <2>2. CASE ~Live(jar)
    BY <1>4, <1>5, <2>2 DEF Superseded
  <2> QED BY <2>1, <2>2
<1> QED BY <1>4, <1>7, <1>8 DEF Families!Close

LEMMA ServeKeepsOrder ==
  ASSUME IInv, NEW c \in Call, Serve(c)
  PROVE  OneAtATime'
<1>1. call[c] \in CallState /\ AnswersFit /\ OneAtATime /\ TokensKnown
  BY DEF IInv, TypeOK
<1>2. PICK answer, token : Answer(c, answer, token)
  BY DEF Serve, ServeRefresh, ServeLogin, ServeLogout, ServeRest, Reply, Rotate, Issue
<1> DEFINE q == [call[c] EXCEPT !.pc = "answered", !.answer = answer, !.token = token,
                                !.access = None, !.header = None]
<1>3. /\ call' = [call EXCEPT ![c] = q] /\ call[c].pc = "network"
      /\ UNCHANGED <<jar, lost, overlapped>>
  BY <1>2 DEF Answer, history
<1>4. /\ q.kind = call[c].kind /\ q.cookie = call[c].cookie /\ q.answer = answer
  BY <1>1 DEF CallState
<1> HIDE DEF q
<1>5. Running(c)
  BY <1>3 DEF Running
<1>6. call'[c].answer = answer
  BY <1>3, <1>4 DEF IInv, TypeOK
<1>7. ASSUME ~overlapped, q.kind = "logout"
      PROVE  /\ q.cookie = jar'
             /\ q.answer = "ok" /\ ~lost' /\ jar' # None => head'[family'[jar']] = {}
  <2>1. q.cookie = jar'
    BY <1>1, <1>3, <1>4, <1>7 DEF OneAtATime
  <2>2. call[c].kind = "logout" /\ call[c].stage # "refresh"
    BY <1>1, <1>4, <1>7 DEF AnswersFit
  <2>3. ServeLogout(c) \/ Reply(c, "error")
    BY <2>2 DEF Serve, ServeRefresh, ServeLogin, ServeRest
  <2>4. CASE ServeLogout(c)
    <3>1. UNCHANGED family
      BY <2>4 DEF ServeLogout, Reply, server
    <3> QED BY <1>3, <1>4, <1>6, <1>7, <2>1, <2>4, <3>1, LogoutCloses
  <2>5. CASE Reply(c, "error")
    <3>1. call'[c].answer = "error"
      BY <1>1, <2>5 DEF Reply, Answer, IInv, TypeOK
    <3> QED BY <1>4, <1>6, <2>1, <3>1
  <2> QED BY <2>3, <2>4, <2>5
<1> QED BY <1>3, <1>5, <1>7, StepKeepsOrder

LEMMA ScriptKeepsOrder ==
  ASSUME IInv, NEW c \in Call,
         \/ Attach(c) \/ Lose(c) \/ LoseBody(c) \/ Unauthorized(c) \/ Refreshed(c)
         \/ RefreshFailed(c) \/ Succeed(c) \/ Fail(c)
  PROVE  OneAtATime'
<1>1. call[c] \in CallState /\ AnswersFit /\ OneAtATime
  BY DEF IInv, TypeOK
<1>2. Running(c) /\ UNCHANGED overlapped
  BY DEF Attach, Lose, LoseBody, Unauthorized, Refreshed, RefreshFailed, Succeed, Fail, Arrives,
         Running, history
<1>3. ASSUME NEW q, call' = [call EXCEPT ![c] = q],
             q.kind # "logout" \/ q.pc \notin {"network", "answered"}
      PROVE  OneAtATime'
  BY <1>2, <1>3, StepKeepsOrder
<1>4. CASE Attach(c)
  <2> DEFINE q == [call[c] EXCEPT !.pc = "network", !.cookie = jar]
  <2>1. q.pc = "network" /\ q.cookie = jar
    BY <1>1 DEF CallState
  <2>2. call' = [call EXCEPT ![c] = q] /\ UNCHANGED jar
    BY <1>4 DEF Attach
  <2> HIDE DEF q
  <2> QED BY <1>2, <2>1, <2>2, StepKeepsOrder
<1>5. CASE Lose(c)
  <2> DEFINE q == [call[c] EXCEPT !.answer = "error", !.token = None]
  <2>1. q.pc = "answered" /\ q.cookie = call[c].cookie /\ q.answer = "error"
        /\ q.kind = call[c].kind /\ call[c].pc = "answered"
    BY <1>1, <1>5 DEF CallState, Lose
  <2>2. call' = [call EXCEPT ![c] = q] /\ UNCHANGED jar
    BY <1>5 DEF Lose
  <2> HIDE DEF q
  <2>3. ~overlapped /\ q.kind = "logout" => q.cookie = jar'
    BY <1>1, <2>1, <2>2 DEF OneAtATime
  <2> QED BY <1>2, <2>1, <2>2, <2>3, StepKeepsOrder
<1>13. CASE LoseBody(c)
  <2> DEFINE q == [call[c] EXCEPT !.answer = "error", !.token = None, !.cookie = None]
  <2>1. q.kind = call[c].kind /\ q.answer = "error" /\ q.cookie = None
    BY <1>1 DEF CallState
  <2>2. call' = [call EXCEPT ![c] = q] /\ jar' = call[c].token
    BY <1>13 DEF LoseBody
  <2> HIDE DEF q
  <2>3. q.kind = "logout" => q.cookie = jar'
    BY <1>1, <2>1, <2>2 DEF AnswersFit
  <2> QED BY <1>2, <2>1, <2>2, <2>3, StepKeepsOrder
<1>6. ASSUME NEW kind, NEW x, NEW stage, NEW access, NEW cookies,
             call' = [call EXCEPT ![c] = Fetch(kind, x, stage, access, cookies)],
             kind # "logout"
      PROVE  OneAtATime'
  <2> DEFINE q == Fetch(kind, x, stage, access, cookies)
  <2>1. q.kind = kind
    BY DEF Fetch
  <2>2. call' = [call EXCEPT ![c] = q]
    BY <1>6
  <2> HIDE DEF q
  <2> QED BY <1>3, <1>6, <2>1, <2>2
<1>7. ASSUME NEW pc \in {"done", "failed"}, End(c, pc) PROVE OneAtATime'
  <2> DEFINE q == [kind |-> call[c].kind, tab |-> call[c].tab, stage |-> "first", pc |-> pc,
                   access |-> None, header |-> None, cookie |-> None,
                   answer |-> IF call[c].answer = "race" THEN "race" ELSE "none",
                   token |-> None]
  <2>1. q.pc = pc /\ call' = [call EXCEPT ![c] = q]
    BY <1>7 DEF End
  <2> HIDE DEF q
  <2> QED BY <1>3, <2>1
<1>8. CASE Unauthorized(c)
  <2>1. call[c].kind # "logout"
    BY <1>1, <1>8 DEF AnswersFit, Unauthorized, Arrives
  <2> QED BY <1>6, <1>8, <2>1 DEF Unauthorized
<1>9. CASE Refreshed(c)
  <2>1. call[c].kind # "logout"
    BY <1>1, <1>9 DEF AnswersFit, Refreshed, Arrives
  <2> QED BY <1>6, <1>9, <2>1 DEF Refreshed
<1>10. CASE RefreshFailed(c)
  <2> DEFINE q == [call[c] EXCEPT !.pc = "failing"]
  <2>1. q.pc = "failing"
    BY <1>1 DEF CallState
  <2>2. call' = [call EXCEPT ![c] = q]
    BY <1>10 DEF RefreshFailed
  <2> HIDE DEF q
  <2> QED BY <1>3, <2>1, <2>2
<1>11. CASE Succeed(c)
  BY <1>6, <1>7, <1>11 DEF Succeed
<1>12. CASE Fail(c)
  BY <1>7, <1>12 DEF Fail
<1> QED BY <1>4, <1>5, <1>8, <1>9, <1>10, <1>11, <1>12, <1>13

\* The server closes families, or a grace ends, while the calls stay where
\* they are.
LEMMA ElsewhereKeepsCalls ==
  ASSUME IInv, NEW s \in Session, GraceEnds(s) \/ EndElsewhere(s)
  PROVE  Scripts' /\ OneAtATime'
<1>1. /\ CallsOfTabs /\ AnswersFit /\ LoginHolds /\ OneAtATime /\ TokensKnown /\ TypeOK
      /\ UNCHANGED <<family, jar, tab, call, lost, overlapped>>
  BY DEF IInv, GraceEnds, EndElsewhere, history
<1>2. Scripts'
  BY <1>1 DEF Scripts, CallsOfTabs, AnswersFit, LoginHolds, Over, SetsCookies, Alone, Achieved
<1>3. \A f \in Session : head[f] = {} => head'[f] = {}
  BY DEF GraceEnds, EndElsewhere, Families!Close
<1>4. jar # None => family[jar] \in Session
  BY <1>1, NoneUnused DEF TokensKnown, TypeOK, SessionOrNone
<1>5. OneAtATime'
  BY <1>1, <1>3, <1>4 DEF OneAtATime, Running
<1> QED BY <1>2, <1>5

LEMMA Preservation ==
  ASSUME IInv, [Next]_vars
  PROVE  IInv'
<1>1. TypeOK'
  BY Typed DEF IInv
<1>2. CASE UNCHANGED vars
  <2>1. UNCHANGED <<head, used, family, recent, jar, tab, call, lost, overlapped>>
    BY <1>2 DEF vars, server, history
  <2>2. Tokens'
    BY <2>1 DEF IInv, TypeOK, Families!TypeOK, TokensKnown, Guarded, Tokens, Undelivered,
                SetsCookies, CookieIsCurrent, RotatedLately, Superseded, Live
  <2>3. Scripts' /\ OneAtATime'
    BY <2>1 DEF IInv, Scripts, CallsOfTabs, AnswersFit, LoginHolds, Over, SetsCookies, Alone,
                Achieved, OneAtATime, Running
  <2> QED BY <1>1, <2>2, <2>3 DEF IInv, Tokens, Scripts
<1>3. ASSUME NEW x \in Tab, NEW c \in Call,
             OpenTab(x, c) \/ Page(x, c) \/ Login(x, c) \/ Logout(x, c)
      PROVE  Tokens' /\ Scripts' /\ OneAtATime'
  <2>1. Tokens' /\ OneAtATime'
    BY <1>1, <1>3, BeginKeepsTokens, BeginKeepsOrder DEF OpenTab, Page, Login, Logout, Waiting
  <2>2. Scripts'
    BY <1>3, OpeningKeepsScripts
  <2> QED BY <2>1, <2>2
<1>4. ASSUME NEW c \in Call, Step(c) PROVE Tokens' /\ Scripts' /\ OneAtATime'
  <2>1. Tokens'
    BY <1>1, <1>4, ServeKeepsTokens, ScriptKeepsTokens DEF Step
  <2>2. Scripts'
    BY <1>1, <1>4, ServeKeepsScripts, ScriptKeepsScripts DEF Step
  <2>3. OneAtATime'
    BY <1>4, ServeKeepsOrder, ScriptKeepsOrder DEF Step
  <2> QED BY <2>1, <2>2, <2>3
<1>5. ASSUME NEW s \in Session, GraceEnds(s) \/ EndElsewhere(s)
      PROVE  Tokens' /\ Scripts' /\ OneAtATime'
  <2>1. ASSUME EndElsewhere(s) PROVE Tokens'
    <3>1. Moves
      BY <2>1 DEF EndElsewhere, history, Moves
    <3> QED BY <1>1, <2>1, <3>1, MovesKeepTokens DEF EndElsewhere
  <2> QED BY <1>5, <2>1, GraceKeepsTokens, ElsewhereKeepsCalls
<1> QED BY <1>1, <1>2, <1>3, <1>4, <1>5 DEF Next, Tokens, Scripts, IInv

LEMMA Initially ==
  ASSUME Init
  PROVE  IInv
<1>1. PICK j : j = CHOOSE s \in Session : TRUE
  OBVIOUS
<1>2. j \in Session
  BY <1>1, NoneIsNone
<1>3. jar \in {None, j} /\ used = {jar} \ {None} /\ recent = {}
  BY <1>1 DEF Init
<1>4. /\ head = [s \in Session |-> {s} \cap used]
      /\ family = [s \in Session |-> IF s = jar THEN s ELSE None]
      /\ tab = [x \in Tab |-> Closed] /\ call = [c \in Call |-> NoCall]
      /\ lost = FALSE /\ overlapped = FALSE
  BY DEF Init
<1>5. TypeOK
  <2>1. Families!TypeOK
    BY <1>2, <1>3, <1>4 DEF Families!TypeOK
  <2>2. Closed \in TabState /\ NoCall \in CallState
    BY DEF Closed, TabState, NoCall, CallState, SessionOrNone
  <2> QED BY <1>2, <1>3, <1>4, <2>1, <2>2 DEF TypeOK, SessionOrNone
<1>6. \A c \in Call : call[c].token = None /\ call[c].cookie = None /\ call[c].pc = "idle"
  BY <1>4 DEF NoCall
<1>7. \A s \in used : Live(s)
  BY <1>2, <1>3, <1>4 DEF Live
<1>8. TokensKnown
  BY <1>2, <1>3, <1>4, <1>6, NoneIsNone DEF TokensKnown
<1>9. Undelivered /\ CookieIsCurrent /\ RotatedLately
  BY <1>6, <1>7 DEF Undelivered, CookieIsCurrent, RotatedLately, Superseded
<1>10. CallsOfTabs /\ AnswersFit /\ LoginHolds /\ OneAtATime
  BY <1>4 DEF CallsOfTabs, AnswersFit, LoginHolds, OneAtATime, NoCall, Closed, Running
<1> QED BY <1>5, <1>8, <1>9, <1>10 DEF IInv

-----------------------------------------------------------------------------
(***************************************************************************)
(* Results.                                                                *)
(***************************************************************************)

\* The inductive invariant of the browser: what is issued, on its way, held and
\* rotated fits together, whatever calls refresh at one time.
THEOREM Invariance == Spec => []IInv
<1>1. Init => IInv
  BY Initially
<1>2. IInv /\ [Next]_vars => IInv'
  BY Preservation
<1> QED BY <1>1, <1>2, PTL DEF Spec

\* Parallel refreshes and their answers (client.ts, tryRefresh) leave the
\* browser with the usable token of its family, unless an answer is lost.
THEOREM CookieStaysCurrent == Spec => []CookieIsCurrent
<1>1. IInv => CookieIsCurrent
  BY DEF IInv
<1> QED BY <1>1, Invariance, PTL

\* The reuse verdict of auth_service.refresh never falls on a browser that has
\* received all its answers, because the grace outlasts the network.
THEOREM NeverAThief == Spec => []NeverTakenForThief
<1>1. ASSUME IInv PROVE NeverTakenForThief
  <2> SUFFICES ASSUME NEW c \in Call, ~lost, call[c].pc = "network", Reused(c),
                      Superseded(call[c].cookie)
               PROVE  FALSE
    BY DEF NeverTakenForThief
  <2>1. call[c].cookie \in Session
    BY <1>1, NoneUnused DEF IInv, Superseded
  <2> QED BY <1>1, <2>1 DEF IInv, RotatedLately, Reused
<1> QED BY <1>1, Invariance, PTL

\* A login that has succeeded leaves its tab logged in (AuthProvider): what was
\* left of the start of the tab cannot undo it, because login awaits it.
THEOREM LoginsStick == Spec => []LoginSticks
<1>1. IInv => LoginSticks
  BY DEF IInv, LoginHolds, Achieved, LoginSticks
<1> QED BY <1>1, Invariance, PTL

\* While calls do not overlap, a logout that is confirmed (POST /auth/logout)
\* leaves neither cookies nor access token, and closes the family of the cookies.
THEOREM LogoutsEnd == Spec => LogoutEnds
<1> DEFINE A(c) == call[c].kind = "logout" /\ call[c].pc # "done" /\ call'[c].pc = "done"
                     /\ ~lost /\ ~overlapped
                   => /\ jar' = None /\ tab'[call[c].tab].access = None
                      /\ jar # None => head[family[jar]] = {}
<1>1. IInv /\ [Next]_vars => [\A c \in Call : A(c)]_vars
  <2> SUFFICES ASSUME IInv, Next, NEW c \in Call, call[c].kind = "logout",
                      call[c].pc # "done", call'[c].pc = "done", ~lost, ~overlapped
               PROVE  /\ jar' = None /\ tab'[call[c].tab].access = None
                      /\ jar # None => head[family[jar]] = {}
    OBVIOUS
  <2>1. /\ CallsOfTabs /\ OneAtATime
        /\ call \in [Call -> CallState] /\ tab \in [Tab -> TabState]
    BY DEF IInv, TypeOK
  <2>2. Succeed(c)
    <3>1. ASSUME NEW d \in Call, NEW q, call' = [call EXCEPT ![d] = q], q.pc # "done"
          PROVE  FALSE
      BY <2>1, <3>1
    <3>2. \A kind, x, stage, access, cookies :
            Fetch(kind, x, stage, access, cookies).pc # "done"
      BY DEF Fetch
    <3>3. ASSUME NEW x \in Tab, NEW d \in Call,
                 OpenTab(x, d) \/ Page(x, d) \/ Login(x, d) \/ Logout(x, d)
          PROVE  FALSE
      BY <3>1, <3>2, <3>3 DEF OpenTab, Page, Login, Logout, Waiting, Begin
    <3>4. ASSUME NEW d \in Call, NEW answer, NEW token, Answer(d, answer, token) PROVE FALSE
      BY <2>1, <3>4 DEF Answer, CallState
    <3>5. ASSUME NEW d \in Call, Serve(d) PROVE FALSE
      BY <3>4, <3>5 DEF Serve, ServeRefresh, ServeLogin, ServeLogout, ServeRest, Reply, Rotate,
                        Issue
    <3>6. ASSUME NEW d \in Call,
                 Attach(d) \/ Lose(d) \/ LoseBody(d) \/ RefreshFailed(d)
          PROVE  FALSE
      BY <2>1, <3>6 DEF Attach, Lose, LoseBody, RefreshFailed, CallState, Arrives
    <3>7. ASSUME NEW d \in Call, Unauthorized(d) \/ Refreshed(d) PROVE FALSE
      BY <3>1, <3>2, <3>7 DEF Unauthorized, Refreshed
    <3>8. ASSUME NEW d \in Call, Fail(d) PROVE FALSE
      BY <2>1, <3>8 DEF Fail, End
    <3>9. ASSUME NEW d \in Call, Succeed(d) PROVE d = c
      BY <2>1, <3>2, <3>9 DEF Succeed, End
    <3> QED BY <3>3, <3>5, <3>6, <3>7, <3>8, <3>9 DEF Next, Step, GraceEnds, EndElsewhere
  <2>3. /\ jar' = None /\ tab' = LoggedOut(call[c].tab)
        /\ call[c].pc = "answered" /\ call[c].answer = "ok"
    BY <2>2 DEF Succeed, Arrives
  <2>4. call[c].tab \in Tab
    BY <2>1, <2>3 DEF CallsOfTabs
  <2>5. tab'[call[c].tab].access = None
    BY <2>1, <2>3, <2>4 DEF LoggedOut, TabState
  <2> QED BY <2>1, <2>3, <2>5 DEF OneAtATime
<1> QED BY <1>1, Invariance, PTL DEF Spec, LogoutEnds

-----------------------------------------------------------------------------
(***************************************************************************)
(* The spinner.  A step that turns it on begins a call that is not a       *)
(* page's, and the step that ends such a call turns it off.                *)
(***************************************************************************)
Causes(q, x) ==
  /\ q.tab = x /\ q.kind # "page"
  /\ q.pc \in {"script", "network", "answered", "failing"}

LEMMA OneStepOfACall ==
  ASSUME TypeOK, SpinnerHasCause, NEW c \in Call, NEW q, call' = [call EXCEPT ![c] = q],
         \A x \in Tab : tab'[x].loading =>
           Causes(q, x) \/ (tab[x].loading /\ ~Causes(call[c], x))
  PROVE  SpinnerHasCause'
<1>1. call'[c] = q /\ \A d \in Call : d # c => call'[d] = call[d]
  BY DEF TypeOK
<1> SUFFICES ASSUME NEW x \in Tab, tab'[x].loading
             PROVE  \E d \in Call : call'[d].tab = x /\ Running(d)' /\ call'[d].kind # "page"
  BY DEF SpinnerHasCause
<1>2. CASE Causes(q, x)
  BY <1>1, <1>2 DEF Causes, Running
<1>3. CASE tab[x].loading /\ ~Causes(call[c], x)
  <2>1. PICK d \in Call : call[d].tab = x /\ Running(d) /\ call[d].kind # "page"
    BY <1>3 DEF SpinnerHasCause
  <2>2. d # c
    BY <1>3, <2>1 DEF Causes, Running
  <2>3. call'[d].tab = x /\ Running(d)' /\ call'[d].kind # "page"
    BY <1>1, <2>1, <2>2 DEF Running
  <2> QED BY <2>3
<1> QED BY <1>2, <1>3

\* A call that goes on in a tab whose spinner is not turned on.
LEMMA GoingOn ==
  ASSUME TypeOK, SpinnerHasCause, NEW c \in Call, NEW q, call' = [call EXCEPT ![c] = q],
         q.tab = call[c].tab, q.kind = "page" => call[c].kind = "page",
         q.pc \in {"script", "network", "answered", "failing"},
         \A x \in Tab : tab'[x].loading => tab[x].loading
  PROVE  SpinnerHasCause'
<1>1. \A x \in Tab : tab'[x].loading => Causes(q, x) \/ (tab[x].loading /\ ~Causes(call[c], x))
  BY DEF Causes
<1> QED BY <1>1, OneStepOfACall

\* A call that is over: the spinner of its tab was not its own, or is off.
LEMMA GoingOff ==
  ASSUME TypeOK, SpinnerHasCause, NEW c \in Call, NEW q, call' = [call EXCEPT ![c] = q],
         call[c].kind = "page" \/ ~tab'[call[c].tab].loading,
         \A x \in Tab : tab'[x].loading => tab[x].loading
  PROVE  SpinnerHasCause'
<1>1. \A x \in Tab : tab'[x].loading => Causes(q, x) \/ (tab[x].loading /\ ~Causes(call[c], x))
  BY DEF Causes
<1> QED BY <1>1, OneStepOfACall

LEMMA BeginningHasCause ==
  ASSUME TypeOK, SpinnerHasCause, NEW x \in Tab, NEW c \in Call,
         OpenTab(x, c) \/ Page(x, c) \/ Login(x, c) \/ Logout(x, c)
  PROVE  SpinnerHasCause'
<1>1. call \in [Call -> CallState] /\ tab \in [Tab -> TabState]
  BY DEF TypeOK
<1>2. PICK kind, access :
        /\ Begin(c, kind, x, access)
        /\ \A y \in Tab : tab'[y].loading => tab[y].loading \/ (kind # "page" /\ y = x)
  <2>1. CASE OpenTab(x, c)
    BY <1>1, <2>1 DEF OpenTab
  <2>2. CASE Page(x, c)
    BY <2>2 DEF Page
  <2>3. CASE Login(x, c)
    BY <1>1, <2>3 DEF Login, Waiting
  <2>4. CASE Logout(x, c)
    BY <1>1, <2>4 DEF Logout, Waiting
  <2> QED BY <2>1, <2>2, <2>3, <2>4
<1> DEFINE q == Fetch(kind, x, "first", access, jar)
<1>3. q.tab = x /\ q.kind = kind /\ q.pc \in {"script", "network"}
  BY DEF Fetch
<1>4. call' = [call EXCEPT ![c] = q] /\ call[c].pc = "idle"
  BY <1>2 DEF Begin
<1> HIDE DEF q
<1>5. \A y \in Tab : tab'[y].loading => Causes(q, y) \/ (tab[y].loading /\ ~Causes(call[c], y))
  BY <1>2, <1>3, <1>4 DEF Causes
<1> QED BY <1>4, <1>5, OneStepOfACall

LEMMA AnswersHaveCause ==
  ASSUME TypeOK, SpinnerHasCause, NEW c \in Call,
         Serve(c) \/ Attach(c) \/ Lose(c) \/ LoseBody(c)
  PROVE  SpinnerHasCause'
<1>1. call[c] \in CallState
  BY DEF TypeOK
<1>2. CASE Serve(c)
  <2>1. PICK answer, token : Answer(c, answer, token)
    BY <1>2 DEF Serve, ServeRefresh, ServeLogin, ServeLogout, ServeRest, Reply, Rotate, Issue
  <2> DEFINE q == [call[c] EXCEPT !.pc = "answered", !.answer = answer, !.token = token,
                                  !.access = None, !.header = None]
  <2>2. q.tab = call[c].tab /\ q.kind = call[c].kind /\ q.pc = "answered"
    BY <1>1 DEF CallState
  <2>3. call' = [call EXCEPT ![c] = q] /\ UNCHANGED tab
    BY <2>1 DEF Answer
  <2> HIDE DEF q
  <2> QED BY <2>2, <2>3, GoingOn
<1>3. CASE Attach(c)
  <2> DEFINE q == [call[c] EXCEPT !.pc = "network", !.cookie = jar]
  <2>1. q.tab = call[c].tab /\ q.kind = call[c].kind /\ q.pc = "network"
    BY <1>1 DEF CallState
  <2>2. call' = [call EXCEPT ![c] = q] /\ UNCHANGED tab
    BY <1>3 DEF Attach
  <2> HIDE DEF q
  <2> QED BY <2>1, <2>2, GoingOn
<1>4. CASE Lose(c)
  <2> DEFINE q == [call[c] EXCEPT !.answer = "error", !.token = None]
  <2>1. q.tab = call[c].tab /\ q.kind = call[c].kind /\ q.pc = "answered"
    BY <1>1, <1>4 DEF CallState, Lose
  <2>2. call' = [call EXCEPT ![c] = q] /\ UNCHANGED tab
    BY <1>4 DEF Lose
  <2> HIDE DEF q
  <2> QED BY <2>1, <2>2, GoingOn
<1>5. CASE LoseBody(c)
  <2> DEFINE q == [call[c] EXCEPT !.answer = "error", !.token = None, !.cookie = None]
  <2>1. q.tab = call[c].tab /\ q.kind = call[c].kind /\ q.pc = "answered"
    BY <1>1, <1>5 DEF CallState, LoseBody
  <2>2. call' = [call EXCEPT ![c] = q] /\ UNCHANGED tab
    BY <1>5 DEF LoseBody
  <2> HIDE DEF q
  <2> QED BY <2>1, <2>2, GoingOn
<1> QED BY <1>2, <1>3, <1>4, <1>5

LEMMA RefreshesHaveCause ==
  ASSUME IInv, SpinnerHasCause, NEW c \in Call,
         Unauthorized(c) \/ Refreshed(c) \/ RefreshFailed(c)
  PROVE  SpinnerHasCause'
<1>1. TypeOK /\ call[c] \in CallState /\ tab \in [Tab -> TabState]
  BY DEF IInv, TypeOK
<1>2. \A stage, access, cookies :
        LET q == Fetch(call[c].kind, call[c].tab, stage, access, cookies) IN
        q.tab = call[c].tab /\ q.kind = call[c].kind /\ q.pc \in {"script", "network"}
  BY DEF Fetch
<1>3. CASE Unauthorized(c)
  <2> DEFINE q == Fetch(call[c].kind, call[c].tab, "refresh", None, jar)
  <2>1. call' = [call EXCEPT ![c] = q] /\ UNCHANGED tab
    BY <1>3 DEF Unauthorized
  <2>2. q.tab = call[c].tab /\ q.kind = call[c].kind /\ q.pc \in {"script", "network"}
    BY <1>2
  <2> HIDE DEF q
  <2> QED BY <1>1, <2>1, <2>2, GoingOn
<1>4. CASE Refreshed(c)
  <2> DEFINE q == Fetch(call[c].kind, call[c].tab, "again", call[c].token, call[c].token)
  <2>1. call' = [call EXCEPT ![c] = q]
    BY <1>4 DEF Refreshed
  <2>2. q.tab = call[c].tab /\ q.kind = call[c].kind /\ q.pc \in {"script", "network"}
    BY <1>2
  <2>3. \A x \in Tab : tab'[x].loading => tab[x].loading
    BY <1>1, <1>4 DEF Refreshed, TabState
  <2> HIDE DEF q
  <2> QED BY <1>1, <2>1, <2>2, <2>3, GoingOn
<1>5. CASE RefreshFailed(c)
  <2> DEFINE q == [call[c] EXCEPT !.pc = "failing"]
  <2>1. q.tab = call[c].tab /\ q.kind = call[c].kind /\ q.pc = "failing"
    BY <1>1 DEF CallState
  <2>2. call' = [call EXCEPT ![c] = q]
    BY <1>5 DEF RefreshFailed
  <2>3. \A x \in Tab : tab'[x].loading => tab[x].loading
    BY <1>1, <1>5 DEF RefreshFailed, LoggedOut, TabState
  <2> HIDE DEF q
  <2> QED BY <1>1, <2>1, <2>2, <2>3, GoingOn
<1> QED BY <1>3, <1>4, <1>5

LEMMA EndsTurnItOff ==
  ASSUME IInv, SpinnerHasCause, NEW c \in Call, Succeed(c) \/ Fail(c)
  PROVE  SpinnerHasCause'
<1>1. TypeOK /\ call[c] \in CallState /\ tab \in [Tab -> TabState]
  BY DEF IInv, TypeOK
<1>2. call[c].pc # "idle" /\ call[c].tab \in Tab
  BY DEF IInv, CallsOfTabs, Succeed, Fail, Arrives
<1>3. \A pc : End(c, pc) => \E q : call' = [call EXCEPT ![c] = q]
  BY DEF End
<1>4. /\ ~LoggedOut(call[c].tab)[call[c].tab].loading
      /\ \A x \in Tab : LoggedOut(call[c].tab)[x].loading => tab[x].loading
  BY <1>1, <1>2 DEF LoggedOut, TabState
<1>5. CASE Succeed(c) /\ call[c].kind = "login"
  <2> DEFINE q == Fetch("loginMe", call[c].tab, "first", call[c].token, call[c].token)
  <2>1. call' = [call EXCEPT ![c] = q]
    BY <1>5 DEF Succeed
  <2>2. q.tab = call[c].tab /\ q.kind = "loginMe" /\ q.pc = "network"
    BY DEF Fetch, Guarded
  <2>3. \A x \in Tab : tab'[x].loading => tab[x].loading
    BY <1>1, <1>5 DEF Succeed, TabState
  <2> HIDE DEF q
  <2> QED BY <1>1, <2>1, <2>2, <2>3, GoingOn
<1>6. CASE Succeed(c) /\ call[c].kind # "login"
  <2>1. PICK q : call' = [call EXCEPT ![c] = q]
    BY <1>3, <1>6 DEF Succeed
  <2>2. call[c].kind = "page" \/ ~tab'[call[c].tab].loading
    BY <1>1, <1>2, <1>4, <1>6 DEF Succeed, TabState
  <2>3. \A x \in Tab : tab'[x].loading => tab[x].loading
    BY <1>1, <1>2, <1>4, <1>6 DEF Succeed, TabState
  <2> QED BY <1>1, <2>1, <2>2, <2>3, GoingOff
<1>7. CASE Fail(c)
  <2>1. PICK q : call' = [call EXCEPT ![c] = q]
    BY <1>3, <1>7 DEF Fail
  <2>2. CASE call[c].kind = "page"
    BY <1>1, <1>7, <2>1, <2>2, GoingOff DEF Fail
  <2>3. CASE call[c].kind # "page"
    <3>1. /\ ~tab'[call[c].tab].loading
          /\ \A x \in Tab : tab'[x].loading => tab[x].loading
      BY <1>1, <1>2, <1>4, <1>7, <2>3 DEF Fail, TabState
    <3> QED BY <1>1, <2>1, <3>1, GoingOff
  <2> QED BY <2>2, <2>3
<1> QED BY <1>5, <1>6, <1>7

\* While AuthProvider of a tab shows its spinner, a call of the tab that is to
\* remove it is under way, whichever other calls of the tab fail meanwhile.
THEOREM SpinnersHaveACause == Spec => []SpinnerHasCause
<1>1. Init => SpinnerHasCause
  BY DEF Init, Closed, SpinnerHasCause
<1>2. IInv /\ SpinnerHasCause /\ [Next]_vars => SpinnerHasCause'
  <2> SUFFICES ASSUME IInv, SpinnerHasCause, [Next]_vars PROVE SpinnerHasCause'
    OBVIOUS
  <2>1. TypeOK
    BY DEF IInv
  <2>2. CASE UNCHANGED <<tab, call>>
    BY <2>2 DEF SpinnerHasCause, Running
  <2>3. ASSUME NEW x \in Tab, NEW c \in Call,
               OpenTab(x, c) \/ Page(x, c) \/ Login(x, c) \/ Logout(x, c)
        PROVE  SpinnerHasCause'
    BY <2>1, <2>3, BeginningHasCause
  <2>4. ASSUME NEW c \in Call, Step(c) PROVE SpinnerHasCause'
    BY <2>1, <2>4, AnswersHaveCause, RefreshesHaveCause, EndsTurnItOff DEF Step
  <2>5. ASSUME NEW s \in Session, GraceEnds(s) \/ EndElsewhere(s) PROVE UNCHANGED <<tab, call>>
    BY <2>5 DEF GraceEnds, EndElsewhere
  <2>6. UNCHANGED vars => UNCHANGED <<tab, call>>
    BY DEF vars
  <2> QED BY <2>2, <2>3, <2>4, <2>5, <2>6 DEF Next
<1> QED BY <1>1, <1>2, Invariance, PTL DEF Spec
=============================================================================
