------------------------------ MODULE Browser -------------------------------
(***************************************************************************)
(* The browser client (api/client.ts, shared/auth.tsx) against the cookie  *)
(* endpoints of api/v1/auth.py.  The tabs of a browser share its cookies;  *)
(* the access token and the user are in the memory of a tab.  Each request *)
(* answered 401 refreshes on its own account.                              *)
(*                                                                         *)
(* A Call is one use of the API with all it takes: the request, a refresh, *)
(* the request again.  The refresh tokens of the server are the abstract   *)
(* TokenFamily that SessionStore implements; an access token is named by   *)
(* its session, and the two cookies, which are set and deleted together,   *)
(* by the refresh token.                                                   *)
(***************************************************************************)
EXTENDS FiniteSets

CONSTANTS Tab, Call, Session, None

ASSUME NoneIsNone == None \notin Session \cup Call \cup Tab /\ Session # {}

VARIABLES
  head, used,   \* of TokenFamily
  family,       \* family[s]: of an issued token
  recent,       \* tokens rotated no longer than refresh_grace_seconds ago
  jar,          \* the cookies
  tab, call,
  lost,         \* history: an answer that changes the cookies got lost
  overlapped    \* history: two calls have been under way at one time

server == <<head, used, family, recent>>
history == <<lost, overlapped>>
vars == <<server, jar, tab, call, history>>

Families == INSTANCE TokenFamily WITH Token <- Session

SessionOrNone == Session \cup {None}

\* start is the call of the mount.
TabState == [access : SessionOrNone, me : BOOLEAN, loading : BOOLEAN,
             start : Call \cup {None}]

\* header is X-CSRF-Token, cookie what the browser attached, token what the
\* server issued.  "error" is every answer not told apart, and none at all.
CallState == [kind   : {"none", "start", "login", "loginMe", "page", "logout"},
              tab    : Tab \cup {None},
              stage  : {"first", "refresh", "again"},
              pc     : {"idle", "script", "network", "answered", "failing",
                        "done", "failed"},
              access : SessionOrNone, header : SessionOrNone, cookie : SessionOrNone,
              answer : {"none", "ok", "401", "race", "error"},
              token  : SessionOrNone]

Closed == [access |-> None, me |-> FALSE, loading |-> FALSE, start |-> None]
NoCall == [kind |-> "none", tab |-> None, stage |-> "first", pc |-> "idle",
           access |-> None, header |-> None, cookie |-> None, answer |-> "none",
           token |-> None]

\* No tab is open; an earlier visit may have left cookies.
Init ==
  /\ jar \in {None, CHOOSE s \in Session : TRUE}
  /\ used = {jar} \ {None}
  /\ head = [s \in Session |-> {s} \cap used]
  /\ family = [s \in Session |-> IF s = jar THEN s ELSE None]
  /\ recent = {}
  /\ tab = [x \in Tab |-> Closed]
  /\ call = [c \in Call |-> NoCall]
  /\ lost = FALSE /\ overlapped = FALSE

Live(s) == \E f \in Session : s \in head[f]
Running(c) == call[c].pc \in {"script", "network", "answered", "failing"}
Over(c) == call[c].pc \in {"done", "failed"}

-----------------------------------------------------------------------------
(***************************************************************************)
(* The script.  readCsrfToken runs before fetch; the browser attaches the  *)
(* cookies later.  Only refresh and logout look at them.                   *)
(***************************************************************************)
Guarded(kind, stage) == stage = "refresh" \/ kind = "logout"

Fetch(kind, x, stage, access, cookies) ==
  [kind |-> kind, tab |-> x, stage |-> stage, access |-> access, cookie |-> None,
   pc |-> IF Guarded(kind, stage) THEN "script" ELSE "network",
   header |-> IF Guarded(kind, stage) THEN cookies ELSE None, answer |-> "none", token |-> None]

Begin(c, kind, x, access) ==
  /\ call[c].pc = "idle" /\ c = CHOOSE d \in Call : call[d].pc = "idle"
  /\ call' = [call EXCEPT ![c] = Fetch(kind, x, "first", access, jar)]
  /\ overlapped' = (overlapped \/ \E d \in Call : Running(d))
  /\ UNCHANGED <<server, jar, lost>>

\* AuthProvider is mounted.
OpenTab(x, c) ==
  /\ tab[x].start = None
  /\ tab' = [tab EXCEPT ![x] = [access |-> None, me |-> FALSE, loading |-> TRUE,
                                start |-> c]]
  /\ Begin(c, "start", x, None)

ShowsPages(x) == tab[x].me /\ ~tab[x].loading
ShowsLogin(x) == tab[x].start # None /\ ~tab[x].me /\ ~tab[x].loading

Page(x, c) ==
  /\ ShowsPages(x)
  /\ Begin(c, "page", x, tab[x].access)
  /\ UNCHANGED tab

Waiting(x, c, kind) ==
  /\ tab' = [tab EXCEPT ![x].loading = TRUE]
  /\ Begin(c, kind, x, tab[x].access)

Logout(x, c) == ShowsPages(x) /\ Waiting(x, c, "logout")

\* Mutant: the login does not wait for the start.
LoginAtOnce(x, c) == ShowsLogin(x) /\ Waiting(x, c, "login")

\* bootstrapPromiseRef is awaited.
Login(x, c) ==
  /\ ShowsLogin(x) /\ Over(tab[x].start)
  /\ Waiting(x, c, "login")

Attach(c) ==
  /\ call[c].pc = "script"
  /\ call' = [call EXCEPT ![c] = [@ EXCEPT !.pc = "network", !.cookie = jar]]
  /\ UNCHANGED <<server, jar, tab, history>>

-----------------------------------------------------------------------------
(***************************************************************************)
(* The server: one transaction each.                                       *)
(***************************************************************************)
Answer(c, answer, token) ==
  /\ call[c].pc = "network"
  /\ call' = [call EXCEPT ![c] = [@ EXCEPT !.pc = "answered", !.answer = answer,
                                !.token = token, !.access = None, !.header = None]]
  /\ UNCHANGED <<jar, tab, history>>

Reply(c, answer) == Answer(c, answer, None) /\ UNCHANGED server

\* verify_csrf; the origin is one of cors_list.
CsrfHolds(c) == call[c].cookie \in {None, call[c].header}

Unissued == Session \ used
New == CHOOSE s \in Session : s \notin used

\* Mutant: every token is given a family of its own.
IssueApart(c, f) ==
  /\ family' = [family EXCEPT ![New] = New]
  /\ Answer(c, "ok", New)

Issue(c, f) ==
  /\ family' = [family EXCEPT ![New] = f]
  /\ Answer(c, "ok", New)

\* Mutant: revision 0003, without a grace window.
RotateWithoutGrace(c, s) ==
  /\ Unissued # {} /\ Families!Rotate(family[s], New) /\ Issue(c, family[s])
  /\ UNCHANGED recent

Rotate(c, s) ==
  /\ Unissued # {} /\ Families!Rotate(family[s], New) /\ Issue(c, family[s])
  /\ recent' = recent \cup {s}

\* A token that is not recent is taken for stolen.
Reused(c) == LET s == call[c].cookie IN s # None /\ ~Live(s) /\ s \notin recent

ServeRefresh(c) ==
  LET s == call[c].cookie IN
  /\ call[c].stage = "refresh"
  /\ \/ ~CsrfHolds(c) /\ Reply(c, "error")
     \/ /\ CsrfHolds(c)
        /\ \/ s = None /\ Reply(c, "401")
           \/ Live(s) /\ Rotate(c, s)
           \/ s \in recent /\ ~Live(s) /\ Reply(c, "race")
           \/ /\ Reused(c)
              /\ Families!Close({family[s]}) /\ Answer(c, "error", None)
              /\ UNCHANGED <<family, recent>>

ServeLogin(c) ==
  /\ call[c].kind = "login" /\ call[c].stage # "refresh"
  /\ \/ Reply(c, "401")
     \/ /\ Unissued # {} /\ Families!Open(New) /\ Issue(c, New)
        /\ UNCHANGED recent

\* Mutant: raw is taken from the body only, which the client leaves empty.
ServeLogoutOfBody(c) ==
  /\ call[c].kind = "logout"
  /\ Reply(c, IF CsrfHolds(c) THEN "ok" ELSE "error")

\* Nothing is revoked when the token is not live; the answer is the same.
ServeLogout(c) ==
  LET s == call[c].cookie IN
  /\ call[c].kind = "logout"
  /\ IF CsrfHolds(c)
       THEN /\ Families!Close({f \in Session : s \in head[f]})
            /\ Answer(c, "ok", None)
            /\ UNCHANGED <<family, recent>>
       ELSE Reply(c, "error")

\* /me and every other endpoint: get_actor.  The access token may be past its
\* exp at any time.
ServeRest(c) ==
  /\ call[c].kind \in {"start", "loginMe", "page"} /\ call[c].stage # "refresh"
  /\ \/ Live(call[c].access) /\ Reply(c, "ok")
     \/ Reply(c, "401")

Serve(c) ==
  \/ ServeRefresh(c) \/ ServeLogin(c) \/ ServeLogout(c) \/ ServeRest(c)
  \/ Reply(c, "error")   \* 403, 422, 423, 429, 500, or it never gets here

\* Does the answer to this call change the cookies?
SetsCookies(q) ==
  q.answer = "ok" /\ (q.stage = "refresh" \/ q.kind \in {"login", "logout"})

\* The answer does not get back: fetch throws and no cookie changes.
Lose(c) ==
  /\ call[c].pc = "answered" /\ call[c].answer # "error"
  /\ call' = [call EXCEPT ![c] = [@ EXCEPT !.answer = "error", !.token = None]]
  /\ lost' = (lost \/ SetsCookies(call[c]))
  /\ UNCHANGED <<server, jar, tab, overlapped>>

\* The head of the answer has brought the cookies, its body does not follow:
\* response.json() throws, and the script never sees the token.
LoseBody(c) ==
  /\ call[c].pc = "answered" /\ SetsCookies(call[c])
  /\ jar' = call[c].token
  /\ call' = [call EXCEPT ![c] = [@ EXCEPT !.answer = "error", !.token = None,
                                          !.cookie = None]]
  /\ UNCHANGED <<server, tab, history>>

\* The network is faster than the grace window, which is "подобрано под
\* сетевые задержки": it ends after what was under way has arrived.
GraceEnds(s) ==
  /\ s \in recent
  /\ \A c \in Call : call[c].pc \in {"network", "answered"} => call[c].cookie # s
  /\ recent' = recent \ {s}
  /\ UNCHANGED <<head, used, family, jar, tab, call, history>>

\* An administrator, another device, or the end of the lifetime.
EndElsewhere(f) ==
  /\ head[f] # {} /\ Families!Close({f})
  /\ UNCHANGED <<family, recent, jar, tab, call, history>>

-----------------------------------------------------------------------------
(***************************************************************************)
(* The script again: what request does with an answer.                     *)
(***************************************************************************)
Arrives(c, stages, answers) ==
  call[c].pc = "answered" /\ call[c].stage \in stages /\ call[c].answer \in answers

Unauthorized(c) ==
  /\ Arrives(c, {"first"}, {"401"})
  /\ call' = [call EXCEPT ![c] = Fetch(@.kind, @.tab, "refresh", None, jar)]
  /\ UNCHANGED <<server, jar, tab, history>>

\* Mutant: the server answers with the tokens, but sets no cookie.
RefreshedWithoutCookie(c) ==
  /\ Arrives(c, {"refresh"}, {"ok"})
  /\ tab' = [tab EXCEPT ![call[c].tab].access = call[c].token]
  /\ call' = [call EXCEPT ![c] = Fetch(@.kind, @.tab, "again", @.token, @.token)]
  /\ UNCHANGED <<server, jar, history>>

Refreshed(c) ==
  /\ Arrives(c, {"refresh"}, {"ok"})
  /\ jar' = call[c].token
  /\ tab' = [tab EXCEPT ![call[c].tab].access = call[c].token]
  /\ call' = [call EXCEPT ![c] = Fetch(@.kind, @.tab, "again", @.token, @.token)]
  /\ UNCHANGED <<server, history>>

LoggedOut(x) == [tab EXCEPT ![x].access = None, ![x].me = FALSE, ![x].loading = FALSE]

\* onUnauthorized; the caller hears of it later, with the body of the answer.
RefreshFailed(c) ==
  /\ Arrives(c, {"refresh"}, {"401", "race", "error"})
  /\ tab' = LoggedOut(call[c].tab)
  /\ call' = [call EXCEPT ![c].pc = "failing"]
  /\ UNCHANGED <<server, jar, history>>

\* Of a call that is over only a lost race is remembered.
End(c, pc) ==
  call' = [call EXCEPT ![c] =
             [kind |-> @.kind, tab |-> @.tab, stage |-> "first", pc |-> pc,
              access |-> None, header |-> None, cookie |-> None,
              answer |-> IF @.answer = "race" THEN "race" ELSE "none", token |-> None]]

\* Mutant: loading is reset when the start fails, but not when it succeeds.
SucceedLoading(c) ==
  LET x == call[c].tab
      s == call[c].token
  IN
  /\ Arrives(c, {"first", "again"}, {"ok"})
  /\ CASE call[c].kind \in {"start", "loginMe"} ->
            /\ tab' = [tab EXCEPT ![x].me = TRUE]
            /\ End(c, "done") /\ UNCHANGED jar
       [] call[c].kind = "login" ->
            /\ jar' = s /\ tab' = [tab EXCEPT ![x].access = s]
            /\ call' = [call EXCEPT ![c] = Fetch("loginMe", x, "first", s, s)]
       [] call[c].kind = "page" -> End(c, "done") /\ UNCHANGED <<jar, tab>>
       [] call[c].kind = "logout" ->
            jar' = None /\ tab' = LoggedOut(x) /\ End(c, "done")
  /\ UNCHANGED <<server, history>>

Succeed(c) ==
  LET x == call[c].tab
      s == call[c].token
  IN
  /\ Arrives(c, {"first", "again"}, {"ok"})
  /\ \/ /\ call[c].kind \in {"start", "loginMe"}
        /\ tab' = [tab EXCEPT ![x].me = TRUE, ![x].loading = FALSE]
        /\ End(c, "done") /\ UNCHANGED jar
     \/ /\ call[c].kind = "login"
        /\ jar' = s /\ tab' = [tab EXCEPT ![x].access = s]
        /\ call' = [call EXCEPT ![c] = Fetch("loginMe", x, "first", s, s)]
     \/ call[c].kind = "page" /\ End(c, "done") /\ UNCHANGED <<jar, tab>>
     \/ /\ call[c].kind = "logout"
        /\ jar' = None /\ tab' = LoggedOut(x) /\ End(c, "done")
  /\ UNCHANGED <<server, history>>

\* RequestFailed, or fetch has thrown.
Fail(c) ==
  LET x == call[c].tab IN
  /\ \/ call[c].pc = "failing"
     \/ Arrives(c, {"first", "again"}, {"error"})
     \/ Arrives(c, {"again"}, {"401"})
  /\ tab' = CASE call[c].kind = "page"  -> tab
              [] call[c].kind = "start" ->
                   [tab EXCEPT ![x].me = FALSE, ![x].loading = FALSE]
              [] OTHER                  -> LoggedOut(x)
  /\ End(c, "failed")
  /\ UNCHANGED <<server, jar, history>>

Step(c) ==
  \/ Attach(c) \/ Serve(c) \/ Lose(c) \/ LoseBody(c)
  \/ Unauthorized(c) \/ Refreshed(c) \/ RefreshFailed(c) \/ Succeed(c) \/ Fail(c)

Next ==
  \/ \E x \in Tab, c \in Call :
       OpenTab(x, c) \/ Page(x, c) \/ Login(x, c) \/ Logout(x, c)
  \/ \E c \in Call : Step(c)
  \/ \E s \in Session : GraceEnds(s) \/ EndElsewhere(s)

Spec == Init /\ [][Next]_vars

\* Whatever is asked is answered or fails, and the script then goes on.
FairSpec == Spec /\ \A c \in Call : WF_vars(Step(c))

-----------------------------------------------------------------------------
TypeOK ==
  /\ Families!TypeOK
  /\ family \in [Session -> SessionOrNone]
  /\ recent \in SUBSET Session
  /\ jar \in SessionOrNone
  /\ tab \in [Tab -> TabState]
  /\ call \in [Call -> CallState]
  /\ lost \in BOOLEAN /\ overlapped \in BOOLEAN

\* Rotated, and the family has gone on.
Superseded(s) == s \in used /\ ~Live(s) /\ head[family[s]] # {}

\* Unless an answer is lost, the cookie of the browser is the usable token of
\* its family, or the answer that brings this token is on its way, however
\* many requests refresh at a time and in whatever order they are answered.
CookieIsCurrent ==
  ~lost /\ Superseded(jar) =>
    \E c \in Call : call[c].cookie = jar /\ Live(call[c].token)

\* So a browser that loses no answer is never taken for a thief.
NeverTakenForThief ==
  \A c \in Call :
    ~lost /\ call[c].pc = "network" /\ Reused(c) => ~Superseded(call[c].cookie)

\* c is the only call of its tab beside the start.
Alone(c) ==
  LET x == call[c].tab IN
  \A d \in Call : call[d].tab = x => d \in {c, tab[x].start}

\* A tab in which nothing has happened but its start and a login that
\* succeeded is logged in: what was left of the start has not undone it.
LoginSticks ==
  \A c \in Call :
    LET x == call[c].tab IN
    call[c].kind = "loginMe" /\ call[c].pc = "done" /\ Alone(c)
    => tab[x].me /\ tab[x].access # None

\* When calls have not overlapped and no answer was lost, a logout that is
\* confirmed leaves the browser without cookies and access token, and the
\* family of the cookies it had is closed.
LogoutEnds ==
  [][\A c \in Call :
       call[c].kind = "logout" /\ call[c].pc # "done" /\ call'[c].pc = "done"
         /\ ~lost /\ ~overlapped
       => /\ jar' = None /\ tab'[call[c].tab].access = None
          /\ jar # None => head[family[jar]] = {}]_vars

\* The spinner goes away.
SpinnerEnds == \A x \in Tab : tab[x].loading ~> ~tab[x].loading

\* The spinner is there for a call that is under way and will remove it, also
\* when other calls of the tab have failed meanwhile.
SpinnerHasCause ==
  \A x \in Tab : tab[x].loading =>
    \E c \in Call : call[c].tab = x /\ Running(c) /\ call[c].kind # "page"

\* What auth_service.refresh says: a lost race costs the winner nothing.  In a
\* tab whose calls either succeeded or lost a race, and that did not log out,
\* the pages are still shown as long as the browser has a usable session.
WinnerKeepsAccess ==
  \A x \in Tab :
    LET of == {c \in Call : call[c].tab = x}
        ended(kind, pc) == {c \in of : call[c].kind = kind /\ call[c].pc = pc}
        lostRace == {c \in ended("page", "failed") : call[c].answer = "race"}
    IN
    /\ tab[x].start \in ended("start", "done")
    /\ of = ended("start", "done") \cup ended("page", "done") \cup lostRace
    /\ ~lost /\ Live(jar)
    => tab[x].me

\* Tokens are in the family that names them, one of them usable.
TokensKnown ==
  /\ \A s \in Session : /\ s \in used <=> family[s] # None
                       /\ family[s] \in used \cup {None}
  /\ \A f \in Session : /\ \A s \in head[f] : family[s] = f
                       /\ \A s, t \in head[f] : s = t
  /\ jar \in used \cup {None}
  /\ \A c \in Call :
       /\ {call[c].cookie, call[c].token} \subseteq used \cup {None}
       /\ call[c].pc = "script" \/ call[c].cookie # None =>
            Guarded(call[c].kind, call[c].stage)

\* A token that is on its way is nowhere else, so nothing has become of it.
Undelivered ==
  \A c \in Call :
    LET t == call[c].token IN
    t # None =>
      /\ call[c].pc = "answered" /\ SetsCookies(call[c])
      /\ jar # t /\ ~Superseded(t)
      /\ \A d \in Call : call[d].cookie # t /\ (call[d].token = t => d = c)
      /\ call[c].cookie # None => family[t] = family[call[c].cookie]

\* What the browser holds or has presented was rotated lately, if at all.
RotatedLately ==
  ~lost =>
    \A s \in Session :
      /\ Superseded(s)
      /\ \/ jar = s
         \/ \E c \in Call : /\ call[c].cookie = s
                           /\ call[c].pc \in {"network", "answered"}
      => s \in recent

\* A call is of a tab that is open; a login has waited for the start of its tab.
CallsOfTabs ==
  /\ \A x \in Tab : tab[x].start = None => ~tab[x].me
  /\ \A c \in Call :
       LET x == call[c].tab IN
       IF call[c].pc = "idle" THEN x = None
       ELSE /\ x \in Tab /\ tab[x].start \in Call
            /\ call[c].kind \in {"login", "loginMe"} => Over(tab[x].start)

\* Cookies that are set come with a token; a logout brings none, and it is
\* not tried again.
AnswersFit ==
  \A c \in Call :
    /\ call[c].pc = "answered" /\ SetsCookies(call[c]) /\ call[c].kind # "logout" =>
         call[c].token # None
    /\ call[c].kind = "logout" =>
         call[c].stage = "first" /\ call[c].answer # "401" /\ call[c].token = None

\* What a login has brought its tab stays while the tab does nothing else.
Achieved(q, t) ==
  /\ q.pc \in {"script", "network", "answered", "done"} => t.access # None
  /\ q.pc = "done" => t.me
LoginHolds ==
  \A c \in Call :
    call[c].kind = "loginMe" /\ Alone(c) => Achieved(call[c], tab[call[c].tab])

\* While one call is under way at a time, a logout presents the cookies the
\* browser has, and has closed their family when it is confirmed.
OneAtATime ==
  ~overlapped =>
    /\ \A c, d \in Call : Running(c) /\ Running(d) => c = d
    /\ \A c \in Call :
         call[c].kind = "logout" =>
           /\ call[c].pc \in {"network", "answered"} => call[c].cookie = jar
           /\ call[c].pc = "answered" /\ call[c].answer = "ok" /\ ~lost /\ jar # None =>
                head[family[jar]] = {}

IInv ==
  /\ TypeOK /\ TokensKnown /\ Undelivered /\ CookieIsCurrent /\ RotatedLately
  /\ CallsOfTabs /\ AnswersFit /\ LoginHolds /\ OneAtATime
=============================================================================
