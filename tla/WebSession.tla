------------------------------ MODULE WebSession ------------------------------
(***************************************************************************)
(* Signing in and out in the browser: AuthProvider, the pages it chooses    *)
(* between and apiRequest, in several tabs of one browser, against the      *)
(* session handling of the server.                                         *)
(*                                                                         *)
(* The tabs share one cookie jar.  The server always sets and clears the    *)
(* session cookie and the CSRF cookie together, so the jar is one number:   *)
(* the login whose cookies it holds.  Every tab has its own csrfToken.      *)
(* A call is sent, admitted and answered by the server, arrives (the       *)
(* browser applies its Set-Cookie headers) and is settled by the code after *)
(* the await; calls of all tabs interleave at every one of these steps.    *)
(* Two handlers run more than one statement that another call can get      *)
(* between: the set-up inserts the user and then logs in, the logout finds  *)
(* its session and then deletes it.  "admitted" is the state between them.  *)
(***************************************************************************)
EXTENDS Integers, FiniteSets

CONSTANTS
  Tabs,        \* tabs of the browser
  Slots,       \* calls a tab may have in flight
  MaxCalls,    \* bound: calls in flight in all tabs together
  MaxLogins,   \* bound: sessions granted
  MaxReloads   \* bound: reloads of a tab

ASSUME TabsAssumption == Slots # {} /\ Slots \subseteq Nat
ASSUME BoundsAssumption == MaxCalls \in Nat /\ MaxLogins \in Nat /\ MaxReloads \in Nat

VARIABLES
  registered,  \* the users table holds its only row
  sessions,    \* valid rows of the sessions table
  granted,     \* sessions created so far, numbered from 1
  jar,         \* login whose cookies the browser holds
  view,        \* AuthState.status per tab
  token,       \* csrfToken of client.ts per tab
  pending,     \* pending of LoginPage and SetupPage per tab
  calls,       \* apiRequest calls in flight, per tab and slot
  reloads

serverVars == <<registered, sessions, granted>>
tabVars == <<view, token, pending>>
vars == <<serverVars, jar, tabVars, calls, reloads>>

\* No login: an empty jar, csrfToken = null, an absent header.
NoLogin == 0
\* An answer without Set-Cookie headers.
Keep == -1
Logins == NoLogin..MaxLogins

Views == {"closed", "loading", "setup-required", "unauthenticated", "authenticated"}
Paths == {"/setup/status", "/setup/initialize", "/auth/me", "/auth/login",
          "/auth/logout", "page"}
Answers == {"none", "ok", "requires_setup", "unauthorized", "error"}

Calls == [path: Paths, cookie: Logins, header: Logins,
          phase: {"sent", "admitted", "answered", "arrived"},
          answer: Answers, cookies: {Keep} \cup Logins]
NoCall == [path |-> "page", cookie |-> NoLogin, header |-> NoLogin,
           phase |-> "arrived", answer |-> "none", cookies |-> Keep]

---------------------------------------------------------------------------
(* apiRequest *)

\* The browser attaches the jar, apiRequest the token; GET calls carry none.
Mutations == {"/setup/initialize", "/auth/login", "/auth/logout"}
Request(t, path) ==
  [path |-> path, cookie |-> jar,
   header |-> IF path \in Mutations THEN token[t] ELSE NoLogin,
   phase |-> "sent", answer |-> "none", cookies |-> Keep]

Free(t) == {c \in Slots : calls[t][c] = NoCall}
InFlight(t, c) == calls[t][c] # NoCall
FirstFree(t) == CHOOSE c \in Free(t) : \A d \in Free(t) : c <= d

\* The calls the other tabs have in flight, those of t, and one more.
Room(t, mine) ==
  Cardinality({tc \in (Tabs \ {t}) \X Slots : InFlight(tc[1], tc[2])}) + mine < MaxCalls

Send(t, path) ==
  /\ Free(t) # {} /\ Room(t, Cardinality(Slots \ Free(t)))
  /\ calls' = [calls EXCEPT ![t][FirstFree(t)] = Request(t, path)]

\* A refused call forgets the token, whatever the call was for.
TokenAfter(t, answer) == IF answer = "unauthorized" THEN NoLogin ELSE token[t]

---------------------------------------------------------------------------
(* The server *)

\* The cookie the call was sent with has served its purpose.
Answered(call, answer, cookies) ==
  [call EXCEPT !.phase = "answered", !.answer = answer, !.cookies = cookies,
               !.cookie = NoLogin]

\* requireSession: a missing cookie is refused, an invalid one is cleared too,
\* and a session that cannot be read or touched is treated as an invalid one.
Refused(call) ==
  Answered(call, "unauthorized", IF call.cookie = NoLogin THEN Keep ELSE NoLogin)

\* requireCSRF compares the header with the cookie and with the session.
\* Mutant: the header is not looked at.
IgnoresCSRF(call) == TRUE
PassesCSRF(call) == call.header # NoLogin /\ call.header = call.cookie

\* A new session, unless the bound is reached.
Grant == /\ granted < MaxLogins
         /\ granted' = granted + 1
         /\ sessions' = sessions \cup {granted + 1}

Reply(t, c, call) == calls' = [calls EXCEPT ![t][c] = call]

\* The first statement of a handler succeeded, the second is still to come.
Admit(t, c, call) ==
  call.phase = "sent" /\ Reply(t, c, [call EXCEPT !.phase = "admitted"])

AnswerStatus(t, c, call) ==
  /\ call.path = "/setup/status"
  /\ Reply(t, c, Answered(call, IF registered THEN "ok" ELSE "requires_setup", Keep))
  /\ UNCHANGED serverVars

\* Mutant: users has no singleton key.
AnyNumberOfUsers == TRUE
UserKeyFree == ~registered

\* service.Initialize: the insert meets the unique key of the users table.
InsertUser(t, c, call) ==
  /\ call.path = "/setup/initialize" /\ UserKeyFree
  /\ registered' = TRUE
  /\ Admit(t, c, call)
  /\ UNCHANGED <<sessions, granted>>

\* Then the handler logs in.  The set-up is refused before the insert, or by
\* it, and the login may fail after it: the user exists then.
AnswerInitialize(t, c, call) ==
  /\ call.path = "/setup/initialize"
  /\ \/ call.phase = "admitted" /\ Grant /\ Reply(t, c, Answered(call, "ok", granted + 1))
     \/ UNCHANGED <<sessions, granted>> /\ Reply(t, c, Answered(call, "error", Keep))
  /\ UNCHANGED registered

AnswerLogin(t, c, call) ==
  /\ call.path = "/auth/login"
  /\ \/ registered /\ Grant /\ Reply(t, c, Answered(call, "ok", granted + 1))
     \/ UNCHANGED <<sessions, granted>>
        /\ Reply(t, c, Answered(call, "unauthorized", Keep))
  /\ UNCHANGED registered

\* requireSession and requireCSRF in front of the logout.
AdmitLogout(t, c, call) ==
  /\ call.path = "/auth/logout" /\ call.phase = "sent"
  /\ \/ Reply(t, c, Refused(call))
     \/ call.cookie \in sessions /\ ~PassesCSRF(call)
        /\ Reply(t, c, Answered(call, "error", Keep))
     \/ call.cookie \in sessions /\ PassesCSRF(call) /\ Admit(t, c, call)
  /\ UNCHANGED serverVars

\* DeleteSession does not look at how many rows it deleted: a second logout of
\* the session that was admitted in time succeeds as well.
AnswerLogout(t, c, call) ==
  /\ call.path = "/auth/logout" /\ call.phase = "admitted"
  /\ \/ sessions' = sessions \ {call.cookie} /\ Reply(t, c, Answered(call, "ok", NoLogin))
     \/ UNCHANGED sessions /\ Reply(t, c, Answered(call, "error", Keep))
  /\ UNCHANGED <<registered, granted>>

\* GET /auth/me and the calls of the pages.
AnswerProtected(t, c, call) ==
  /\ call.path \in {"/auth/me", "page"}
  /\ \/ call.cookie \in sessions /\ Reply(t, c, Answered(call, "ok", Keep))
     \/ Reply(t, c, Refused(call))
  /\ UNCHANGED serverVars

Serve(t, c) ==
  LET call == calls[t][c] IN
  /\ InFlight(t, c) /\ call.phase \in {"sent", "admitted"}
  /\ \/ AnswerStatus(t, c, call)
     \/ InsertUser(t, c, call) \/ AnswerInitialize(t, c, call)
     \/ AnswerLogin(t, c, call)
     \/ AdmitLogout(t, c, call) \/ AnswerLogout(t, c, call)
     \/ AnswerProtected(t, c, call)
  /\ UNCHANGED <<jar, tabVars, reloads>>

\* The call fails on its way, before, while or after the server works on it.
\* What the server still does for it are a Revoke or an InitializedElsewhere.
Lose(t, c) ==
  /\ InFlight(t, c) /\ calls[t][c].phase \in {"sent", "admitted", "answered"}
  /\ calls' = [calls EXCEPT ![t][c].phase = "arrived", ![t][c].answer = "error",
                            ![t][c].cookies = Keep, ![t][c].cookie = NoLogin]
  /\ UNCHANGED <<serverVars, jar, tabVars, reloads>>

\* The browser applies the Set-Cookie headers of an answer.
Arrive(t, c) ==
  /\ InFlight(t, c) /\ calls[t][c].phase = "answered"
  /\ jar' = IF calls[t][c].cookies = Keep THEN jar ELSE calls[t][c].cookies
  /\ calls' = [calls EXCEPT ![t][c].phase = "arrived", ![t][c].cookies = Keep]
  /\ UNCHANGED <<serverVars, tabVars, reloads>>

\* A session ends without a logout of these tabs: idle or absolute expiry, a
\* changed password, a restored backup, a logout the browser gave up.
Revoke ==
  /\ \E s \in sessions : sessions' = sessions \ {s}
  /\ UNCHANGED <<registered, granted, jar, tabVars, calls, reloads>>

\* Another browser, or a call this one gave up, initializes the server.
InitializedElsewhere ==
  /\ UserKeyFree /\ registered' = TRUE
  /\ UNCHANGED <<sessions, granted, jar, tabVars, calls, reloads>>

---------------------------------------------------------------------------
(* AuthProvider, LoginPage, SetupPage *)

Done(t, c) == calls' = [calls EXCEPT ![t][c] = NoCall]
Show(t, status) == view' = [view EXCEPT ![t] = status]
SetToken(t, value) == token' = [token EXCEPT ![t] = value]
\* Mutant: nothing follows the await in a finally block.
KeepPending(t) == UNCHANGED pending
EndPending(t) == pending' = [pending EXCEPT ![t] = FALSE]

\* Mutant: the outer catch of bootstrap is missing.
SettleStatusUncaught(t, c, answer) ==
  /\ UNCHANGED <<token, pending>>
  /\ \/ answer = "requires_setup" /\ Show(t, "setup-required") /\ Done(t, c)
     \/ answer = "ok" /\ UNCHANGED view
        /\ calls' = [calls EXCEPT ![t][c] = Request(t, "/auth/me")]
     \/ answer = "error" /\ UNCHANGED view /\ Done(t, c)

\* bootstrap: the setup status first, then the session of the jar.
SettleStatus(t, c, answer) ==
  /\ UNCHANGED <<token, pending>>
  /\ \/ answer = "requires_setup" /\ Show(t, "setup-required") /\ Done(t, c)
     \/ answer = "ok" /\ UNCHANGED view
        /\ calls' = [calls EXCEPT ![t][c] = Request(t, "/auth/me")]
     \/ answer = "error" /\ Show(t, "unauthenticated") /\ Done(t, c)

\* What the server accepted: the cookie is read again after the await.
Adopt(t) == SetToken(t, jar) /\ Show(t, "authenticated")

SettleMe(t, c, answer) ==
  /\ Done(t, c) /\ UNCHANGED pending
  /\ \/ answer = "ok" /\ Adopt(t)
     \/ answer # "ok" /\ SetToken(t, TokenAfter(t, answer)) /\ Show(t, "unauthenticated")

\* initialize and login, awaited by the form that called them.
SettleForm(t, c, answer) ==
  /\ Done(t, c) /\ EndPending(t)
  /\ \/ answer = "ok" /\ Adopt(t)
     \/ answer # "ok" /\ SetToken(t, TokenAfter(t, answer)) /\ UNCHANGED view

\* Mutant: logout keeps the token.
SettleLogoutKeepingToken(t, c, answer) ==
  /\ Done(t, c) /\ UNCHANGED <<token, pending>>
  /\ IF answer = "ok" THEN Show(t, "unauthenticated") ELSE UNCHANGED view

\* A failed logout rejects, and AppShell drops the rejection.
SettleLogout(t, c, answer) ==
  /\ Done(t, c) /\ UNCHANGED pending
  /\ \/ answer = "ok" /\ SetToken(t, NoLogin) /\ Show(t, "unauthenticated")
     \/ answer # "ok" /\ SetToken(t, TokenAfter(t, answer)) /\ UNCHANGED view

SettlePage(t, c, answer) ==
  /\ Done(t, c) /\ SetToken(t, TokenAfter(t, answer)) /\ UNCHANGED <<view, pending>>

Settle(t, c) ==
  LET call == calls[t][c] IN
  /\ InFlight(t, c) /\ call.phase = "arrived"
  /\ \/ call.path = "/setup/status" /\ SettleStatus(t, c, call.answer)
     \/ call.path = "/auth/me" /\ SettleMe(t, c, call.answer)
     \/ call.path \in {"/auth/login", "/setup/initialize"} /\ SettleForm(t, c, call.answer)
     \/ call.path = "/auth/logout" /\ SettleLogout(t, c, call.answer)
     \/ call.path = "page" /\ SettlePage(t, c, call.answer)
  /\ UNCHANGED <<serverVars, jar, reloads>>

\* The document loads: a fresh module state and one bootstrap whose answers
\* count; the calls of the old document are abandoned.
Bootstrap(t) ==
  /\ Room(t, 0)
  /\ Show(t, "loading") /\ SetToken(t, NoLogin) /\ EndPending(t)
  /\ calls' = [calls EXCEPT ![t] = [c \in Slots |->
       IF \A d \in Slots : c <= d
       THEN [path |-> "/setup/status", cookie |-> jar, header |-> NoLogin,
             phase |-> "sent", answer |-> "none", cookies |-> Keep]
       ELSE NoCall]]
  /\ UNCHANGED <<serverVars, jar>>

Open(t) == view[t] = "closed" /\ Bootstrap(t) /\ UNCHANGED reloads

Reload(t) ==
  /\ view[t] # "closed" /\ reloads < MaxReloads /\ reloads' = reloads + 1
  /\ Bootstrap(t)

\* The form of the page App shows; its button is disabled while pending.
Submit(t, status, path) ==
  /\ view[t] = status /\ ~pending[t]
  /\ pending' = [pending EXCEPT ![t] = TRUE]
  /\ Send(t, path)
  /\ UNCHANGED <<serverVars, jar, view, token, reloads>>

SubmitLogin(t) == Submit(t, "unauthenticated", "/auth/login")
SubmitSetup(t) == Submit(t, "setup-required", "/setup/initialize")

\* AppShell: the logout button, which nothing disables, and the pages.
UseShell(t, path) ==
  /\ view[t] = "authenticated"
  /\ Send(t, path)
  /\ UNCHANGED <<serverVars, jar, tabVars, reloads>>

Logout(t) == UseShell(t, "/auth/logout")
UsePage(t) == UseShell(t, "page")

---------------------------------------------------------------------------

Init ==
  /\ registered \in BOOLEAN /\ sessions = {} /\ granted = 0 /\ jar = NoLogin
  /\ view = [t \in Tabs |-> "closed"] /\ token = [t \in Tabs |-> NoLogin]
  /\ pending = [t \in Tabs |-> FALSE]
  /\ calls = [t \in Tabs |-> [c \in Slots |-> NoCall]]
  /\ reloads = 0

UserStep(t) == \/ Open(t) \/ Reload(t) \/ SubmitLogin(t) \/ SubmitSetup(t)
               \/ Logout(t) \/ UsePage(t)
CallStep(t, c) == Serve(t, c) \/ Arrive(t, c) \/ Settle(t, c)

Next == \/ \E t \in Tabs : UserStep(t)
        \/ \E t \in Tabs, c \in Slots : CallStep(t, c) \/ Lose(t, c)
        \/ Revoke \/ InitializedElsewhere

Spec == Init /\ [][Next]_vars

\* Every call is answered or fails, and the code after its await runs.
FairSpec == Spec /\ \A t \in Tabs, c \in Slots : WF_vars(CallStep(t, c))

---------------------------------------------------------------------------
(* Properties *)

\* The variables keep their types, what the jar and the tabs hold was granted,
\* and the two waiting states of a tab are those of a call in flight: pending
\* of the forms and the loading screen (LoginPage.tsx:10, AuthContext.tsx:9).
SessionTypeOK ==
  /\ registered \in BOOLEAN /\ sessions \subseteq 1..granted
  /\ granted \in Logins /\ jar \in 0..granted
  /\ view \in [Tabs -> Views] /\ token \in [Tabs -> 0..granted]
  /\ pending \in [Tabs -> BOOLEAN]
  /\ calls \in [Tabs -> [Slots -> Calls]]
  /\ reloads \in 0..MaxReloads
  /\ \A t \in Tabs : pending[t] = \E c \in Slots :
                        calls[t][c].path \in {"/auth/login", "/setup/initialize"}

\* A tab that shows the login or the setup page holds no token, in whatever
\* order the answers of logins, logouts and pages reached it (client.ts:52 and
\* AuthContext.tsx:47-60 are the places that keep view and token together).
TokenOnlyWhenAuthenticated ==
  \A t \in Tabs : token[t] # NoLogin => view[t] = "authenticated"

\* Only a logout of this tab that the server carried out leads from the pages
\* to the login page, and the session it was sent for is gone then, although
\* another tab may have put the cookies of another login into the jar
\* (AuthContext.logout, requireCSRF).  It need not be the session the tab shows
\* now: the late answer to a second logout of an earlier session ends there too.
LogoutEndsSession ==
  [][\A t \in Tabs : view[t] = "authenticated" /\ view'[t] = "unauthenticated" =>
       \E c \in Slots : /\ calls[t][c].path = "/auth/logout" /\ calls'[t][c] = NoCall
                        /\ calls[t][c].header \in (1..granted) \ sessions']_vars

\* However many setup pages race, one initialisation at most gets past its
\* insert, before anybody has logged in, and the others never succeed (the
\* singleton key behind service.Initialize).
SetUp(call) == call.path = "/setup/initialize" /\ (call.phase = "admitted" \/ call.answer = "ok")
SetupSucceedsOnce ==
  [][\A t \in Tabs, c \in Slots :
       SetUp(calls'[t][c]) /\ ~SetUp(calls[t][c]) =>
         /\ granted = 0
         /\ \A u \in Tabs, d \in Slots : ~SetUp(calls[u][d])]_vars

\* The loading screen goes away and a submitted form answers, whatever fails
\* (the catch of bootstrap, the finally of the two forms).
WaitsEnd ==
  \A t \in Tabs : /\ view[t] = "loading" ~> view[t] # "loading"
                  /\ pending[t] ~> ~pending[t]
=============================================================================
