------------------------------ MODULE WebConsole ------------------------------
(***************************************************************************)
(* Embedded consoles: handleConsole of ServersPage, the handover of a        *)
(* session to a window of its own (openEmbeddedConsoleWindow, ConsolePopout), *)
(* ConsoleDialog, and on the server the one-time tickets, the targets kept   *)
(* in memory and the WebSocket gateway.                                      *)
(*                                                                         *)
(* An attempt is one press of a console button and the session created for   *)
(* it.  Its ticket is presented by the sockets 1 and 2: React mounts effects *)
(* twice in development (StrictMode of main.tsx), so that the terminal       *)
(* presents its ticket a second time.                                       *)
(***************************************************************************)
EXTENDS Integers, FiniteSets

CONSTANTS
  InPage,      \* attempts shown in a dialog of the page
  InWindow,    \* attempts handed to a window of their own
  MaxCrashes   \* bound: restarts of the server

Attempts == InPage \cup InWindow
Presentations == {1, 2}
NoAttempt == "none"

ASSUME AttemptsAssumption == InPage \cap InWindow = {} /\ NoAttempt \notin Attempts
ASSUME BoundsAssumption == MaxCrashes \in Nat

VARIABLES
  opener,    \* the promise of handleConsole per attempt
  ready,     \* the window has said console-ready
  popup,     \* the window of the attempt
  reloaded,  \* history: the user reloaded that window
  dialog,    \* consoleSession of ServersPage
  create,    \* the POST that creates the session, and CreateEmbedded behind it
  row,       \* console_sessions.result, absent before the row is there
  expired,   \* expires_at has passed
  target,    \* MemoryTargetStore holds the target of the session
  born,      \* history: restarts before the session was created
  unsaved,   \* history: the statement that ends a proxied session failed
  socket,    \* the handler of each presentation of the ticket
  crashes

browserVars == <<opener, ready, popup, reloaded, dialog>>
serverVars == <<row, expired, target, born, unsaved>>
vars == <<browserVars, create, serverVars, socket, crashes>>

Openers == {"idle", "waiting", "created", "done", "failed"}
Popups == {"none", "loading", "listening", "showing", "closed"}
Creates == {"none", "sent", "inserted", "put", "ok", "error"}
Results == {"absent", "pending", "active", "completed", "failed"}
Sockets == {"none", "connecting", "consumed", "taken", "proxying", "ended"}
Closed(a) == row[a] \in {"completed", "failed"}

Set(f, a, value) == [f EXCEPT ![a] = value]

---------------------------------------------------------------------------
(* CreateEmbedded *)

\* The provider gives a target and the row is inserted, or the call is refused.
InsertSession(a) ==
  /\ create[a] = "sent"
  /\ \/ create' = Set(create, a, "error") /\ UNCHANGED <<row, born>>
     \/ /\ create' = Set(create, a, "inserted")
        /\ row' = Set(row, a, "pending") /\ born' = Set(born, a, crashes)
  /\ UNCHANGED <<browserVars, expired, target, unsaved, socket, crashes>>

PutTarget(a) ==
  /\ create[a] = "inserted" /\ create' = Set(create, a, "put")
  /\ target' = Set(target, a, TRUE)
  /\ UNCHANGED <<browserVars, row, expired, born, unsaved, socket, crashes>>

\* Mutant: the target of the session that failed stays in memory.
TargetLeft(a) == UNCHANGED target
TargetDeleted(a) == target' = Set(target, a, FALSE)

\* Without its audit entry the session is taken back, if that statement works.
AuditCreated(a) ==
  /\ create[a] = "put"
  /\ \/ create' = Set(create, a, "ok") /\ UNCHANGED <<row, target>>
     \/ /\ create' = Set(create, a, "error") /\ TargetDeleted(a)
        /\ row' \in {row, Set(row, a, "failed")}
  /\ UNCHANGED <<browserVars, expired, born, unsaved, socket, crashes>>

Expire(a) ==
  /\ row[a] = "pending" /\ ~expired[a] /\ expired' = Set(expired, a, TRUE)
  /\ UNCHANGED <<browserVars, create, row, target, born, unsaved, socket, crashes>>

---------------------------------------------------------------------------
(* WebSocketGateway *)

At(a, k, state) == socket[a][k] = state
Move(a, k, state) == socket' = [socket EXCEPT ![a][k] = state]

\* SQLRepository.Close keeps the first result; the statements that run under
\* the context of the request fail when its client has left.
CloseRow(a, results) == row' \in {IF Closed(a) THEN row ELSE Set(row, a, r) : r \in results}
CloseForRequest(a) == CloseRow(a, {row[a], "failed"})

\* Mutant: opened_at is not looked at.
NotClosed(a) == row[a] \in {"pending", "active"} /\ ~expired[a]
Unused(a) == row[a] = "pending" /\ ~expired[a]

\* A used, closed, expired or unreadable ticket is refused.
ConsumeTicket(a, k) ==
  /\ At(a, k, "connecting")
  /\ \/ Unused(a) /\ row' = Set(row, a, "active") /\ Move(a, k, "consumed")
     \/ Move(a, k, "ended") /\ UNCHANGED row
  /\ UNCHANGED <<browserVars, create, expired, target, born, unsaved, crashes>>

\* Mutant: the second result of Take is not looked at.
AnyTarget(a) == TRUE
HasTarget(a) == target[a]

Take(a, k) ==
  /\ At(a, k, "consumed") /\ target' = Set(target, a, FALSE)
  /\ IF HasTarget(a) THEN Move(a, k, "taken") /\ UNCHANGED row
                     ELSE Move(a, k, "ended") /\ CloseForRequest(a)
  /\ UNCHANGED <<browserVars, create, expired, born, unsaved, crashes>>

Accept(a, k) ==
  /\ At(a, k, "taken")
  /\ \/ Move(a, k, "proxying") /\ UNCHANGED row
     \/ Move(a, k, "ended") /\ CloseForRequest(a)
  /\ UNCHANGED <<browserVars, create, expired, target, born, unsaved, crashes>>

\* Mutant: the last statement runs under the context of the request.
CloseWithRequest(a) == CloseRow(a, {row[a], "completed", "failed"}) /\ UNCHANGED unsaved

\* It runs whether the client has left or not; its own failure is dropped.
CloseAlways(a) ==
  \/ CloseRow(a, {"completed", "failed"}) /\ UNCHANGED unsaved
  \/ UNCHANGED row /\ unsaved' = Set(unsaved, a, TRUE)

\* One side is closed, or idle, or the session reached its limit.
EndProxy(a, k) ==
  /\ At(a, k, "proxying") /\ Move(a, k, "ended")
  /\ CloseAlways(a)
  /\ UNCHANGED <<browserVars, create, expired, target, born, crashes>>

\* Memory and handlers are lost, the rows stay.
Crash ==
  /\ crashes < MaxCrashes /\ crashes' = crashes + 1
  /\ target' = [a \in Attempts |-> FALSE]
  /\ create' = [a \in Attempts |-> IF create[a] \in {"sent", "inserted", "put"}
                                   THEN "error" ELSE create[a]]
  /\ socket' = [a \in Attempts |-> [k \in Presentations |->
       IF At(a, k, "none") THEN "none" ELSE "ended"]]
  /\ UNCHANGED <<browserVars, row, expired, born, unsaved>>

---------------------------------------------------------------------------
(* The browser *)

\* A window that the browser blocks ends the attempt before a session is asked for.
Open(a) ==
  /\ opener[a] = "idle"
  /\ \/ /\ opener' = Set(opener, a, "waiting") /\ create' = Set(create, a, "sent")
        /\ popup' = IF a \in InWindow THEN Set(popup, a, "loading") ELSE popup
     \/ /\ a \in InWindow /\ opener' = Set(opener, a, "failed")
        /\ UNCHANGED <<create, popup>>
  /\ UNCHANGED <<ready, reloaded, dialog, serverVars, socket, crashes>>

\* In the page the dialog of the new session takes the place of the old one.
Created(a) ==
  /\ opener[a] = "waiting" /\ create[a] = "ok"
  /\ IF a \in InPage THEN opener' = Set(opener, a, "done") /\ dialog' = a
                     ELSE opener' = Set(opener, a, "created") /\ UNCHANGED dialog
  /\ UNCHANGED <<ready, popup, reloaded, create, serverVars, socket, crashes>>

ClosePopup(a) == popup' = IF a \in InWindow THEN Set(popup, a, "closed") ELSE popup

Reject(a) ==
  /\ opener' = Set(opener, a, "failed") /\ ClosePopup(a)
  /\ UNCHANGED <<ready, reloaded, dialog, create, serverVars, socket, crashes>>

\* Refused, or the answer was lost.
CreateFails(a) == opener[a] = "waiting" /\ create[a] \in {"ok", "error"} /\ Reject(a)

\* Mutant: no timer.
NoTimer == FALSE
Timer == TRUE

\* Fifteen seconds without console-ready.
PopupTimesOut(a) ==
  /\ Timer /\ a \in InWindow /\ opener[a] \in {"waiting", "created"} /\ ~ready[a]
  /\ Reject(a)

\* ConsolePopout listens first and says so afterwards; only the first word counts.
PopupListens(a) ==
  /\ popup[a] = "loading" /\ popup' = Set(popup, a, "listening")
  /\ ready' = IF opener[a] \in {"waiting", "created"} THEN Set(ready, a, TRUE) ELSE ready
  /\ UNCHANGED <<opener, reloaded, dialog, create, serverVars, socket, crashes>>

\* Mutant: the session is posted as soon as it is created.
HandsOverAtOnce(a) == opener[a] = "created"
HandsOver(a) == opener[a] = "created" /\ ready[a]

Handover(a) ==
  /\ HandsOver(a) /\ opener' = Set(opener, a, "done")
  /\ popup' = IF popup[a] = "listening" THEN Set(popup, a, "showing") ELSE popup
  /\ UNCHANGED <<ready, reloaded, dialog, create, serverVars, socket, crashes>>

\* The user reloads or closes the window, or closes the dialog.
ReloadPopup(a) ==
  /\ popup[a] \in {"listening", "showing"} /\ ~reloaded[a]
  /\ popup' = Set(popup, a, "loading") /\ reloaded' = Set(reloaded, a, TRUE)
  /\ UNCHANGED <<opener, ready, dialog, create, serverVars, socket, crashes>>

UserClosesPopup(a) ==
  /\ popup[a] \in {"loading", "listening", "showing"}
  /\ popup' = Set(popup, a, "closed")
  /\ UNCHANGED <<opener, ready, reloaded, dialog, create, serverVars, socket, crashes>>

CloseDialog ==
  /\ dialog # NoAttempt /\ dialog' = NoAttempt
  /\ UNCHANGED <<opener, ready, popup, reloaded, create, serverVars, socket, crashes>>

\* The effect of the terminal runs twice, that of VNC is given up the first time.
Shown(a) == dialog = a \/ popup[a] = "showing"
Connect(a, k) ==
  /\ Shown(a) /\ At(a, k, "none")
  /\ k = 2 => a \in InPage /\ ~At(a, 1, "none")
  /\ Move(a, k, "connecting")
  /\ UNCHANGED <<browserVars, create, serverVars, crashes>>

---------------------------------------------------------------------------

Init ==
  /\ opener = [a \in Attempts |-> "idle"] /\ ready = [a \in Attempts |-> FALSE]
  /\ popup = [a \in Attempts |-> "none"] /\ reloaded = [a \in Attempts |-> FALSE]
  /\ dialog = NoAttempt /\ create = [a \in Attempts |-> "none"]
  /\ row = [a \in Attempts |-> "absent"] /\ expired = [a \in Attempts |-> FALSE]
  /\ target = [a \in Attempts |-> FALSE] /\ born = [a \in Attempts |-> 0]
  /\ socket = [a \in Attempts |-> [k \in Presentations |-> "none"]] /\ crashes = 0
  /\ unsaved = [a \in Attempts |-> FALSE]

\* What happens by itself, and what users, clocks and faults do.
CreateStep(a) == InsertSession(a) \/ PutTarget(a) \/ AuditCreated(a)
OpenerStep(a) == Created(a) \/ CreateFails(a) \/ PopupTimesOut(a) \/ Handover(a)
SocketStep(a, k) == ConsumeTicket(a, k) \/ Take(a, k) \/ Accept(a, k) \/ EndProxy(a, k)
UserStep(a) == Open(a) \/ PopupListens(a) \/ ReloadPopup(a) \/ UserClosesPopup(a)

Next ==
  \/ \E a \in Attempts : \/ CreateStep(a) \/ OpenerStep(a) \/ UserStep(a) \/ Expire(a)
                         \/ \E k \in Presentations : SocketStep(a, k) \/ Connect(a, k)
  \/ CloseDialog \/ Crash

Spec == Init /\ [][Next]_vars

\* The server works on its calls, timers fire, a proxied session ends by its
\* idle and absolute limits at the latest.
FairSpec ==
  /\ Spec
  /\ \A a \in Attempts : /\ WF_vars(CreateStep(a)) /\ WF_vars(OpenerStep(a))
                         /\ \A k \in Presentations : WF_vars(SocketStep(a, k))

---------------------------------------------------------------------------
(* Properties *)

\* The variables keep their types; a target is kept for the unused ticket of a
\* session and for nothing else, through failures and restarts (service.go:151).
ConsoleTypeOK ==
  /\ opener \in [Attempts -> Openers] /\ ready \in [Attempts -> BOOLEAN]
  /\ popup \in [Attempts -> Popups] /\ reloaded \in [Attempts -> BOOLEAN]
  /\ dialog \in InPage \cup {NoAttempt} /\ create \in [Attempts -> Creates]
  /\ row \in [Attempts -> Results] /\ expired \in [Attempts -> BOOLEAN]
  /\ {target, unsaved} \subseteq [Attempts -> BOOLEAN] /\ born \in [Attempts -> 0..crashes]
  /\ socket \in [Attempts -> [Presentations -> Sockets]] /\ crashes \in 0..MaxCrashes
  /\ \A a \in Attempts : target[a] => row[a] \in {"pending", "active"}

\* A console that is being proxied has an open row: presenting its ticket again
\* is refused and neither opens a second console nor closes the row of the
\* first (ConsumeTicket; websocket.go:63-68 would close it).
RunningStaysActive ==
  \A a \in Attempts :
    LET running == {k \in Presentations : At(a, k, "proxying")} IN
    running # {} => row[a] = "active" /\ Cardinality(running) = 1

\* A ticket handed out before a restart opens no console after it
\* (docs/console.md:9; the row is valid, the target is gone).
RestartEndsTickets ==
  [][\A a \in Attempts, k \in Presentations :
       ~At(a, k, "proxying") /\ socket'[a][k] = "proxying" => born[a] = crashes]_vars

\* A session that was handed over is shown in its window, whichever of the two
\* was faster, unless the user has closed or reloaded it (api.ts:30-31).
HandoverReachesPopup ==
  \A a \in InWindow : opener[a] = "done" => popup[a] \in {"showing", "closed"} \/ reloaded[a]

\* A press of a console button comes to an end, although the window may be
\* closed or stay at the login page (the timer of api.ts:18).
AttemptEnds ==
  \A a \in Attempts : opener[a] = "waiting" ~> opener[a] \in {"done", "failed"}

\* A console that was proxied ends, and although its client left it is closed in
\* the database (the context of websocket.go:80) but for two reasons: the server
\* stopped meanwhile, or the database refused the one statement that closes it.
ProxiedSessionCloses ==
  \A a \in Attempts, k \in Presentations :
    At(a, k, "proxying") ~> Closed(a) \/ unsaved[a] \/ crashes > born[a]
=============================================================================
