--------------------------- MODULE WebConsoleProofs ---------------------------
(***************************************************************************)
(* Proofs about WebConsole, for any number of attempts and restarts.  What  *)
(* is known of an attempt (AttemptOK) speaks of this attempt alone; but for *)
(* a restart a step changes one attempt.                                    *)
(***************************************************************************)
EXTENDS WebConsole, FiniteSetTheorems, TLAPS

Types ==
  /\ opener \in [Attempts -> Openers] /\ ready \in [Attempts -> BOOLEAN]
  /\ popup \in [Attempts -> Popups] /\ reloaded \in [Attempts -> BOOLEAN]
  /\ dialog \in InPage \cup {NoAttempt} /\ create \in [Attempts -> Creates]
  /\ row \in [Attempts -> Results] /\ expired \in [Attempts -> BOOLEAN]
  /\ {target, unsaved} \subseteq [Attempts -> BOOLEAN] /\ born \in [Attempts -> 0..crashes]
  /\ socket \in [Attempts -> [Presentations -> Sockets]] /\ crashes \in 0..MaxCrashes

InUse(a, k) == socket[a][k] \in {"consumed", "taken", "proxying"}

\* Promise, window and dialog; nothing is shown of a session not created.
BrowserOK(a) ==
  /\ opener[a] = "idle" => ~ready[a] /\ popup[a] = "none" /\ create[a] = "none"
  /\ opener[a] \in {"created", "done"} => create[a] = "ok"
  /\ dialog = a \/ popup[a] = "showing" => create[a] = "ok"
  /\ ready[a] /\ opener[a] \in {"waiting", "created"} =>
       popup[a] \in {"listening", "closed"} \/ reloaded[a]
  /\ a \in InWindow /\ opener[a] = "done" =>
       popup[a] \in {"showing", "closed"} \/ reloaded[a]

\* Row, target and tickets: one presentation of the ticket at most has got
\* past the row, the target is gone when it has been taken, and whoever took it
\* belongs to the run of the server that put it.
SessionOK(a) ==
  /\ create[a] \in {"none", "sent"} => row[a] = "absent"
  /\ create[a] \in {"inserted", "put"} => row[a] = "pending"
  /\ target[a] => /\ create[a] \in {"put", "ok"} /\ row[a] \in {"pending", "active"}
                  /\ born[a] = crashes
  /\ create[a] = "inserted" => born[a] = crashes
  /\ \A k \in Presentations :
       /\ socket[a][k] # "none" => create[a] = "ok"
       /\ InUse(a, k) => row[a] = "active"
       /\ socket[a][k] \in {"taken", "proxying"} => ~target[a]
       /\ socket[a][k] = "taken" => born[a] = crashes
  /\ \A k, l \in Presentations : InUse(a, k) /\ InUse(a, l) => k = l

AttemptOK(a) == BrowserOK(a) /\ SessionOK(a)

Inv == Types /\ \A a \in Attempts : AttemptOK(a)

-----------------------------------------------------------------------------

\* Nothing was opened yet.
LEMMA InitInv == Init => Inv
<1>. SUFFICES ASSUME Init PROVE Inv
  OBVIOUS
<1>1. Types
  <2>1. crashes = 0 /\ 0 \in 0..MaxCrashes /\ 0 \in 0..0
    BY BoundsAssumption DEF Init
  <2>2. socket \in [Attempts -> [Presentations -> Sockets]]
    BY DEF Init, Sockets
  <2>3. born \in [Attempts -> 0..crashes]
    BY <2>1 DEF Init
  <2>. QED
    BY <2>1, <2>2, <2>3 DEF Init, Types, Openers, Popups, Creates, Results
<1>2. ASSUME NEW a \in Attempts PROVE AttemptOK(a)
  BY AttemptsAssumption DEF Init, AttemptOK, BrowserOK, SessionOK, InUse
<1>. QED
  BY <1>1, <1>2 DEF Inv

\* A step that leaves an attempt alone.
Same(b) ==
  /\ opener'[b] = opener[b] /\ ready'[b] = ready[b] /\ popup'[b] = popup[b]
  /\ reloaded'[b] = reloaded[b] /\ create'[b] = create[b] /\ row'[b] = row[b]
  /\ target'[b] = target[b] /\ born'[b] = born[b] /\ socket'[b] = socket[b]
  /\ dialog' = b => dialog = b

\* It is enough to look at the attempt that takes the step.
LEMMA OneAttempt ==
  ASSUME Inv, NEW a \in Attempts, Types', crashes' = crashes,
         \A b \in Attempts \ {a} : Same(b), AttemptOK(a)'
  PROVE  Inv'
<1>1. ASSUME NEW b \in Attempts \ {a} PROVE AttemptOK(b)'
  BY <1>1 DEF Inv, Same, AttemptOK, BrowserOK, SessionOK, InUse
<1>. QED
  BY <1>1 DEF Inv

-----------------------------------------------------------------------------
(* CreateEmbedded *)

\* The row of a session is inserted while nobody has its ticket.
LEMMA InsertSessionStep ==
  ASSUME Inv, NEW a \in Attempts, InsertSession(a)
  PROVE  Inv'
<1>1. Types /\ AttemptOK(a) /\ create[a] = "sent" /\ crashes' = crashes
      /\ UNCHANGED <<browserVars, expired, target, unsaved, socket, crashes>>
  BY DEF InsertSession, Inv
<1>2. crashes \in 0..crashes
  BY <1>1, BoundsAssumption DEF Types
<1>3. CASE create' = Set(create, a, "error") /\ UNCHANGED <<row, born>>
  <2>1. Types'
    BY <1>1, <1>3 DEF Types, Set, Creates, browserVars
  <2>2. AttemptOK(a)'
    BY <1>1, <1>3 DEF Types, Set, AttemptOK, BrowserOK, SessionOK, InUse, browserVars
  <2>3. \A b \in Attempts \ {a} : Same(b)
    BY <1>1, <1>3 DEF Types, Set, Same, browserVars
  <2>. QED
    BY <1>1, <2>1, <2>2, <2>3, OneAttempt
<1>4. CASE create' = Set(create, a, "inserted") /\ row' = Set(row, a, "pending")
           /\ born' = Set(born, a, crashes)
  <2>1. Types'
    BY <1>1, <1>2, <1>4 DEF Types, Set, Creates, Results, browserVars
  <2>2. AttemptOK(a)'
    BY <1>1, <1>4 DEF Types, Set, AttemptOK, BrowserOK, SessionOK, InUse, browserVars
  <2>3. \A b \in Attempts \ {a} : Same(b)
    BY <1>1, <1>4 DEF Types, Set, Same, browserVars
  <2>. QED
    BY <1>1, <2>1, <2>2, <2>3, OneAttempt
<1>. QED
  BY <1>3, <1>4 DEF InsertSession

\* The target is put for the pending row, in this run of the server.
LEMMA PutTargetStep ==
  ASSUME Inv, NEW a \in Attempts, PutTarget(a)
  PROVE  Inv'
<1>1. Types /\ AttemptOK(a) /\ create[a] = "inserted" /\ crashes' = crashes
      /\ create' = Set(create, a, "put") /\ target' = Set(target, a, TRUE)
      /\ UNCHANGED <<browserVars, row, expired, born, unsaved, socket, crashes>>
  BY DEF PutTarget, Inv
<1>2. Types'
  BY <1>1 DEF Types, Set, Creates, browserVars
<1>3. AttemptOK(a)'
  BY <1>1 DEF Types, Set, AttemptOK, BrowserOK, SessionOK, InUse, browserVars
<1>4. \A b \in Attempts \ {a} : Same(b)
  BY <1>1 DEF Types, Set, Same, browserVars
<1>. QED
  BY <1>1, <1>2, <1>3, <1>4, OneAttempt

\* The session is handed out, or its target is removed.
LEMMA AuditCreatedStep ==
  ASSUME Inv, NEW a \in Attempts, AuditCreated(a)
  PROVE  Inv'
<1>1. Types /\ AttemptOK(a) /\ create[a] = "put" /\ crashes' = crashes
      /\ UNCHANGED <<browserVars, expired, born, unsaved, socket, crashes>>
  BY DEF AuditCreated, Inv
<1>2. CASE create' = Set(create, a, "ok") /\ UNCHANGED <<row, target>>
  <2>1. Types'
    BY <1>1, <1>2 DEF Types, Set, Creates, browserVars
  <2>2. AttemptOK(a)'
    BY <1>1, <1>2 DEF Types, Set, AttemptOK, BrowserOK, SessionOK, InUse, browserVars
  <2>3. \A b \in Attempts \ {a} : Same(b)
    BY <1>1, <1>2 DEF Types, Set, Same, browserVars
  <2>. QED
    BY <1>1, <2>1, <2>2, <2>3, OneAttempt
<1>3. CASE create' = Set(create, a, "error") /\ target' = Set(target, a, FALSE)
           /\ row' \in {row, Set(row, a, "failed")}
  <2>1. Types'
    BY <1>1, <1>3 DEF Types, Set, Creates, Results, browserVars
  <2>2. AttemptOK(a)'
    BY <1>1, <1>3 DEF Types, Set, AttemptOK, BrowserOK, SessionOK, InUse, browserVars
  <2>3. \A b \in Attempts \ {a} : Same(b)
    BY <1>1, <1>3 DEF Types, Set, Same, browserVars
  <2>. QED
    BY <1>1, <2>1, <2>2, <2>3, OneAttempt
<1>. QED
  BY <1>2, <1>3 DEF AuditCreated, TargetDeleted

\* An expired row keeps its result.
LEMMA ExpireStep ==
  ASSUME Inv, NEW a \in Attempts, Expire(a)
  PROVE  Inv'
<1>1. Types /\ AttemptOK(a) /\ crashes' = crashes /\ expired' = Set(expired, a, TRUE)
      /\ UNCHANGED <<browserVars, create, row, target, born, unsaved, socket, crashes>>
  BY DEF Expire, Inv
<1>2. Types'
  BY <1>1 DEF Types, Set, browserVars
<1>3. AttemptOK(a)'
  BY <1>1 DEF AttemptOK, BrowserOK, SessionOK, InUse, browserVars
<1>4. \A b \in Attempts \ {a} : Same(b)
  BY <1>1 DEF Same, browserVars
<1>. QED
  BY <1>1, <1>2, <1>3, <1>4, OneAttempt

-----------------------------------------------------------------------------
(* WebSocketGateway and restarts *)

\* What a move of a handler does to the two presentations.
LEMMA Moved ==
  ASSUME Types, NEW a \in Attempts, NEW k \in Presentations, NEW state \in Sockets,
         Move(a, k, state)
  PROVE  /\ socket' \in [Attempts -> [Presentations -> Sockets]]
         /\ socket'[a][k] = state
         /\ \A l \in Presentations \ {k} : socket'[a][l] = socket[a][l]
         /\ \A b \in Attempts \ {a} : socket'[b] = socket[b]
BY DEF Types, Move

\* A handler that has got past the row may close it; nobody else has.
LEMMA HandlerStep ==
  ASSUME Inv, NEW a \in Attempts, NEW k \in Presentations, InUse(a, k),
         NEW state \in Sockets \ {"none", "connecting", "consumed"}, Move(a, k, state),
         UNCHANGED <<browserVars, create, expired, born, crashes>>,
         unsaved' \in {unsaved, Set(unsaved, a, TRUE)},
         target' \in {target, Set(target, a, FALSE)},
         \E r \in Results : row' \in {row, Set(row, a, r)},
         state \in {"taken", "proxying"} => row' = row /\ ~target'[a],
         state = "taken" => born[a] = crashes,
         state = "ended" => ~target'[a]
  PROVE  Inv'
<1>1. Types /\ AttemptOK(a) /\ create[a] = "ok" /\ row[a] = "active"
  BY DEF Inv, AttemptOK, SessionOK, InUse
<1>2. PICK r \in Results : row' \in {row, Set(row, a, r)}
  OBVIOUS
<1>3. \A l \in Presentations : InUse(a, l) => l = k
  BY <1>1 DEF AttemptOK, SessionOK
<1>4. Types'
  <2>1. row' \in [Attempts -> Results]
    BY <1>1, <1>2 DEF Types, Set
  <2>3. target' \in [Attempts -> BOOLEAN]
    BY <1>1 DEF Types, Set
  <2>4. unsaved' \in [Attempts -> BOOLEAN]
    BY <1>1 DEF Types, Set
  <2>2. socket' \in [Attempts -> [Presentations -> Sockets]]
    BY <1>1, Moved
  <2>. QED
    BY <1>1, <2>1, <2>2, <2>3, <2>4 DEF Types, browserVars
<1>5. BrowserOK(a)'
  BY <1>1 DEF AttemptOK, BrowserOK, browserVars
<1>6. ASSUME NEW l \in Presentations
      PROVE  /\ InUse(a, l)' => l = k /\ state \in {"taken", "proxying"}
             /\ socket'[a][l] = "taken" => l = k /\ state = "taken"
             /\ socket'[a][l] \in {"taken", "proxying"} => l = k
  BY <1>1, <1>3, Moved DEF InUse
<1>7. target'[a] => FALSE
  BY DEF Sockets
<1>8. SessionOK(a)'
  BY <1>1, <1>6, <1>7 DEF SessionOK, AttemptOK, InUse
<1>9. \A b \in Attempts \ {a} : Same(b)
  BY <1>1, <1>2, Moved DEF Types, Set, Same, browserVars
<1>. QED
  BY <1>4, <1>5, <1>8, <1>9, OneAttempt DEF AttemptOK

\* Only the first presentation finds the row pending.
LEMMA ConsumeTicketStep ==
  ASSUME Inv, NEW a \in Attempts, NEW k \in Presentations, ConsumeTicket(a, k)
  PROVE  Inv'
<1>1. Types /\ AttemptOK(a) /\ socket[a][k] = "connecting" /\ create[a] = "ok"
      /\ UNCHANGED <<browserVars, create, expired, target, born, unsaved, crashes>>
  BY DEF ConsumeTicket, At, Inv, AttemptOK, SessionOK
<1>2. BrowserOK(a)'
  BY <1>1 DEF AttemptOK, BrowserOK, browserVars
<1>3. CASE Unused(a) /\ row' = Set(row, a, "active") /\ Move(a, k, "consumed")
  <2>1. row[a] = "pending" /\ \A l \in Presentations : ~InUse(a, l)
    BY <1>1, <1>3 DEF Unused, AttemptOK, SessionOK
  <2>2. Types'
    BY <1>1, <1>3, Moved DEF Types, Set, Results, Sockets, browserVars
  <2>3. "consumed" \in Sockets /\ row'[a] = "active"
    BY <1>1, <1>3 DEF Sockets, Types, Set
  <2>4. \A l \in Presentations : InUse(a, l)' => l = k
    BY <1>1, <1>3, <2>1, <2>3, Moved DEF InUse
  <2>5. \A l \in Presentations : socket'[a][l] \notin {"taken", "proxying"}
    BY <1>1, <1>3, <2>1, <2>3, Moved DEF InUse
  <2>6. SessionOK(a)'
    BY <1>1, <2>3, <2>4, <2>5 DEF AttemptOK, SessionOK
  <2>7. \A b \in Attempts \ {a} : Same(b)
    BY <1>1, <1>3, <2>3, Moved DEF Types, Set, Same, browserVars
  <2>. QED
    BY <1>1, <1>2, <2>2, <2>6, <2>7, OneAttempt DEF AttemptOK
<1>4. CASE Move(a, k, "ended") /\ UNCHANGED row
  <2>1. "ended" \in Sockets
    BY DEF Sockets
  <2>2. Types'
    BY <1>1, <1>4, <2>1, Moved DEF Types, browserVars
  <2>3. \A l \in Presentations : socket'[a][l] = socket[a][l] \/ socket'[a][l] = "ended"
    BY <1>1, <1>4, <2>1, Moved
  <2>4. SessionOK(a)'
    BY <1>1, <1>4, <2>3 DEF AttemptOK, SessionOK, InUse
  <2>5. \A b \in Attempts \ {a} : Same(b)
    BY <1>1, <1>4, <2>1, Moved DEF Same, browserVars
  <2>. QED
    BY <1>1, <1>2, <2>2, <2>4, <2>5, OneAttempt DEF AttemptOK
<1>. QED
  BY <1>3, <1>4 DEF ConsumeTicket

\* Closing writes a result at most.
LEMMA Closing ==
  ASSUME Types, NEW a \in Attempts, CloseForRequest(a) \/ CloseAlways(a)
  PROVE  \E r \in Results : row' \in {row, Set(row, a, r)}
<1>1. row[a] \in Results /\ {"completed", "failed"} \subseteq Results
  BY DEF Types, Results
<1>. QED
  BY <1>1 DEF CloseForRequest, CloseAlways, CloseRow

\* The target goes with the one who takes it.
LEMMA TakeStep ==
  ASSUME Inv, NEW a \in Attempts, NEW k \in Presentations, Take(a, k)
  PROVE  Inv'
<1>1. Types /\ AttemptOK(a) /\ InUse(a, k) /\ target' = Set(target, a, FALSE)
      /\ UNCHANGED <<browserVars, create, expired, born, unsaved, crashes>>
  BY DEF Take, At, Inv, InUse
<1>2. ~target'[a] /\ {"taken", "ended"} \subseteq Sockets \ {"none", "connecting", "consumed"}
  BY <1>1 DEF Types, Set, Sockets
<1>3. CASE HasTarget(a)
  <2>1. Move(a, k, "taken") /\ row' = row /\ born[a] = crashes /\ row[a] \in Results
    BY <1>1, <1>3 DEF Take, HasTarget, AttemptOK, SessionOK, Types
  <2>. QED
    BY <1>1, <1>2, <2>1, HandlerStep
<1>4. CASE ~HasTarget(a)
  <2>1. Move(a, k, "ended") /\ \E r \in Results : row' \in {row, Set(row, a, r)}
    BY <1>1, <1>4, Closing DEF Take
  <2>. QED
    BY <1>1, <1>2, <2>1, HandlerStep
<1>. QED
  BY <1>3, <1>4

\* The console runs, or its row is closed.
LEMMA AcceptStep ==
  ASSUME Inv, NEW a \in Attempts, NEW k \in Presentations, Accept(a, k)
  PROVE  Inv'
<1>1. Types /\ AttemptOK(a) /\ InUse(a, k) /\ ~target[a]
      /\ UNCHANGED <<browserVars, create, expired, target, born, unsaved, crashes>>
  BY DEF Accept, At, Inv, InUse, AttemptOK, SessionOK
<1>2. {"proxying", "ended"} \subseteq Sockets \ {"none", "connecting", "consumed"}
  BY DEF Sockets
<1>3. CASE Move(a, k, "proxying") /\ UNCHANGED row
  <2>1. row[a] \in Results
    BY <1>1 DEF Types
  <2>. QED
    BY <1>1, <1>2, <1>3, <2>1, HandlerStep
<1>4. CASE Move(a, k, "ended") /\ CloseForRequest(a)
  <2>1. \E r \in Results : row' \in {row, Set(row, a, r)}
    BY <1>1, <1>4, Closing
  <2>. QED
    BY <1>1, <1>2, <1>4, <2>1, HandlerStep
<1>. QED
  BY <1>3, <1>4 DEF Accept

\* A console that ended leaves nothing in use.
LEMMA EndProxyStep ==
  ASSUME Inv, NEW a \in Attempts, NEW k \in Presentations, EndProxy(a, k)
  PROVE  Inv'
<1>1. Types /\ AttemptOK(a) /\ InUse(a, k) /\ ~target[a] /\ Move(a, k, "ended")
      /\ UNCHANGED <<browserVars, create, expired, target, born, crashes>>
      /\ unsaved' \in {unsaved, Set(unsaved, a, TRUE)}
  BY DEF EndProxy, CloseAlways, At, Inv, InUse, AttemptOK, SessionOK
<1>2. "ended" \in Sockets \ {"none", "connecting", "consumed"}
  BY DEF Sockets
<1>3. \E r \in Results : row' \in {row, Set(row, a, r)}
  BY <1>1, Closing DEF EndProxy
<1>. QED
  BY <1>1, <1>2, <1>3, HandlerStep

\* Memory and handlers are lost: no target is left from before, and no handler.
LEMMA CrashStep ==
  ASSUME Inv, Crash
  PROVE  Inv'
<1>1. Types /\ crashes' = crashes + 1 /\ crashes < MaxCrashes
      /\ UNCHANGED <<browserVars, row, expired, born, unsaved>>
  BY DEF Crash, Inv
<1>2. crashes' \in 0..MaxCrashes /\ 0..crashes \subseteq 0..crashes'
  BY <1>1, BoundsAssumption DEF Types
<1>3. ASSUME NEW a \in Attempts
      PROVE  /\ ~target'[a] /\ target'[a] \in BOOLEAN /\ create'[a] \in Creates
             /\ create'[a] = IF create[a] \in {"sent", "inserted", "put"} THEN "error" ELSE create[a]
             /\ \A k \in Presentations :
                  socket'[a][k] = IF socket[a][k] = "none" THEN "none" ELSE "ended"
  BY <1>1 DEF Crash, At, Types, Creates
<1>4. Types'
  <2>1. create' \in [Attempts -> Creates] /\ target' \in [Attempts -> BOOLEAN]
    <3>1. create' = [a \in Attempts |-> create'[a]] /\ target' = [a \in Attempts |-> target'[a]]
      BY DEF Crash
    <3>. QED
      BY <1>3, <3>1
  <2>2. socket' \in [Attempts -> [Presentations -> Sockets]]
    BY DEF Crash, Sockets
  <2>3. born' \in [Attempts -> 0..crashes']
    BY <1>1, <1>2 DEF Types
  <2>. QED
    BY <1>1, <1>2, <2>1, <2>2, <2>3 DEF Types, browserVars
<1>5. ASSUME NEW a \in Attempts PROVE AttemptOK(a)'
  <2>1. AttemptOK(a)
    BY DEF Inv
  <2>2. \A k \in Presentations : ~InUse(a, k)' /\ (socket'[a][k] # "none" => socket[a][k] # "none")
                                 /\ socket'[a][k] \notin {"taken", "proxying"}
    BY <1>3 DEF InUse
  <2>3. BrowserOK(a)'
    BY <1>1, <1>3, <2>1 DEF AttemptOK, BrowserOK, browserVars
  <2>4. SessionOK(a)'
    BY <1>1, <1>3, <2>1, <2>2 DEF AttemptOK, SessionOK
  <2>. QED
    BY <2>3, <2>4 DEF AttemptOK
<1>. QED
  BY <1>4, <1>5 DEF Inv

-----------------------------------------------------------------------------
(* The browser *)

\* A button is pressed.
LEMMA OpenStep ==
  ASSUME Inv, NEW a \in Attempts, Open(a)
  PROVE  Inv'
<1>1. Types /\ AttemptOK(a) /\ opener[a] = "idle" /\ crashes' = crashes
      /\ \/ /\ opener' = Set(opener, a, "waiting") /\ create' = Set(create, a, "sent")
            /\ popup' \in {popup, Set(popup, a, "loading")}
         \/ opener' = Set(opener, a, "failed") /\ UNCHANGED <<create, popup>>
      /\ UNCHANGED <<ready, reloaded, dialog, serverVars, socket, crashes>>
  BY DEF Open, Inv
<1>2. Types'
  BY <1>1 DEF Types, Set, Openers, Creates, Popups, serverVars
<1>3. AttemptOK(a)'
  BY <1>1 DEF Types, Set, AttemptOK, BrowserOK, SessionOK, InUse, serverVars
<1>4. \A b \in Attempts \ {a} : Same(b)
  BY <1>1 DEF Types, Set, Same, serverVars
<1>. QED
  BY <1>1, <1>2, <1>3, <1>4, OneAttempt

\* A step of promise, window or dialog of one attempt, the server untouched.
LEMMA BrowserStep ==
  ASSUME Inv, NEW a \in Attempts, UNCHANGED <<create, serverVars, socket, crashes>>,
         NEW o \in Openers, NEW p \in Popups, NEW said \in BOOLEAN, NEW again \in BOOLEAN,
         opener' = Set(opener, a, o), popup' = Set(popup, a, p),
         ready' = Set(ready, a, said), reloaded' = Set(reloaded, a, again),
         dialog' \in {dialog, NoAttempt} \/ (dialog' = a /\ a \in InPage),
         BrowserOK(a)'
  PROVE  Inv'
<1>1. Types /\ AttemptOK(a)
  BY DEF Inv
<1>2. Types'
  BY <1>1 DEF Types, Set, serverVars
<1>3. SessionOK(a)'
  BY <1>1 DEF AttemptOK, SessionOK, InUse, serverVars
<1>4. \A b \in Attempts \ {a} : Same(b)
  BY <1>1, AttemptsAssumption DEF Types, Set, Same, serverVars
<1>. QED
  BY <1>2, <1>3, <1>4, OneAttempt DEF AttemptOK

\* What it is to set a function where it is that already, and elsewhere.
LEMMA SetFacts ==
  ASSUME NEW S, NEW f \in [Attempts -> S], NEW a \in Attempts, NEW v
  PROVE  f = Set(f, a, f[a]) /\ Set(f, a, v)[a] = v
BY DEF Set

\* Promise, window and dialog of an attempt.
LEMMA Values ==
  ASSUME Inv, NEW a \in Attempts
  PROVE  /\ opener[a] \in Openers /\ opener = Set(opener, a, opener[a])
         /\ popup[a] \in Popups /\ popup = Set(popup, a, popup[a])
         /\ ready[a] \in BOOLEAN /\ ready = Set(ready, a, ready[a])
         /\ reloaded[a] \in BOOLEAN /\ reloaded = Set(reloaded, a, reloaded[a])
         /\ \A v : /\ Set(opener, a, v)[a] = v /\ Set(popup, a, v)[a] = v
                   /\ Set(ready, a, v)[a] = v /\ Set(reloaded, a, v)[a] = v
         /\ BrowserOK(a) /\ (dialog # a \/ a \in InPage)
<1>1. opener \in [Attempts -> Openers] /\ popup \in [Attempts -> Popups]
      /\ ready \in [Attempts -> BOOLEAN] /\ reloaded \in [Attempts -> BOOLEAN]
  BY DEF Inv, Types
<1>2. opener = Set(opener, a, opener[a]) /\ \A v : Set(opener, a, v)[a] = v
  BY <1>1, SetFacts
<1>3. popup = Set(popup, a, popup[a]) /\ \A v : Set(popup, a, v)[a] = v
  BY <1>1, SetFacts
<1>4. ready = Set(ready, a, ready[a]) /\ \A v : Set(ready, a, v)[a] = v
  BY <1>1, SetFacts
<1>5. reloaded = Set(reloaded, a, reloaded[a]) /\ \A v : Set(reloaded, a, v)[a] = v
  BY <1>1, SetFacts
<1>6. BrowserOK(a)
  BY DEF Inv, AttemptOK
<1>7. dialog # a \/ a \in InPage
  BY AttemptsAssumption DEF Inv, Types
<1>. QED
  BY <1>1, <1>2, <1>3, <1>4, <1>5, <1>6, <1>7

\* The promise goes on: created, rejected or handed over.
LEMMA OpenerInv ==
  ASSUME Inv, NEW a \in Attempts, OpenerStep(a)
  PROVE  Inv'
<1>1. {"created", "done", "failed"} \subseteq Openers /\ {"showing", "closed"} \subseteq Popups
  BY DEF Openers, Popups
<1>2. CASE Created(a)
  <2>1. opener[a] = "waiting" /\ create[a] = "ok"
        /\ UNCHANGED <<ready, popup, reloaded, create, serverVars, socket, crashes>>
    BY <1>2 DEF Created
  <2>2. PICK o \in {"created", "done"} :
          /\ opener' = Set(opener, a, o)
          /\ o = "done" => a \in InPage
          /\ dialog' = dialog \/ (dialog' = a /\ a \in InPage)
    BY <1>2 DEF Created
  <2>3. opener'[a] = o
    BY <2>2, Values
  <2>4. BrowserOK(a)'
    BY <2>1, <2>2, <2>3, Values, AttemptsAssumption DEF BrowserOK
  <2>. QED
    BY <1>1, <2>1, <2>2, <2>4, Values, BrowserStep
<1>3. CASE CreateFails(a) \/ PopupTimesOut(a)
  <2>1. Reject(a) /\ opener[a] # "idle"
    BY <1>3 DEF CreateFails, PopupTimesOut
  <2>2. PICK p \in Popups :
          popup' = Set(popup, a, p) /\ p \in {popup[a], "closed"}
    BY <1>1, <2>1, Values DEF Reject, ClosePopup
  <2>3. opener' = Set(opener, a, "failed")
        /\ UNCHANGED <<ready, reloaded, dialog, create, serverVars, socket, crashes>>
    BY <2>1 DEF Reject
  <2>4. opener'[a] = "failed" /\ popup'[a] = p
    BY <2>2, <2>3, Values
  <2>5. BrowserOK(a)'
    BY <2>2, <2>3, <2>4, Values DEF BrowserOK
  <2>. QED
    BY <1>1, <2>2, <2>3, <2>5, Values, BrowserStep
<1>4. CASE Handover(a)
  <2>1. opener[a] = "created" /\ ready[a] /\ opener' = Set(opener, a, "done")
        /\ UNCHANGED <<ready, reloaded, dialog, create, serverVars, socket, crashes>>
    BY <1>4 DEF Handover, HandsOver
  <2>2. PICK p \in Popups : popup' = Set(popup, a, p)
                            /\ p = IF popup[a] = "listening" THEN "showing" ELSE popup[a]
    BY <1>1, <1>4, Values DEF Handover
  <2>3. opener'[a] = "done" /\ popup'[a] = p
    BY <2>1, <2>2, Values
  <2>4. BrowserOK(a)'
    BY <2>1, <2>2, <2>3, Values DEF BrowserOK
  <2>. QED
    BY <1>1, <2>1, <2>2, <2>4, Values, BrowserStep
<1>. QED
  BY <1>2, <1>3, <1>4 DEF OpenerStep

\* The window listens, is reloaded or closed.
LEMMA WindowInv ==
  ASSUME Inv, NEW a \in Attempts, PopupListens(a) \/ ReloadPopup(a) \/ UserClosesPopup(a)
  PROVE  Inv'
<1>1. UNCHANGED <<opener, dialog, create, serverVars, socket, crashes>>
  BY DEF PopupListens, ReloadPopup, UserClosesPopup
<1>2. PICK p \in Popups, said \in BOOLEAN, again \in BOOLEAN :
        /\ popup' = Set(popup, a, p) /\ ready' = Set(ready, a, said)
        /\ reloaded' = Set(reloaded, a, again)
        /\ p \in {"listening", "loading", "closed"}
        /\ popup[a] \in {"loading", "listening", "showing"}
        /\ said => ready[a] \/ p = "listening"
        /\ (reloaded[a] \/ p = "loading") => again
        /\ p = "listening" => popup[a] = "loading"
        /\ (ready[a] => said)
  <2>1. {"listening", "loading", "closed"} \subseteq Popups
    BY DEF Popups
  <2>2. CASE PopupListens(a)
    <3>1. popup' = Set(popup, a, "listening") /\ popup[a] = "loading" /\ reloaded' = reloaded
          /\ ready' \in {ready, Set(ready, a, TRUE)}
      BY <2>2 DEF PopupListens
    <3>. QED
      BY <2>1, <3>1, Values
  <2>3. CASE ReloadPopup(a)
    <3>1. popup' = Set(popup, a, "loading") /\ popup[a] \in {"listening", "showing"}
          /\ ready' = ready /\ reloaded' = Set(reloaded, a, TRUE)
      BY <2>3 DEF ReloadPopup
    <3>. QED
      BY <2>1, <3>1, Values
  <2>4. CASE UserClosesPopup(a)
    <3>1. popup' = Set(popup, a, "closed") /\ popup[a] \in {"loading", "listening", "showing"}
          /\ ready' = ready /\ reloaded' = reloaded
      BY <2>4 DEF UserClosesPopup
    <3>. QED
      BY <2>1, <3>1, Values
  <2>. QED
    BY <2>2, <2>3, <2>4
<1>3. popup'[a] = p /\ ready'[a] = said /\ reloaded'[a] = again
  BY <1>2, Values
<1>4. BrowserOK(a)'
  BY <1>1, <1>2, <1>3, Values DEF BrowserOK
<1>. QED
  BY <1>1, <1>2, <1>4, Values, BrowserStep

\* A closed dialog shows no session.
LEMMA CloseDialogStep ==
  ASSUME Inv, CloseDialog
  PROVE  Inv'
<1>1. dialog' = NoAttempt
      /\ UNCHANGED <<opener, ready, popup, reloaded, create, serverVars, socket, crashes>>
  BY DEF CloseDialog
<1>2. Types'
  BY <1>1 DEF Inv, Types, serverVars
<1>3. \A a \in Attempts : AttemptOK(a)'
  BY <1>1, AttemptsAssumption
     DEF Inv, AttemptOK, BrowserOK, SessionOK, InUse, serverVars
<1>. QED
  BY <1>2, <1>3 DEF Inv

\* A ticket is presented only where a session is shown, so after its creation.
LEMMA ConnectStep ==
  ASSUME Inv, NEW a \in Attempts, NEW k \in Presentations, Connect(a, k)
  PROVE  Inv'
<1>1. Types /\ AttemptOK(a) /\ Shown(a) /\ Move(a, k, "connecting") /\ "connecting" \in Sockets
      /\ UNCHANGED <<browserVars, create, serverVars, crashes>>
  BY DEF Connect, Inv, Sockets
<1>2. create[a] = "ok"
  BY <1>1 DEF Shown, AttemptOK, BrowserOK
<1>3. Types'
  BY <1>1, Moved DEF Types, browserVars, serverVars
<1>4. BrowserOK(a)'
  BY <1>1 DEF AttemptOK, BrowserOK, browserVars
<1>5. \A l \in Presentations : socket'[a][l] \in {socket[a][l], "connecting"}
  BY <1>1, Moved
<1>6. SessionOK(a)'
  BY <1>1, <1>2, <1>5 DEF AttemptOK, SessionOK, InUse, serverVars
<1>7. \A b \in Attempts \ {a} : Same(b)
  BY <1>1, Moved DEF Same, browserVars, serverVars
<1>. QED
  BY <1>1, <1>3, <1>4, <1>6, <1>7, OneAttempt DEF AttemptOK

-----------------------------------------------------------------------------

\* The invariant is inductive.
LEMMA NextInv == Inv /\ [Next]_vars => Inv'
<1>. SUFFICES ASSUME Inv, [Next]_vars PROVE Inv'
  OBVIOUS
<1>1. ASSUME NEW a \in Attempts, CreateStep(a) \/ Expire(a) PROVE Inv'
  BY <1>1, InsertSessionStep, PutTargetStep, AuditCreatedStep, ExpireStep DEF CreateStep
<1>2. ASSUME NEW a \in Attempts, OpenerStep(a) PROVE Inv'
  BY <1>2, OpenerInv
<1>3. ASSUME NEW a \in Attempts, UserStep(a) PROVE Inv'
  BY <1>3, OpenStep, WindowInv DEF UserStep
<1>4. ASSUME NEW a \in Attempts, NEW k \in Presentations, SocketStep(a, k) \/ Connect(a, k)
      PROVE  Inv'
  BY <1>4, ConsumeTicketStep, TakeStep, AcceptStep, EndProxyStep, ConnectStep DEF SocketStep
<1>5. CASE CloseDialog \/ Crash
  BY <1>5, CloseDialogStep, CrashStep
<1>6. CASE UNCHANGED vars
  BY <1>6 DEF vars, browserVars, serverVars, Inv, Types, AttemptOK, BrowserOK, SessionOK, InUse
<1>. QED
  BY <1>1, <1>2, <1>3, <1>4, <1>5, <1>6 DEF Next

\* Every step of windows, server and restarts keeps the invariant.
THEOREM ConsoleInvariant == Spec => []Inv
<1>. QED
  BY InitInv, NextInv, PTL DEF Spec

\* Types; a target is kept for the unused ticket of a session only
\* (service.go:151).
THEOREM ConsoleTypeCorrect == Spec => []ConsoleTypeOK
<1>1. Inv => ConsoleTypeOK
  BY DEF Inv, Types, AttemptOK, SessionOK, ConsoleTypeOK
<1>. QED
  BY <1>1, ConsoleInvariant, PTL

\* However often a ticket is presented, one console runs and its row is open
\* (ConsumeTicket).
THEOREM ConsoleRunning == Spec => []RunningStaysActive
<1>1. Inv => RunningStaysActive
  <2>. SUFFICES ASSUME Inv, NEW a \in Attempts, NEW k \in Presentations, At(a, k, "proxying")
                PROVE  /\ row[a] = "active"
                       /\ Cardinality({l \in Presentations : At(a, l, "proxying")}) = 1
    BY DEF RunningStaysActive
  <2>1. SessionOK(a)
    BY DEF Inv, AttemptOK
  <2>2. row[a] = "active" /\ \A l \in Presentations : At(a, l, "proxying") => l = k
    BY <2>1 DEF SessionOK, InUse, At
  <2>3. {l \in Presentations : At(a, l, "proxying")} = {k}
    BY <2>2
  <2>. QED
    BY <2>2, <2>3, FS_Singleton
<1>. QED
  BY <1>1, ConsoleInvariant, PTL

\* A session that was handed over is shown (api.ts:30-31).
THEOREM ConsoleHandover == Spec => []HandoverReachesPopup
<1>1. Inv => HandoverReachesPopup
  BY DEF Inv, AttemptOK, BrowserOK, HandoverReachesPopup, Attempts
<1>. QED
  BY <1>1, ConsoleInvariant, PTL

\* The targets of a server end with it: no ticket opens a console in a later run.
THEOREM ConsoleRestart == Spec => RestartEndsTickets
<1>1. Inv /\ [Next]_vars =>
        \A a \in Attempts, k \in Presentations :
          ~At(a, k, "proxying") /\ socket'[a][k] = "proxying" => born[a] = crashes
  <2>. SUFFICES ASSUME Inv, [Next]_vars, NEW a \in Attempts, NEW k \in Presentations,
                       socket[a][k] # "proxying", socket'[a][k] = "proxying",
                       born[a] # crashes
                PROVE  FALSE
    BY DEF At
  <2>1. Types /\ SessionOK(a)
    BY DEF Inv, AttemptOK
  <2>2. socket[a][k] # "taken"
    BY <2>1 DEF SessionOK
  <2>3. ASSUME NEW b \in Attempts, NEW l \in Presentations, NEW state \in Sockets \ {"proxying"},
               Move(b, l, state)
        PROVE  FALSE
    BY <2>1, <2>3, Moved
  <2>4. ASSUME NEW b \in Attempts, NEW l \in Presentations, SocketStep(b, l) \/ Connect(b, l)
        PROVE  FALSE
    <3>1. {"consumed", "ended", "taken", "connecting"} \subseteq Sockets \ {"proxying"}
          /\ "proxying" \in Sockets
      BY DEF Sockets
    <3>2. PICK state \in Sockets : Move(b, l, state) /\ (state = "proxying" => At(b, l, "taken"))
      BY <2>4, <3>1 DEF SocketStep, ConsumeTicket, Take, Accept, EndProxy, Connect
    <3>3. state = "proxying"
      BY <2>3, <3>2
    <3>. QED
      BY <2>1, <2>2, <3>2, <3>3, Moved DEF At
  <2>5. CASE Crash
    BY <2>5 DEF Crash, At
  <2>6. CASE socket' = socket
    BY <2>6
  <2>7. ASSUME NEW b \in Attempts, CreateStep(b) \/ OpenerStep(b) \/ UserStep(b) \/ Expire(b)
        PROVE  socket' = socket
    BY <2>7 DEF CreateStep, InsertSession, PutTarget, AuditCreated, OpenerStep, Created,
       CreateFails, PopupTimesOut, Reject, Handover, UserStep, Open, PopupListens, ReloadPopup,
       UserClosesPopup, Expire
  <2>. QED
    BY <2>4, <2>5, <2>6, <2>7 DEF Next, CloseDialog, vars
<1>2. Inv /\ [Next]_vars =>
        [\A a \in Attempts, k \in Presentations :
           ~At(a, k, "proxying") /\ socket'[a][k] = "proxying" => born[a] = crashes]_vars
  BY <1>1
<1>. QED
  BY <1>2, ConsoleInvariant, PTL DEF Spec, RestartEndsTickets
=============================================================================
