--------------------------- MODULE WebSessionProofs ---------------------------
(***************************************************************************)
(* Proofs about WebSession, for any tabs, any calls in flight and any       *)
(* number of logins and reloads.  A step works on one call of one tab; the  *)
(* argument is made per tab: what a tab shows agrees with the calls it has  *)
(* in flight (Screens), and a call is as far as the server says (Sound): a  *)
(* logout that succeeded has ended its session, an initialisation that got  *)
(* past the insert has made the user, and it is the only one (OneSetUp).    *)
(***************************************************************************)
EXTENDS WebSession, WellFoundedInduction, TLAPS

BootPaths == {"/setup/status", "/auth/me"}
FormPaths == {"/auth/login", "/setup/initialize"}

\* What is in flight was made of sessions that were granted.
Types ==
  /\ registered \in BOOLEAN /\ sessions \subseteq 1..granted
  /\ granted \in Logins /\ jar \in 0..granted
  /\ view \in [Tabs -> Views] /\ token \in [Tabs -> 0..granted]
  /\ pending \in [Tabs -> BOOLEAN]
  /\ calls \in [Tabs -> [Slots -> Calls]]
  /\ reloads \in 0..MaxReloads
  /\ \A t \in Tabs, c \in Slots : /\ calls[t][c].header \in 0..granted
                                  /\ calls[t][c].cookies \in {Keep} \cup 0..granted

\* A tab that boots has no other call in flight, and a form that waits is shown
\* by a tab that is not signed in.
Screens(t) ==
  /\ token[t] # NoLogin => view[t] = "authenticated"
  /\ \A c \in Slots : calls[t][c].path \in BootPaths =>
       view[t] = "loading" /\ \A d \in Slots \ {c} : calls[t][d] = NoCall
  /\ \A c \in Slots : calls[t][c].path \in FormPaths =>
       pending[t] /\ view[t] \in {"unauthenticated", "setup-required"}
  /\ pending[t] => \E c \in Slots : calls[t][c].path \in FormPaths
  /\ \A c, d \in Slots : calls[t][c].path \in FormPaths /\ calls[t][d].path \in FormPaths
                           => c = d
  /\ \A c \in Slots : calls[t][c].path = "/auth/logout" =>
       view[t] \in {"authenticated", "unauthenticated"}

\* A logout the server has carried out.
SignedOut(call) == call.path = "/auth/logout" /\ call.answer = "ok"

\* How far the server is with a call: what it admitted was for a session it had
\* granted, and a session it deleted never comes back.
Sound(call) ==
  /\ call.phase \in {"sent", "admitted"} => call.answer = "none"
  /\ call.path = "/auth/logout" /\ call.phase = "admitted" =>
       call.header = call.cookie /\ call.header \in 1..granted
  /\ SignedOut(call) => call.header \in (1..granted) \ sessions
  /\ SetUp(call) => registered

OneSetUp ==
  \A t, u \in Tabs : \A c, d \in Slots :
    SetUp(calls[t][c]) /\ SetUp(calls[u][d]) => t = u /\ c = d

Setup == ~registered => granted = 0

Inv == /\ Types /\ Setup /\ OneSetUp
       /\ \A t \in Tabs : Screens(t)
       /\ \A t \in Tabs, c \in Slots : Sound(calls[t][c])

-----------------------------------------------------------------------------

\* The least element of a set of naturals: Send uses the first free slot.
LEMMA LeastNatural ==
  ASSUME NEW S \in SUBSET Nat, S # {}
  PROVE  \E n \in S : \A m \in S : n <= m
<1>. DEFINE Less == {p \in Nat \X Nat : p[1] < p[2]}
<1>1. IsWellFoundedOn(Less, Nat)
  BY NatLessThanWellFounded DEF OpToRel
<1>. HIDE DEF Less
<1>2. PICK n \in S : \A m \in S : ~(<<m, n>> \in Less)
  BY <1>1, WFMin
<1>3. ASSUME NEW m \in S PROVE ~(m < n)
  BY <1>2 DEF Less
<1>4. ASSUME NEW m \in S PROVE n <= m
  BY <1>3
<1>. QED
  BY <1>4

\* A call that is sent takes a free slot.
LEMMA FirstFreeIsFree ==
  ASSUME NEW t \in Tabs, Free(t) # {}
  PROVE  FirstFree(t) \in Slots /\ calls[t][FirstFree(t)] = NoCall
<1>1. \E c \in Free(t) : \A d \in Free(t) : c <= d
  BY LeastNatural, TabsAssumption DEF Free
<1>2. FirstFree(t) \in Free(t)
  BY <1>1 DEF FirstFree
<1>. QED
  BY <1>2 DEF Free

\* The invariant holds of a browser nobody has opened yet.
LEMMA InitInv == Init => Inv
<1>. SUFFICES ASSUME Init PROVE Inv
  OBVIOUS
<1>1. NoCall \in Calls /\ 0 \in Logins
  BY BoundsAssumption DEF NoCall, Calls, Paths, Answers, Logins, NoLogin, Keep
<1>2. Types
  BY <1>1, BoundsAssumption DEF Init, Types, NoCall, NoLogin, Keep, Views
<1>3. ~SetUp(NoCall) /\ Sound(NoCall)
  BY DEF SetUp, Sound, SignedOut, NoCall
<1>4. ASSUME NEW t \in Tabs PROVE Screens(t)
  BY DEF Init, Screens, NoCall, BootPaths, FormPaths
<1>5. ASSUME NEW t \in Tabs, NEW c \in Slots PROVE calls[t][c] = NoCall
  BY DEF Init
<1>6. OneSetUp /\ \A t \in Tabs, c \in Slots : Sound(calls[t][c])
  BY <1>3, <1>5 DEF OneSetUp
<1>. QED
  BY <1>2, <1>4, <1>6 DEF Inv, Setup, Init

-----------------------------------------------------------------------------
(* What the steps do to the calls of the tabs. *)

\* Sessions are numbered as they are granted, and the user stays.
Onward ==
  /\ granted \in Nat /\ granted' \in Nat /\ granted <= granted'
  /\ \A s \in sessions' : s \in sessions \/ s > granted
  /\ registered => registered'

\* What is true of a call stays true when the server moves on.
LEMMA SoundStays ==
  ASSUME NEW call, Sound(call), Onward
  PROVE  Sound(call)'
<1>1. call.header \in 1..granted => call.header \in 1..granted' /\ call.header <= granted
  BY DEF Onward
<1>2. call.header \in (1..granted) \ sessions => call.header \in (1..granted') \ sessions'
  BY <1>1 DEF Onward
<1>. QED
  BY <1>1, <1>2 DEF Sound, SignedOut, SetUp, Onward

\* Nothing is shown until a call is settled: a step of the server or of the
\* network on one call leaves the tabs alone.
LEMMA CarriedInv ==
  ASSUME Inv, Types', Setup', Onward, UNCHANGED tabVars,
         NEW t \in Tabs, NEW c \in Slots, NEW new \in Calls,
         calls' = [calls EXCEPT ![t][c] = new],
         new.path = calls[t][c].path, InFlight(t, c), Sound(new)',
         SetUp(new) => \/ SetUp(calls[t][c])
                       \/ \A u \in Tabs, d \in Slots : ~SetUp(calls[u][d])
  PROVE  Inv'
<1>1. /\ calls'[t][c] = new
      /\ \A u \in Tabs, d \in Slots : u # t \/ d # c => calls'[u][d] = calls[u][d]
  BY DEF Inv, Types
<1>2. \A u \in Tabs, d \in Slots : /\ calls'[u][d].path = calls[u][d].path
                                   /\ calls[u][d] = NoCall => calls'[u][d] = NoCall
  BY <1>1 DEF InFlight
<1>3. ASSUME NEW u \in Tabs PROVE Screens(u)'
  BY <1>2 DEF Inv, Screens, tabVars
<1>4. ASSUME NEW u \in Tabs, NEW d \in Slots PROVE Sound(calls[u][d])'
  <2>1. CASE u = t /\ d = c
    BY <1>1, <2>1 DEF Sound, SignedOut, SetUp
  <2>2. CASE u # t \/ d # c
    <3>1. Sound(calls[u][d]) /\ calls'[u][d] = calls[u][d]
      BY <1>1, <2>2 DEF Inv
    <3>. DEFINE call == calls[u][d]
    <3>2. PICK same : same = calls[u][d]
      OBVIOUS
    <3>3. Sound(same)'
      BY <3>1, <3>2, SoundStays
    <3>4. same = calls'[u][d]
      BY <3>1, <3>2
    <3>. QED
      BY <3>3, <3>4 DEF Sound, SignedOut, SetUp
  <2>. QED
    BY <2>1, <2>2
<1>5. OneSetUp'
  <2>1. \A u \in Tabs, d \in Slots : SetUp(calls'[u][d]) =>
          \/ SetUp(calls[u][d])
          \/ u = t /\ d = c /\ \A v \in Tabs, e \in Slots : ~SetUp(calls[v][e])
    BY <1>1
  <2>. QED
    BY <2>1 DEF Inv, OneSetUp, SetUp
<1>. QED
  BY <1>3, <1>4, <1>5 DEF Inv

\* What a statement of the server makes of a call.
Served(call, new) ==
  /\ new \in Calls /\ new.path = call.path /\ new.header = call.header
  /\ new.cookies \in {Keep} \cup 0..granted'
  /\ \/ new.phase = "admitted" /\ new.answer = "none" /\ new.cookie = call.cookie
     \/ new.phase = "answered"
  /\ new.path = "/auth/logout" /\ new.phase = "admitted" =>
       new.header = new.cookie /\ new.header \in sessions
  /\ SignedOut(new) => new.header \in (1..granted) \ sessions'
  /\ SetUp(new) => registered' /\ (SetUp(call) \/ ~registered)

\* What it does to the sessions and the user.
Tables ==
  /\ granted' \in {granted, granted + 1} /\ granted' \in Logins
  /\ sessions' \subseteq sessions \cup {granted'} /\ sessions' \subseteq 1..granted'
  /\ granted' = granted => sessions' \subseteq sessions
  /\ registered' \in BOOLEAN /\ (registered => registered') /\ (~registered' => granted' = 0)

\* The server takes one step with a call.
LEMMA ServeOutcome ==
  ASSUME Inv, NEW t \in Tabs, NEW c \in Slots, Serve(t, c)
  PROVE  Tables /\ \E new : Served(calls[t][c], new) /\ Reply(t, c, new)
<1>. DEFINE call == calls[t][c]
<1>1. /\ call \in Calls /\ call.header \in 0..granted /\ call.cookies \in {Keep} \cup 0..granted
      /\ call.phase \in {"sent", "admitted"}
      /\ Types /\ Setup /\ Sound(call)
  BY DEF Inv, Types, Serve
<1>2. /\ sessions \subseteq 1..granted /\ granted \in 0..MaxLogins /\ MaxLogins \in Nat
      /\ registered \in BOOLEAN /\ (~registered => granted = 0) /\ call.answer = "none"
  BY <1>1, BoundsAssumption DEF Types, Setup, Logins, NoLogin, Sound
<1>. DEFINE Plain(answer, cookies) ==
       /\ answer \in Answers /\ cookies \in {Keep} \cup Logins
       /\ cookies \in {Keep} \cup 0..granted'
       /\ ~(call.path = "/auth/logout" /\ answer = "ok")
       /\ ~(call.path = "/setup/initialize" /\ answer = "ok")
<1>6. {"ok", "requires_setup", "unauthorized", "error"} \subseteq Answers
      /\ NoLogin \in Logins /\ NoLogin = 0
  BY <1>2 DEF Answers, Logins, NoLogin
<1>3. ASSUME NEW answer, NEW cookies, Plain(answer, cookies)
      PROVE  Served(call, Answered(call, answer, cookies))
  <2>. DEFINE new == Answered(call, answer, cookies)
  <2>1. /\ new \in Calls /\ new.path = call.path /\ new.header = call.header
        /\ new.cookies = cookies /\ new.answer = answer /\ new.phase = "answered"
    BY <1>1, <1>3, <1>6 DEF Answered, Calls
  <2>. HIDE DEF new
  <2>2. Served(call, new)
    BY <1>3, <2>1 DEF Served, SignedOut, SetUp
  <2>. QED
    BY <2>2 DEF new
<1>4. [call EXCEPT !.phase = "admitted"] \in Calls
  BY <1>1 DEF Calls
<1>5. PICK k \in {Keep, NoLogin} : Refused(call) = Answered(call, "unauthorized", k)
  BY DEF Refused
<1>7. ASSUME UNCHANGED serverVars
      PROVE  Tables /\ \A k2 \in {Keep, NoLogin} : k2 \in {Keep} \cup Logins /\ k2 \in {Keep} \cup 0..granted'
  BY <1>2, <1>6, <1>7 DEF Tables, serverVars, Logins, NoLogin
<1>8. CASE AnswerStatus(t, c, call)
  <2>1. Plain("ok", Keep) /\ Plain("requires_setup", Keep) /\ Tables
    BY <1>6, <1>7, <1>8 DEF AnswerStatus
  <2>2. Served(call, Answered(call, "ok", Keep)) /\ Served(call, Answered(call, "requires_setup", Keep))
    BY <1>3, <2>1
  <2>. QED
    BY <1>8, <2>1, <2>2 DEF AnswerStatus
<1>9. CASE InsertUser(t, c, call)
  <2>. DEFINE new == [call EXCEPT !.phase = "admitted"]
  <2>1. Reply(t, c, new) /\ registered' = TRUE /\ ~registered
        /\ UNCHANGED <<sessions, granted>> /\ call.path = "/setup/initialize"
    BY <1>9 DEF InsertUser, Admit, UserKeyFree
  <2>2. /\ new.path = call.path /\ new.header = call.header /\ new.cookies = call.cookies
        /\ new.answer = "none" /\ new.phase = "admitted" /\ new.cookie = call.cookie
    BY <1>1, <1>2 DEF Calls
  <2>3. Served(call, new)
    BY <1>1, <1>4, <2>1, <2>2 DEF Served, SignedOut, SetUp
  <2>4. Tables
    BY <1>2, <2>1 DEF Tables, Logins, NoLogin
  <2>. QED
    BY <2>1, <2>3, <2>4
<1>10. CASE AnswerInitialize(t, c, call)
  <2>1. CASE call.phase = "admitted" /\ Grant /\ Reply(t, c, Answered(call, "ok", granted + 1))
    <3>. DEFINE new == Answered(call, "ok", granted + 1)
    <3>1. SetUp(call) /\ registered /\ call.path = "/setup/initialize" /\ registered' = registered
      BY <1>1, <1>10, <2>1 DEF AnswerInitialize, SetUp, Sound
    <3>2. Tables /\ granted' = granted + 1 /\ granted + 1 \in Logins
      BY <1>2, <2>1, <3>1 DEF Grant, Tables, Logins, NoLogin
    <3>3. /\ new \in Calls /\ new.path = call.path /\ new.header = call.header
          /\ new.cookies = granted + 1 /\ new.answer = "ok" /\ new.phase = "answered"
      BY <1>1, <1>6, <3>2 DEF Answered, Calls
    <3>. HIDE DEF new
    <3>4. Served(call, new)
      BY <1>2, <3>1, <3>2, <3>3 DEF Served, SignedOut, SetUp
    <3>. QED
      BY <2>1, <3>2, <3>4 DEF new
  <2>2. CASE UNCHANGED <<sessions, granted>> /\ Reply(t, c, Answered(call, "error", Keep))
    <3>1. UNCHANGED serverVars
      BY <1>10, <2>2 DEF AnswerInitialize, serverVars
    <3>2. Plain("error", Keep) /\ Tables
      BY <1>6, <1>7, <3>1
    <3>. QED
      BY <1>3, <2>2, <3>2
  <2>. QED
    BY <1>10, <2>1, <2>2 DEF AnswerInitialize
<1>11. CASE AnswerLogin(t, c, call)
  <2>1. CASE registered /\ Grant /\ Reply(t, c, Answered(call, "ok", granted + 1))
    <3>1. Tables /\ granted' = granted + 1 /\ granted + 1 \in Logins
      BY <1>2, <1>11, <2>1 DEF AnswerLogin, Grant, Tables, Logins, NoLogin
    <3>2. Plain("ok", granted + 1)
      BY <1>2, <1>6, <1>11, <3>1 DEF AnswerLogin
    <3>. QED
      BY <1>3, <2>1, <3>1, <3>2
  <2>2. CASE UNCHANGED <<sessions, granted>> /\ Reply(t, c, Answered(call, "unauthorized", Keep))
    <3>1. UNCHANGED serverVars
      BY <1>11, <2>2 DEF AnswerLogin, serverVars
    <3>2. Plain("unauthorized", Keep) /\ Tables
      BY <1>6, <1>7, <3>1
    <3>. QED
      BY <1>3, <2>2, <3>2
  <2>. QED
    BY <1>11, <2>1, <2>2 DEF AnswerLogin
<1>12. CASE AdmitLogout(t, c, call)
  <2>1. Tables /\ Plain("unauthorized", k) /\ Plain("error", Keep)
    BY <1>5, <1>6, <1>7, <1>12 DEF AdmitLogout
  <2>2. CASE call.cookie \in sessions /\ PassesCSRF(call) /\ Admit(t, c, call)
    <3>. DEFINE new == [call EXCEPT !.phase = "admitted"]
    <3>1. Reply(t, c, new) /\ call.header = call.cookie /\ UNCHANGED <<registered, granted>>
      BY <1>12, <2>2 DEF AdmitLogout, Admit, PassesCSRF, serverVars
    <3>2. /\ new.path = call.path /\ new.header = call.header /\ new.cookies = call.cookies
          /\ new.answer = "none" /\ new.phase = "admitted" /\ new.cookie = call.cookie
          /\ call.path = "/auth/logout"
      BY <1>1, <1>2, <1>12 DEF Calls, AdmitLogout
    <3>3. Served(call, new)
      BY <1>1, <1>4, <2>2, <3>1, <3>2 DEF Served, SignedOut, SetUp
    <3>. QED
      BY <2>1, <3>1, <3>3
  <2>3. Served(call, Answered(call, "unauthorized", k)) /\ Served(call, Answered(call, "error", Keep))
    BY <1>3, <2>1
  <2>. QED
    BY <1>5, <1>12, <2>1, <2>2, <2>3 DEF AdmitLogout
<1>13. CASE AnswerLogout(t, c, call)
  <2>1. CASE sessions' = sessions \ {call.cookie} /\ Reply(t, c, Answered(call, "ok", NoLogin))
    <3>. DEFINE new == Answered(call, "ok", NoLogin)
    <3>1. /\ call.header \in (1..granted) \ sessions' /\ UNCHANGED <<registered, granted>>
          /\ call.path = "/auth/logout"
      BY <1>1, <1>13, <2>1 DEF AnswerLogout, Sound
    <3>2. Tables
      BY <1>2, <2>1, <3>1 DEF Tables, Logins, NoLogin
    <3>3. /\ new \in Calls /\ new.path = call.path /\ new.header = call.header
          /\ new.cookies = 0 /\ new.answer = "ok" /\ new.phase = "answered"
      BY <1>1, <1>6 DEF Answered, Calls
    <3>. HIDE DEF new
    <3>4. Served(call, new)
      BY <1>2, <3>1, <3>3 DEF Served, SignedOut, SetUp
    <3>. QED
      BY <2>1, <3>2, <3>4 DEF new
  <2>2. CASE UNCHANGED sessions /\ Reply(t, c, Answered(call, "error", Keep))
    <3>1. UNCHANGED serverVars
      BY <1>13, <2>2 DEF AnswerLogout, serverVars
    <3>2. Plain("error", Keep) /\ Tables
      BY <1>6, <1>7, <3>1
    <3>. QED
      BY <1>3, <2>2, <3>2
  <2>. QED
    BY <1>13, <2>1, <2>2 DEF AnswerLogout
<1>14. CASE AnswerProtected(t, c, call)
  <2>1. Tables /\ Plain("ok", Keep) /\ Plain("unauthorized", k)
    BY <1>5, <1>6, <1>7, <1>14 DEF AnswerProtected
  <2>2. Served(call, Answered(call, "ok", Keep)) /\ Served(call, Answered(call, "unauthorized", k))
    BY <1>3, <2>1
  <2>. QED
    BY <1>5, <1>14, <2>1, <2>2 DEF AnswerProtected
<1>. QED
  BY <1>8, <1>9, <1>10, <1>11, <1>12, <1>13, <1>14 DEF Serve

\* The server takes one step with a call.
LEMMA ServeStep ==
  ASSUME Inv, NEW t \in Tabs, NEW c \in Slots, Serve(t, c)
  PROVE  Inv'
<1>1. Tables
  BY ServeOutcome
<1>2. PICK new : Served(calls[t][c], new) /\ Reply(t, c, new)
  BY ServeOutcome
<1>3. /\ Types /\ Setup /\ new \in Calls /\ InFlight(t, c) /\ UNCHANGED <<jar, tabVars, reloads>>
      /\ calls' = [calls EXCEPT ![t][c] = new] /\ calls[t][c].header \in 0..granted
      /\ new.path = calls[t][c].path /\ new.header = calls[t][c].header
  BY <1>2 DEF Inv, Types, Serve, Reply, Served
<1>4. Onward
  BY <1>1, <1>3, BoundsAssumption DEF Types, Tables, Onward, Logins, NoLogin
<1>5. Types' /\ Setup'
  <2>1. calls' \in [Tabs -> [Slots -> Calls]]
    BY <1>3 DEF Types
  <2>2. 0..granted \subseteq 0..granted'
    BY <1>4 DEF Onward
  <2>3. \A u \in Tabs, d \in Slots : calls'[u][d] = calls[u][d] \/ (u = t /\ d = c /\ calls'[u][d] = new)
    BY <1>3 DEF Types
  <2>4. \A u \in Tabs, d \in Slots : /\ calls'[u][d].header \in 0..granted'
                                     /\ calls'[u][d].cookies \in {Keep} \cup 0..granted'
    BY <1>2, <1>3, <2>2, <2>3 DEF Types, Served
  <2>. QED
    BY <1>1, <1>3, <2>1, <2>2, <2>4 DEF Types, Setup, Tables, tabVars
<1>6. Sound(new)'
  <2>1. new.path = "/auth/logout" /\ new.phase = "admitted" =>
          new.header = new.cookie /\ new.header \in 1..granted'
    BY <1>2, <1>3, <1>4 DEF Served, Types, Onward
  <2>2. SignedOut(new) => new.header \in (1..granted') \ sessions'
    BY <1>2, <1>4 DEF Served, Onward
  <2>. QED
    BY <1>2, <2>1, <2>2 DEF Served, Sound, SignedOut, SetUp
<1>7. SetUp(new) => \/ SetUp(calls[t][c])
                    \/ \A u \in Tabs, d \in Slots : ~SetUp(calls[u][d])
  BY <1>2 DEF Served, Inv, Sound
<1>. QED
  BY <1>3, <1>4, <1>5, <1>6, <1>7, CarriedInv

\* A call is lost, or its answer arrives with its cookies.
LEMMA TransportStep ==
  ASSUME Inv, NEW t \in Tabs, NEW c \in Slots, Lose(t, c) \/ Arrive(t, c)
  PROVE  Inv'
<1>. DEFINE call == calls[t][c]
<1>1. call \in Calls /\ call.cookies \in {Keep} \cup 0..granted /\ InFlight(t, c) /\ Types
      /\ call.header \in 0..granted /\ Sound(call) /\ Setup
  BY DEF Inv, Types, Lose, Arrive
<1>2. UNCHANGED <<serverVars, tabVars, reloads>>
  BY DEF Lose, Arrive
<1>3. PICK new \in Calls :
        /\ calls' = [calls EXCEPT ![t][c] = new]
        /\ new.path = call.path /\ new.header = call.header /\ new.cookies = Keep
        /\ new.phase = "arrived" /\ new.answer \in {call.answer, "error"}
  <2>1. CASE Lose(t, c)
    <3>. DEFINE new == [call EXCEPT !.phase = "arrived", !.answer = "error",
                                    !.cookies = Keep, !.cookie = NoLogin]
    <3>0. NoLogin \in Logins
      BY BoundsAssumption DEF Logins, NoLogin
    <3>1. calls' = [calls EXCEPT ![t][c] = new]
      BY <1>1, <2>1 DEF Lose, Types, Calls
    <3>2. /\ new \in Calls /\ new.path = call.path /\ new.header = call.header
          /\ new.cookies = Keep /\ new.phase = "arrived"
          /\ new.answer \in {call.answer, "error"}
      BY <1>1, <3>0 DEF Calls, Answers
    <3>. QED
      BY <3>1, <3>2
  <2>2. CASE Arrive(t, c)
    <3>. DEFINE new == [call EXCEPT !.phase = "arrived", !.cookies = Keep]
    <3>1. calls' = [calls EXCEPT ![t][c] = new]
      BY <1>1, <2>2 DEF Arrive, Types, Calls
    <3>2. /\ new \in Calls /\ new.path = call.path /\ new.header = call.header
          /\ new.cookies = Keep /\ new.phase = "arrived"
          /\ new.answer \in {call.answer, "error"}
      BY <1>1 DEF Calls
    <3>. QED
      BY <3>1, <3>2
  <2>. QED
    BY <2>1, <2>2
<1>4. \A u \in Tabs, d \in Slots : calls'[u][d] = calls[u][d] \/ (u = t /\ d = c /\ calls'[u][d] = new)
  BY <1>1, <1>3 DEF Types
<1>5. Types' /\ Setup'
  <2>1. calls' \in [Tabs -> [Slots -> Calls]]
    BY <1>1, <1>3 DEF Types
  <2>2. jar' \in 0..granted
    BY <1>1 DEF Lose, Arrive, Types
  <2>3. \A u \in Tabs, d \in Slots : /\ calls'[u][d].header \in 0..granted
                                     /\ calls'[u][d].cookies \in {Keep} \cup 0..granted
    BY <1>1, <1>3, <1>4 DEF Types
  <2>. QED
    BY <1>1, <1>2, <2>1, <2>2, <2>3 DEF Types, Setup, serverVars, tabVars
<1>6. Onward
  BY <1>1, <1>2, BoundsAssumption DEF Types, Logins, NoLogin, Onward, serverVars
<1>7. Sound(new) /\ (SetUp(new) => SetUp(call))
  <2>1. SignedOut(new) => SignedOut(call)
    BY <1>3 DEF SignedOut
  <2>2. SetUp(new) => SetUp(call)
    BY <1>3 DEF SetUp
  <2>. QED
    BY <1>1, <1>3, <2>1, <2>2 DEF Sound
<1>8. Sound(new)'
  BY <1>6, <1>7, SoundStays
<1>. QED
  BY <1>1, <1>2, <1>3, <1>5, <1>6, <1>7, <1>8, CarriedInv

\* A session ends, or the user appears, without a call of these tabs.
LEMMA ElsewhereStep ==
  ASSUME Inv, Revoke \/ InitializedElsewhere
  PROVE  Inv'
<1>1. /\ sessions' \subseteq sessions /\ UNCHANGED <<granted, jar, view, token, pending, calls, reloads>>
      /\ registered' \in BOOLEAN /\ (registered => registered')
  BY DEF Revoke, InitializedElsewhere, tabVars, Inv, Types
<1>2. Types' /\ Setup' /\ OneSetUp'
  BY <1>1 DEF Inv, Types, Setup, OneSetUp, SetUp
<1>3. \A t \in Tabs : Screens(t)'
  BY <1>1 DEF Inv, Screens
<1>4. Onward
  BY <1>1, BoundsAssumption DEF Inv, Types, Onward, Logins, NoLogin
<1>5. ASSUME NEW t \in Tabs, NEW c \in Slots PROVE Sound(calls[t][c])'
  <2>1. PICK same : same = calls[t][c]
    OBVIOUS
  <2>2. Sound(same)'
    BY <1>4, <2>1, SoundStays DEF Inv
  <2>. QED
    BY <1>1, <2>1, <2>2 DEF Sound, SignedOut, SetUp
<1>. QED
  BY <1>2, <1>3, <1>5 DEF Inv

-----------------------------------------------------------------------------
(* What the tabs do. *)

\* A step of one tab leaves the server and the other tabs alone.
Alone(t) ==
  /\ UNCHANGED serverVars
  /\ \A u \in Tabs \ {t} : /\ view'[u] = view[u] /\ token'[u] = token[u]
                           /\ pending'[u] = pending[u] /\ calls'[u] = calls[u]

\* A call that is over, or that has just been sent.
Fresh(call) == call = NoCall \/ (call.phase = "sent" /\ call.answer = "none")

\* The calls of a tab end and begin; the server hears of it later.
LEMMA TabStep ==
  ASSUME Inv, NEW t \in Tabs, Alone(t), Types', Screens(t)',
         \A d \in Slots : calls'[t][d] = calls[t][d] \/ Fresh(calls'[t][d])
  PROVE  Inv'
<1>1. UNCHANGED <<registered, sessions, granted>>
  BY DEF Alone, serverVars
<1>2. ASSUME NEW u \in Tabs, u # t PROVE Screens(u)'
  BY <1>2 DEF Inv, Screens, Alone
<1>3. ASSUME NEW call, Fresh(call) PROVE ~SetUp(call) /\ Sound(call)
  BY <1>3 DEF Fresh, SetUp, Sound, SignedOut, NoCall
<1>4. ASSUME NEW u \in Tabs, NEW d \in Slots
      PROVE  calls'[u][d] = calls[u][d] \/ Fresh(calls'[u][d])
  BY DEF Alone
<1>5. ASSUME NEW u \in Tabs, NEW d \in Slots PROVE Sound(calls[u][d])'
  <2>1. Sound(calls'[u][d])
    BY <1>3, <1>4, <1>5 DEF Inv
  <2>. QED
    BY <1>1, <2>1 DEF Sound, SignedOut, SetUp
<1>6. \A u \in Tabs, d \in Slots : SetUp(calls'[u][d]) => SetUp(calls[u][d])
  BY <1>3, <1>4
<1>7. OneSetUp'
  BY <1>6 DEF Inv, OneSetUp, SetUp
<1>. QED
  BY <1>1, <1>2, <1>5, <1>7 DEF Inv, Setup

\* Only t shows something else.
OneTab(t) ==
  /\ UNCHANGED <<serverVars, jar, reloads>>
  /\ view' \in [Tabs -> Views] /\ token' \in [Tabs -> 0..granted]
  /\ pending' \in [Tabs -> BOOLEAN]
  /\ \A u \in Tabs \ {t} : /\ view'[u] = view[u] /\ token'[u] = token[u]
                           /\ pending'[u] = pending[u]

\* What a tab may show after the await of a call: it stays where it is, boots,
\* signs in after a form, or goes to the login page after a logout.
MayShow(t, c) ==
  \/ view'[t] = view[t] /\ token'[t] \in {NoLogin, token[t]}
  \/ calls[t][c].path \in BootPaths
  \/ calls[t][c].path \in FormPaths /\ view'[t] = "authenticated"
  \/ calls[t][c].path = "/auth/logout" /\ view'[t] = "unauthenticated"

\* The code after the await of a call that is done.
LEMMA DoneStep ==
  ASSUME Inv, NEW t \in Tabs, NEW c \in Slots, InFlight(t, c), Done(t, c),
         OneTab(t), MayShow(t, c),
         token'[t] # NoLogin => view'[t] = "authenticated",
         IF calls[t][c].path \in FormPaths THEN ~pending'[t] ELSE pending'[t] = pending[t]
  PROVE  Inv'
<1>1. Types /\ Screens(t)
  BY DEF Inv
<1>2. NoCall \in Calls /\ NoCall.header = 0 /\ NoCall.cookies = Keep
      /\ NoCall.path \notin BootPaths \cup FormPaths \cup {"/auth/logout"}
  BY BoundsAssumption DEF NoCall, Calls, Paths, Answers, Logins, NoLogin, Keep,
                          BootPaths, FormPaths
<1>3. /\ calls' \in [Tabs -> [Slots -> Calls]] /\ calls'[t][c] = NoCall
      /\ \A d \in Slots \ {c} : calls'[t][d] = calls[t][d]
      /\ \A u \in Tabs \ {t} : calls'[u] = calls[u]
  BY <1>1, <1>2 DEF Done, Types
<1>4. calls[t][c] # NoCall
  BY DEF InFlight
<1>5. granted \in Nat
  BY <1>1, BoundsAssumption DEF Types, Logins, NoLogin
<1>6. Types'
  <2>1. ASSUME NEW u \in Tabs, NEW d \in Slots
        PROVE  calls'[u][d].header \in 0..granted /\ calls'[u][d].cookies \in {Keep} \cup 0..granted
    <3>1. calls'[u][d] = NoCall \/ calls'[u][d] = calls[u][d]
      BY <1>3
    <3>. QED
      BY <1>1, <1>2, <1>5, <3>1 DEF Types
  <2>. QED
    BY <1>1, <1>3, <2>1 DEF Types, OneTab, serverVars
<1>7. Alone(t)
  BY <1>3 DEF Alone, OneTab
<1>8. /\ \A d \in Slots : calls[t][d].path \in BootPaths => c = d
      /\ calls[t][c].path \in BootPaths => \A d \in Slots \ {c} : calls[t][d] = NoCall
      /\ calls[t][c].path \in FormPaths => \A d \in Slots : calls[t][d].path \in FormPaths => c = d
      /\ view[t] = "authenticated" => \A d \in Slots : calls[t][d].path \notin FormPaths
      /\ calls[t][c].path = "/auth/logout" => calls[t][c].path \notin BootPaths \cup FormPaths
  BY <1>1, <1>4 DEF Screens, BootPaths, FormPaths
<1>9. Screens(t)'
  <2>1. token'[t] # NoLogin => view'[t] = "authenticated"
    OBVIOUS
  <2>2. ASSUME NEW d \in Slots
        PROVE  /\ calls'[t][d].path \notin BootPaths
               /\ calls'[t][d].path \in FormPaths =>
                    d # c /\ calls[t][d].path \in FormPaths /\ calls[t][c].path \notin FormPaths
               /\ calls'[t][d].path = "/auth/logout" =>
                    d # c /\ calls[t][d].path = "/auth/logout" /\ calls[t][c].path \notin BootPaths
    BY <1>2, <1>3, <1>8
  <2>3. ASSUME NEW d \in Slots, calls'[t][d].path \in BootPaths
        PROVE  FALSE
    BY <2>2, <2>3
  <2>4. ASSUME NEW d \in Slots, calls'[t][d].path \in FormPaths
        PROVE  pending'[t] /\ view'[t] \in {"unauthenticated", "setup-required"}
    <3>1. /\ calls[t][d].path \in FormPaths /\ calls[t][c].path \notin FormPaths
          /\ pending'[t] = pending[t] /\ calls[t][c].path \notin BootPaths
      BY <1>2, <1>8, <2>2, <2>4
    <3>. QED
      BY <1>1, <3>1 DEF MayShow, Screens
  <2>5. ASSUME NEW d \in Slots, calls'[t][d].path = "/auth/logout"
        PROVE  view'[t] \in {"authenticated", "unauthenticated"}
    BY <1>1, <2>2, <2>5 DEF MayShow, Screens
  <2>6. pending'[t] => \E d \in Slots : calls'[t][d].path \in FormPaths
    <3>1. SUFFICES ASSUME pending'[t] PROVE \E d \in Slots : calls'[t][d].path \in FormPaths
      OBVIOUS
    <3>2. pending[t] /\ calls[t][c].path \notin FormPaths
      BY <3>1
    <3>. QED
      BY <1>1, <1>3, <3>2 DEF Screens
  <2>7. \A d, e \in Slots : calls'[t][d].path \in FormPaths /\ calls'[t][e].path \in FormPaths => d = e
    BY <1>1, <2>2 DEF Screens
  <2>. QED
    BY <2>1, <2>3, <2>4, <2>5, <2>6, <2>7 DEF Screens
<1>10. \A d \in Slots : calls'[t][d] = calls[t][d] \/ Fresh(calls'[t][d])
  BY <1>3 DEF Fresh
<1>. QED
  BY <1>6, <1>7, <1>9, <1>10, TabStep

\* The code after the await of a call.
LEMMA SettleStep ==
  ASSUME Inv, NEW t \in Tabs, NEW c \in Slots, Settle(t, c)
  PROVE  Inv'
<1>. DEFINE call == calls[t][c]
            answer == call.answer
<1>1. /\ Types /\ Screens(t)
      /\ InFlight(t, c) /\ UNCHANGED <<serverVars, jar, reloads>>
  BY DEF Inv, Settle
<1>2. /\ token[t] \in 0..granted /\ jar \in 0..granted /\ NoLogin \in 0..granted
      /\ pending[t] \in BOOLEAN
      /\ "unauthenticated" \in Views /\ "authenticated" \in Views
      /\ "setup-required" \in Views
  BY <1>1, BoundsAssumption DEF Types, Views, Logins, NoLogin
<1>3. TokenAfter(t, answer) \in {NoLogin, token[t]}
  BY DEF TokenAfter
<1>4. call.path \in BootPaths => view[t] = "loading" /\ token[t] = NoLogin
  BY <1>1 DEF Screens
<1>5. CASE call.path = "/setup/status" /\ SettleStatus(t, c, answer)
  <2>1. CASE calls' = [calls EXCEPT ![t][c] = Request(t, "/auth/me")] /\ UNCHANGED view
    <3>. DEFINE new == Request(t, "/auth/me")
    <3>1. /\ new \in Calls /\ new.header = 0 /\ new.cookies = Keep /\ new.path = "/auth/me"
          /\ granted \in Nat /\ Fresh(new)
      BY <1>1, <1>2, BoundsAssumption
      DEF Fresh, Request, Mutations, Types, Calls, Paths, Answers, Logins, NoLogin, Keep
    <3>. HIDE DEF new
    <3>2. /\ calls' \in [Tabs -> [Slots -> Calls]] /\ calls'[t][c] = new
          /\ \A d \in Slots \ {c} : calls'[t][d] = calls[t][d]
          /\ \A u \in Tabs \ {t} : calls'[u] = calls[u]
      <4>1. calls' = [calls EXCEPT ![t][c] = new]
        BY <2>1 DEF new
      <4>. QED
        BY <1>1, <3>1, <4>1 DEF Types
    <3>3. UNCHANGED <<token, pending>>
      BY <1>5 DEF SettleStatus
    <3>4. Types'
      <4>1. ASSUME NEW u \in Tabs, NEW d \in Slots
            PROVE  calls'[u][d] = new \/ calls'[u][d] = calls[u][d]
        BY <3>2
      <4>2. ASSUME NEW u \in Tabs, NEW d \in Slots
            PROVE  /\ calls'[u][d].header \in 0..granted
                   /\ calls'[u][d].cookies \in {Keep} \cup 0..granted
        BY <1>1, <3>1, <4>1 DEF Types
      <4>. QED
        BY <1>1, <2>1, <3>2, <3>3, <4>2 DEF Types, serverVars
    <3>5. Alone(t)
      BY <1>1, <2>1, <3>2, <3>3 DEF Alone
    <3>6. /\ NoCall.path \notin BootPaths \cup FormPaths \cup {"/auth/logout"}
          /\ \A d \in Slots \ {c} : calls'[t][d] = NoCall /\ calls[t][d] = NoCall
      BY <1>1, <1>5, <3>2 DEF Screens, NoCall, BootPaths, FormPaths
    <3>7. Screens(t)'
      <4>1. view'[t] = "loading" /\ token'[t] = NoLogin
        BY <1>4, <1>5, <2>1, <3>3 DEF BootPaths
      <4>2. \A d \in Slots : calls'[t][d].path \notin FormPaths /\ calls[t][d].path \notin FormPaths
        BY <1>5, <3>1, <3>2, <3>6 DEF FormPaths
      <4>3. ~pending'[t]
        BY <1>1, <3>3, <4>2 DEF Screens
      <4>4. \A d \in Slots : calls'[t][d].path # "/auth/logout"
        BY <3>1, <3>2, <3>6
      <4>. QED
        BY <3>2, <3>6, <4>1, <4>2, <4>3, <4>4 DEF Screens
    <3>8. \A d \in Slots : calls'[t][d] = calls[t][d] \/ Fresh(calls'[t][d])
      BY <3>1, <3>2
    <3>. QED
      BY <3>4, <3>5, <3>7, <3>8, TabStep
  <2>2. CASE /\ Done(t, c) /\ (Show(t, "setup-required") \/ Show(t, "unauthenticated"))
    <3>1. OneTab(t) /\ token'[t] = NoLogin /\ pending'[t] = pending[t]
      BY <1>1, <1>2, <1>4, <1>5, <2>2 DEF SettleStatus, Show, OneTab, Types, BootPaths
    <3>. QED
      BY <1>1, <1>5, <2>2, <3>1, DoneStep DEF MayShow, BootPaths, FormPaths
  <2>. QED
    BY <1>5, <2>1, <2>2 DEF SettleStatus
<1>6. CASE call.path = "/auth/me" /\ SettleMe(t, c, answer)
  <2>1. /\ OneTab(t)
        /\ token'[t] # NoLogin => view'[t] = "authenticated"
        /\ Done(t, c) /\ pending'[t] = pending[t]
    BY <1>1, <1>2, <1>3, <1>4, <1>6
    DEF SettleMe, Adopt, Show, SetToken, OneTab, Types, BootPaths
  <2>. QED
    BY <1>1, <1>6, <2>1, DoneStep DEF MayShow, BootPaths, FormPaths
<1>7. CASE call.path \in FormPaths /\ SettleForm(t, c, answer)
  <2>1. /\ OneTab(t) /\ Done(t, c) /\ pending'[t] = FALSE
    BY <1>1, <1>2, <1>3, <1>7
    DEF SettleForm, Adopt, Show, SetToken, EndPending, OneTab, Types
  <2>2. \/ view'[t] = "authenticated"
        \/ view'[t] = view[t] /\ token'[t] \in {NoLogin, token[t]}
    BY <1>1, <1>3, <1>7 DEF SettleForm, Adopt, Show, SetToken, Types
  <2>3. token'[t] # NoLogin => view'[t] = "authenticated"
    BY <1>1, <2>2 DEF Screens
  <2>. QED
    BY <1>1, <1>7, <2>1, <2>2, <2>3, DoneStep DEF MayShow
<1>8. CASE call.path = "/auth/logout" /\ SettleLogout(t, c, answer)
  <2>1. /\ OneTab(t) /\ Done(t, c) /\ pending'[t] = pending[t]
    BY <1>1, <1>2, <1>3, <1>8 DEF SettleLogout, Show, SetToken, OneTab, Types
  <2>2. \/ view'[t] = "unauthenticated" /\ token'[t] = NoLogin
        \/ view'[t] = view[t] /\ token'[t] \in {NoLogin, token[t]}
    BY <1>1, <1>3, <1>8 DEF SettleLogout, Show, SetToken, Types
  <2>3. token'[t] # NoLogin => view'[t] = "authenticated"
    BY <1>1, <2>2 DEF Screens
  <2>. QED
    BY <1>1, <1>8, <2>1, <2>2, <2>3, DoneStep DEF MayShow, FormPaths
<1>9. CASE call.path = "page" /\ SettlePage(t, c, answer)
  <2>1. /\ OneTab(t) /\ Done(t, c) /\ pending'[t] = pending[t]
        /\ view'[t] = view[t] /\ token'[t] \in {NoLogin, token[t]}
    BY <1>1, <1>2, <1>3, <1>9 DEF SettlePage, SetToken, OneTab, Types
  <2>2. token'[t] # NoLogin => view'[t] = "authenticated"
    BY <1>1, <2>1 DEF Screens
  <2>. QED
    BY <1>1, <1>9, <2>1, <2>2, DoneStep DEF MayShow, FormPaths
<1>. QED
  BY <1>5, <1>6, <1>7, <1>8, <1>9 DEF Settle, FormPaths

\* A document that loads has one call in flight.
LEMMA BootstrapStep ==
  ASSUME Inv, NEW t \in Tabs, Bootstrap(t), reloads' \in 0..MaxReloads
  PROVE  Inv'
<1>1. Types /\ UNCHANGED <<serverVars, jar>>
  BY DEF Inv, Bootstrap
<1>. DEFINE boot == [path |-> "/setup/status", cookie |-> jar, header |-> NoLogin,
                     phase |-> "sent", answer |-> "none", cookies |-> Keep]
<1>2. /\ boot \in Calls /\ NoCall \in Calls /\ granted \in Nat
      /\ boot.header = 0 /\ NoCall.header = 0 /\ boot.cookies = Keep /\ NoCall.cookies = Keep
      /\ boot.path = "/setup/status" /\ NoCall.path = "page"
  BY <1>1, BoundsAssumption DEF Types, Calls, NoCall, Paths, Answers, Logins, NoLogin, Keep
<1>. DEFINE fresh == [c \in Slots |-> IF \A d \in Slots : c <= d THEN boot ELSE NoCall]
<1>3. calls' = [calls EXCEPT ![t] = fresh]
  BY DEF Bootstrap
<1>4. /\ fresh \in [Slots -> Calls]
      /\ \A c \in Slots : fresh[c] \in {boot, NoCall}
      /\ \A c, d \in Slots : fresh[c] = boot /\ fresh[d] = boot => c = d
  <2>1. boot # NoCall
    BY <1>2
  <2>. HIDE DEF boot
  <2>2. \A c \in Slots : fresh[c] = boot => \A d \in Slots : c <= d
    BY <2>1
  <2>3. \A c, d \in Slots : c <= d /\ d <= c => c = d
    BY TabsAssumption
  <2>. QED
    BY <1>2, <2>2, <2>3
<1>. HIDE DEF boot, fresh
<1>5. /\ calls' \in [Tabs -> [Slots -> Calls]] /\ calls'[t] = fresh
      /\ \A u \in Tabs \ {t} : calls'[u] = calls[u]
  BY <1>1, <1>3, <1>4 DEF Types
<1>6. /\ view' = [view EXCEPT ![t] = "loading"] /\ token' = [token EXCEPT ![t] = NoLogin]
      /\ pending' = [pending EXCEPT ![t] = FALSE]
  BY DEF Bootstrap, Show, SetToken, EndPending
<1>7. Types'
  <2>1. ASSUME NEW u \in Tabs, NEW d \in Slots
        PROVE  calls'[u][d].header \in 0..granted /\ calls'[u][d].cookies \in {Keep} \cup 0..granted
    <3>1. calls'[u][d] \in {boot, NoCall} \/ calls'[u][d] = calls[u][d]
      BY <1>4, <1>5
    <3>. QED
      BY <1>1, <1>2, <3>1 DEF Types
  <2>2. /\ view' \in [Tabs -> Views] /\ token' \in [Tabs -> 0..granted]
        /\ pending' \in [Tabs -> BOOLEAN]
    BY <1>1, <1>2, <1>6 DEF Types, Views, NoLogin
  <2>. QED
    BY <1>1, <1>5, <2>1, <2>2 DEF Types, serverVars
<1>8. Alone(t)
  BY <1>1, <1>5, <1>6 DEF Alone, Types
<1>9. Screens(t)'
  <2>1. view'[t] = "loading" /\ token'[t] = NoLogin /\ pending'[t] = FALSE
    BY <1>1, <1>6 DEF Types
  <2>2. \A c \in Slots : calls'[t][c].path \in BootPaths => fresh[c] = boot
    BY <1>2, <1>4, <1>5 DEF BootPaths
  <2>3. \A c \in Slots : calls'[t][c].path \notin FormPaths \cup {"/auth/logout"}
    BY <1>2, <1>4, <1>5 DEF FormPaths
  <2>. QED
    BY <1>4, <1>5, <2>1, <2>2, <2>3 DEF Screens
<1>10. \A d \in Slots : Fresh(calls'[t][d])
  <2>1. Fresh(boot) /\ Fresh(NoCall)
    BY DEF Fresh, boot
  <2>. QED
    BY <1>4, <1>5, <2>1
<1>. QED
  BY <1>7, <1>8, <1>9, <1>10, TabStep

\* A call is sent by the page that is shown.
LEMMA SendStep ==
  ASSUME Inv, NEW t \in Tabs, NEW path \in Paths \ BootPaths, Send(t, path),
         UNCHANGED <<serverVars, jar, view, token, reloads>>,
         path \in FormPaths =>
           /\ ~pending[t] /\ pending' = [pending EXCEPT ![t] = TRUE]
           /\ view[t] \in {"unauthenticated", "setup-required"},
         path \notin FormPaths => view[t] = "authenticated" /\ UNCHANGED pending
  PROVE  Inv'
<1>1. Types /\ Screens(t)
  BY DEF Inv
<1>. DEFINE new == Request(t, path)
<1>2. PICK c \in Slots : c = FirstFree(t) /\ calls[t][c] = NoCall
  BY FirstFreeIsFree DEF Send
<1>3. /\ new \in Calls /\ new.path = path /\ new.phase = "sent" /\ new.answer = "none"
      /\ new.header \in 0..granted /\ new.cookies = Keep
  <2>1. jar \in Logins /\ token[t] \in Logins /\ token[t] \in 0..granted
        /\ 0 \in 0..granted /\ 0 \in Logins
    BY <1>1, BoundsAssumption DEF Types, Logins, NoLogin
  <2>. QED
    BY <2>1 DEF Request, Mutations, Calls, Answers, NoLogin, Keep
<1>4. calls' = [calls EXCEPT ![t][c] = new]
  BY <1>2 DEF Send
<1>. HIDE DEF new
<1>5. /\ calls' \in [Tabs -> [Slots -> Calls]] /\ calls'[t][c] = new
      /\ \A d \in Slots \ {c} : calls'[t][d] = calls[t][d]
      /\ \A u \in Tabs \ {t} : calls'[u] = calls[u]
  BY <1>1, <1>2, <1>3, <1>4 DEF Types
<1>6. pending' \in [Tabs -> BOOLEAN] /\ (\A u \in Tabs \ {t} : pending'[u] = pending[u])
      /\ (path \in FormPaths => pending'[t])
  BY <1>1 DEF Types
<1>7. Types'
  <2>1. ASSUME NEW u \in Tabs, NEW d \in Slots
        PROVE  calls'[u][d].header \in 0..granted /\ calls'[u][d].cookies \in {Keep} \cup 0..granted
    <3>1. calls'[u][d] = new \/ calls'[u][d] = calls[u][d]
      BY <1>5
    <3>. QED
      BY <1>1, <1>3, <3>1 DEF Types
  <2>. QED
    BY <1>1, <1>5, <1>6, <2>1 DEF Types, serverVars
<1>8. Alone(t)
  BY <1>5, <1>6 DEF Alone
<1>9. Screens(t)'
  <2>1. view[t] # "loading"
    OBVIOUS
  <2>2. \A d \in Slots : calls[t][d].path \notin BootPaths /\ calls'[t][d].path \notin BootPaths
    BY <1>1, <1>3, <1>5, <2>1 DEF Screens
  <2>5. \A d \in Slots : calls'[t][d].path = "/auth/logout" =>
          view'[t] \in {"authenticated", "unauthenticated"}
    BY <1>1, <1>3, <1>5 DEF Screens, FormPaths
  <2>3. CASE path \in FormPaths
    <3>1. \A d \in Slots : calls[t][d].path \notin FormPaths
      BY <1>1, <2>3 DEF Screens
    <3>2. \A d \in Slots : calls'[t][d].path \in FormPaths <=> d = c
      BY <1>2, <1>3, <1>5, <2>3, <3>1
    <3>3. pending'[t] /\ view'[t] \in {"unauthenticated", "setup-required"}
          /\ (token'[t] # NoLogin => view'[t] = "authenticated")
      BY <1>1, <1>6, <2>3 DEF Screens
    <3>. QED
      BY <1>2, <2>2, <2>5, <3>2, <3>3 DEF Screens
  <2>4. CASE path \notin FormPaths
    <3>1. NoCall.path \notin FormPaths
      BY DEF NoCall, FormPaths
    <3>2. \A d \in Slots : calls'[t][d].path \notin FormPaths /\ calls[t][d].path \notin FormPaths
      BY <1>1, <1>3, <1>5, <2>4 DEF Screens
    <3>. QED
      BY <1>1, <2>2, <2>4, <2>5, <3>2 DEF Screens
  <2>. QED
    BY <2>3, <2>4
<1>10. \A d \in Slots : calls'[t][d] = calls[t][d] \/ Fresh(calls'[t][d])
  BY <1>3, <1>5 DEF Fresh
<1>. QED
  BY <1>7, <1>8, <1>9, <1>10, TabStep

\* What the user does in a tab.
LEMMA UserInv ==
  ASSUME Inv, NEW t \in Tabs, UserStep(t)
  PROVE  Inv'
<1>1. reloads \in 0..MaxReloads /\ pending \in [Tabs -> BOOLEAN]
  BY DEF Inv, Types
<1>2. CASE Open(t) \/ Reload(t)
  <2>1. Bootstrap(t) /\ reloads' \in 0..MaxReloads
    BY <1>1, <1>2, BoundsAssumption DEF Open, Reload
  <2>. QED
    BY <2>1, BootstrapStep
<1>3. CASE SubmitLogin(t)
  <2>1. "/auth/login" \in Paths \ BootPaths /\ "/auth/login" \in FormPaths
    BY DEF Paths, BootPaths, FormPaths
  <2>. QED
    BY <1>3, <2>1, SendStep DEF SubmitLogin, Submit
<1>4. CASE SubmitSetup(t)
  <2>1. "/setup/initialize" \in Paths \ BootPaths /\ "/setup/initialize" \in FormPaths
    BY DEF Paths, BootPaths, FormPaths
  <2>. QED
    BY <1>4, <2>1, SendStep DEF SubmitSetup, Submit
<1>5. CASE Logout(t)
  <2>1. "/auth/logout" \in Paths \ BootPaths /\ "/auth/logout" \notin FormPaths
    BY DEF Paths, BootPaths, FormPaths
  <2>. QED
    BY <1>5, <2>1, SendStep DEF Logout, UseShell, tabVars
<1>6. CASE UsePage(t)
  <2>1. "page" \in Paths \ BootPaths /\ "page" \notin FormPaths
    BY DEF Paths, BootPaths, FormPaths
  <2>. QED
    BY <1>6, <2>1, SendStep DEF UsePage, UseShell, tabVars
<1>. QED
  BY <1>2, <1>3, <1>4, <1>5, <1>6 DEF UserStep

-----------------------------------------------------------------------------

\* The invariant is inductive.
LEMMA NextInv == Inv /\ [Next]_vars => Inv'
<1>. SUFFICES ASSUME Inv, [Next]_vars PROVE Inv'
  OBVIOUS
<1>1. CASE UNCHANGED vars
  <2>1. /\ UNCHANGED <<registered, sessions, granted, jar, view, token, pending>>
        /\ UNCHANGED <<calls, reloads>>
    BY <1>1 DEF vars, serverVars, tabVars
  <2>2. Types' /\ Setup' /\ OneSetUp'
    BY <2>1 DEF Inv, Types, Setup, OneSetUp, SetUp
  <2>3. ASSUME NEW t \in Tabs PROVE Screens(t)'
    BY <2>1 DEF Inv, Screens
  <2>4. ASSUME NEW t \in Tabs, NEW c \in Slots PROVE Sound(calls[t][c])'
    BY <2>1 DEF Inv, Sound, SignedOut, SetUp
  <2>. QED
    BY <2>2, <2>3, <2>4 DEF Inv
<1>2. ASSUME NEW t \in Tabs, UserStep(t) PROVE Inv'
  BY <1>2, UserInv
<1>3. ASSUME NEW t \in Tabs, NEW c \in Slots, CallStep(t, c) \/ Lose(t, c) PROVE Inv'
  <2>1. CASE Serve(t, c)
    BY <2>1, ServeStep
  <2>2. CASE Lose(t, c) \/ Arrive(t, c)
    BY <2>2, TransportStep
  <2>3. CASE Settle(t, c)
    BY <2>3, SettleStep
  <2>. QED
    BY <1>3, <2>1, <2>2, <2>3 DEF CallStep
<1>4. CASE Revoke \/ InitializedElsewhere
  BY <1>4, ElsewhereStep
<1>. QED
  BY <1>1, <1>2, <1>3, <1>4 DEF Next

\* Everything above holds of every behaviour.
THEOREM SessionInvariant == Spec => []Inv
<1>. QED
  BY InitInv, NextInv, PTL DEF Spec

\* The variables keep their types, and a form waits exactly as long as its call
\* is in flight (pending of LoginPage and SetupPage).
THEOREM SessionTypeCorrect == Spec => []SessionTypeOK
<1>1. Inv => SessionTypeOK
  <2>. SUFFICES ASSUME Inv PROVE SessionTypeOK
    OBVIOUS
  <2>1. ASSUME NEW t \in Tabs
        PROVE  pending[t] = \E c \in Slots :
                 calls[t][c].path \in {"/auth/login", "/setup/initialize"}
    <3>1. Screens(t) /\ pending[t] \in BOOLEAN
      BY DEF Inv, Types
    <3>2. pending[t] <=> \E c \in Slots : calls[t][c].path \in FormPaths
      BY <3>1 DEF Screens
    <3>. QED
      BY <3>1, <3>2 DEF FormPaths
  <2>. QED
    BY <2>1 DEF Inv, Types, SessionTypeOK
<1>. QED
  BY <1>1, SessionInvariant, PTL

\* A tab that is not signed in holds no token, whatever the order of the answers
\* of its calls (client.ts and AuthContext.tsx keep them together).
THEOREM SessionToken == Spec => []TokenOnlyWhenAuthenticated
<1>1. Inv => TokenOnlyWhenAuthenticated
  BY DEF Inv, Screens, TokenOnlyWhenAuthenticated
<1>. QED
  BY <1>1, SessionInvariant, PTL

-----------------------------------------------------------------------------
(* Action properties. *)

\* Only the answer to a logout that was carried out leads from the pages to the
\* login page.
LEMMA LeavesAfterLogout ==
  ASSUME Inv, Next, NEW t \in Tabs,
         view[t] = "authenticated", view'[t] = "unauthenticated"
  PROVE  UNCHANGED sessions /\ \E c \in Slots : SignedOut(calls[t][c]) /\ calls'[t][c] = NoCall
<1>1. Types /\ Screens(t)
  BY DEF Inv
<1>2. ASSUME NEW u \in Tabs, UserStep(u) PROVE FALSE
  <2>1. CASE Open(u) \/ Reload(u)
    BY <1>1, <2>1 DEF Open, Reload, Bootstrap, Show, Types
  <2>2. CASE SubmitLogin(u) \/ SubmitSetup(u) \/ Logout(u) \/ UsePage(u)
    BY <2>2 DEF SubmitLogin, SubmitSetup, Submit, Logout, UsePage, UseShell, tabVars
  <2>. QED
    BY <1>2, <2>1, <2>2 DEF UserStep
<1>3. ASSUME NEW u \in Tabs, NEW c \in Slots, Serve(u, c) \/ Arrive(u, c) \/ Lose(u, c)
      PROVE  FALSE
  BY <1>3 DEF Serve, Arrive, Lose, tabVars
<1>4. ~Revoke /\ ~InitializedElsewhere
  BY DEF Revoke, InitializedElsewhere, tabVars
<1>5. ASSUME NEW u \in Tabs, NEW c \in Slots, Settle(u, c)
      PROVE  UNCHANGED sessions /\ SignedOut(calls[t][c]) /\ calls'[t][c] = NoCall
  <2>1. UNCHANGED sessions
    BY <1>5 DEF Settle, serverVars
  <2>2. ASSUME NEW status, Show(u, status) PROVE u = t /\ status = "unauthenticated"
    BY <1>1, <2>2 DEF Show, Types
  <2>3. calls[t][c].path \notin BootPaths
    BY <1>1 DEF Screens
  <2>4. ~UNCHANGED view
    OBVIOUS
  <2>5. CASE calls[u][c].path = "/setup/status" /\ SettleStatus(u, c, calls[u][c].answer)
    BY <2>2, <2>3, <2>4, <2>5 DEF SettleStatus, BootPaths
  <2>6. CASE calls[u][c].path = "/auth/me" /\ SettleMe(u, c, calls[u][c].answer)
    BY <2>2, <2>3, <2>6 DEF SettleMe, Adopt, BootPaths
  <2>7. CASE SettleForm(u, c, calls[u][c].answer)
    BY <2>2, <2>4, <2>7 DEF SettleForm, Adopt
  <2>8. CASE calls[u][c].path = "/auth/logout" /\ SettleLogout(u, c, calls[u][c].answer)
    <3>1. u = t /\ calls[u][c].answer = "ok" /\ Done(u, c)
      BY <2>2, <2>4, <2>8 DEF SettleLogout
    <3>. QED
      BY <1>1, <2>1, <2>8, <3>1 DEF Done, SignedOut, Types
  <2>9. CASE SettlePage(u, c, calls[u][c].answer)
    BY <2>4, <2>9 DEF SettlePage
  <2>. QED
    BY <1>5, <2>5, <2>6, <2>7, <2>8, <2>9 DEF Settle
<1>. QED
  BY <1>2, <1>3, <1>4, <1>5 DEF Next, CallStep

\* A tab leaves its pages only by a logout of its own that the server carried
\* out, whatever other tabs did to the cookies (AuthContext.logout, requireCSRF).
THEOREM SessionLogout == Spec => LogoutEndsSession
<1>1. ASSUME Inv, [Next]_vars, NEW t \in Tabs,
             view[t] = "authenticated", view'[t] = "unauthenticated"
      PROVE  \E c \in Slots : /\ calls[t][c].path = "/auth/logout" /\ calls'[t][c] = NoCall
                              /\ calls[t][c].header \in (1..granted) \ sessions'
  <2>1. Next
    BY <1>1 DEF vars, tabVars
  <2>2. PICK c \in Slots : SignedOut(calls[t][c]) /\ calls'[t][c] = NoCall
    BY <1>1, <2>1, LeavesAfterLogout
  <2>3. UNCHANGED sessions
    BY <1>1, <2>1, LeavesAfterLogout
  <2>4. Sound(calls[t][c])
    BY <1>1 DEF Inv
  <2>. QED
    BY <2>2, <2>3, <2>4 DEF Sound, SignedOut
<1>2. Inv /\ [Next]_vars =>
        [\A t \in Tabs : view[t] = "authenticated" /\ view'[t] = "unauthenticated" =>
           \E c \in Slots : /\ calls[t][c].path = "/auth/logout" /\ calls'[t][c] = NoCall
                            /\ calls[t][c].header \in (1..granted) \ sessions']_vars
  BY <1>1
<1>. QED
  BY <1>2, SessionInvariant, PTL DEF Spec, LogoutEndsSession

\* A call gets past the insert of the set-up only while there is no user.
LEMMA SetUpStep ==
  ASSUME Inv, Next, NEW u \in Tabs, NEW d \in Slots,
         SetUp(calls'[u][d]), ~SetUp(calls[u][d])
  PROVE  ~registered
<1>1. Types /\ calls'[u][d] # calls[u][d]
  BY DEF Inv
<1>2. ASSUME NEW call, Fresh(call) PROVE ~SetUp(call)
  BY <1>2 DEF Fresh, SetUp, NoCall
<1>3. \A t \in Tabs : \A path : Fresh(Request(t, path))
  BY DEF Request, Fresh
<1>4. ASSUME NEW t \in Tabs, UserStep(t)
      PROVE  calls'[u][d] = calls[u][d] \/ Fresh(calls'[u][d])
  <2>1. CASE Open(t) \/ Reload(t)
    <3>1. Bootstrap(t)
      BY <2>1 DEF Open, Reload
    <3>. QED
      BY <1>1, <3>1 DEF Bootstrap, Types, Fresh
  <2>2. ASSUME NEW path, Send(t, path)
        PROVE  calls'[u][d] = calls[u][d] \/ Fresh(calls'[u][d])
    <3>. DEFINE new == Request(t, path)
    <3>1. calls' = [calls EXCEPT ![t][FirstFree(t)] = new] /\ Fresh(new)
      BY <1>3, <2>2 DEF Send
    <3>. HIDE DEF new
    <3>. QED
      BY <1>1, <3>1 DEF Types
  <2>. QED
    BY <1>4, <2>1, <2>2
    DEF UserStep, SubmitLogin, SubmitSetup, Submit, Logout, UsePage, UseShell
<1>5. ASSUME NEW t \in Tabs, NEW c \in Slots, Settle(t, c)
      PROVE  calls'[u][d] = calls[u][d] \/ Fresh(calls'[u][d])
  <2>1. \/ Done(t, c)
        \/ calls' = [calls EXCEPT ![t][c] = Request(t, "/auth/me")]
    BY <1>5 DEF Settle, SettleStatus, SettleMe, SettleForm, SettleLogout, SettlePage
  <2>2. CASE Done(t, c)
    BY <1>1, <2>2 DEF Done, Types, Fresh
  <2>3. CASE calls' = [calls EXCEPT ![t][c] = Request(t, "/auth/me")]
    <3>. DEFINE new == Request(t, "/auth/me")
    <3>1. calls' = [calls EXCEPT ![t][c] = new] /\ Fresh(new)
      BY <1>3, <2>3
    <3>. HIDE DEF new
    <3>. QED
      BY <1>1, <3>1 DEF Types
  <2>. QED
    BY <2>1, <2>2, <2>3
<1>6. ASSUME NEW t \in Tabs, NEW c \in Slots, Lose(t, c) PROVE FALSE
  <2>1. calls'[u][d].phase = "arrived" /\ calls'[u][d].answer = "error"
    BY <1>1, <1>6 DEF Lose, Types, Calls
  <2>. QED
    BY <2>1 DEF SetUp
<1>7. ASSUME NEW t \in Tabs, NEW c \in Slots, Arrive(t, c) PROVE FALSE
  <2>1. /\ calls'[u][d].phase = "arrived" /\ calls'[u][d].answer = calls[u][d].answer
        /\ calls'[u][d].path = calls[u][d].path
    BY <1>1, <1>7 DEF Arrive, Types, Calls
  <2>. QED
    BY <2>1 DEF SetUp
<1>8. ASSUME NEW t \in Tabs, NEW c \in Slots, Serve(t, c) PROVE ~registered
  <2>1. PICK new : Served(calls[t][c], new) /\ Reply(t, c, new)
    BY <1>8, ServeOutcome
  <2>2. u = t /\ d = c /\ calls'[u][d] = new
    BY <1>1, <2>1 DEF Reply, Types
  <2>. QED
    BY <2>1, <2>2 DEF Served
<1>9. Revoke \/ InitializedElsewhere => UNCHANGED calls
  BY DEF Revoke, InitializedElsewhere
<1>. QED
  BY <1>1, <1>2, <1>4, <1>5, <1>6, <1>7, <1>8, <1>9 DEF Next, CallStep

\* One initialisation at most gets past its insert, before anybody has logged
\* in (the singleton key behind service.Initialize).
THEOREM SessionSetup == Spec => SetupSucceedsOnce
<1>1. ASSUME Inv, Next, NEW t \in Tabs, NEW c \in Slots,
             SetUp(calls'[t][c]), ~SetUp(calls[t][c])
      PROVE  granted = 0 /\ \A u \in Tabs, d \in Slots : ~SetUp(calls[u][d])
  <2>1. ~registered
    BY <1>1, SetUpStep
  <2>. QED
    BY <1>1, <2>1 DEF Inv, Setup, Sound
<1>2. Inv /\ [Next]_vars =>
        [\A t \in Tabs, c \in Slots :
           SetUp(calls'[t][c]) /\ ~SetUp(calls[t][c]) =>
             /\ granted = 0
             /\ \A u \in Tabs, d \in Slots : ~SetUp(calls[u][d])]_vars
  BY <1>1
<1>. QED
  BY <1>2, SessionInvariant, PTL DEF Spec, SetupSucceedsOnce
=============================================================================
