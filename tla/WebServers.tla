------------------------------ MODULE WebServers ------------------------------
(***************************************************************************)
(* The server and operation lists in the browser and the events that keep   *)
(* them fresh: AppShell, ServersPage, OperationsPage and useServerEvents,   *)
(* with the broker and the event stream of the server.                     *)
(*                                                                         *)
(* What the lists answer is one sequence, world, of the sets of servers     *)
(* that were listed after each change of a server or an operation; a list   *)
(* that was read is an index into it.  Executor and Service publish an      *)
(* event after their writes, but a request that takes its operation back    *)
(* and the synchronisation publish none.  The backdrops of detail and       *)
(* dialog keep nothing from the keyboard.                                   *)
(***************************************************************************)
EXTENDS Integers, Sequences, FiniteSets, SequencesExt

CONSTANTS
  Servers,     \* servers of the inventory
  Buffer,      \* bufferSize of NewBroker
  MaxChanges,  \* bound: changes of servers and operations
  MaxMoves,    \* bound: navigations and history moves
  MaxDrops     \* bound: connections of the event stream lost on the way

Nothing == "nothing"
Places == {"/servers", "/operations", "/"}

ASSUME ServersAssumption == Servers \cap (Places \cup {Nothing}) = {}
ASSUME BufferAssumption == Buffer \in Nat \ {0}
ASSUME BoundsAssumption ==
  {MaxChanges, MaxMoves, MaxDrops} \subseteq Nat

VARIABLES
  world,         \* listed servers after each change
  due,           \* writes whose event is not published yet
  stream,        \* the EventSource of the page and its subscription
  buffer,        \* events in the channel of the subscription
  path,          \* window.location.pathname
  page,          \* page of AppShell
  shown,         \* index of the list on the page, 0 before the first
  loading, selected, confirmation, submitting,   \* state of ServersPage
  submission,    \* how far confirmAction is
  lists,         \* list calls in flight, in the order they were sent
  missed,        \* history: a change since the last list call raised no event
  overtaken,     \* history: the list shown was asked for before an older one
  own,           \* history: the change that this page's last submission made
  known,         \* history: own, once the list asked for after it has arrived
  moves, drops

dialogVars == <<selected, confirmation, submitting, submission, own, known>>
streamVars == <<stream, buffer, drops>>
placeVars == <<path, page, moves>>
listVars == <<shown, loading, lists, missed, overtaken>>
vars == <<world, due, streamVars, placeVars, listVars, dialogVars>>

Paths == Places \cup Servers
\* pageFromPath; a server stands for the path of its detail.
PageFromPath(p) == CASE p \in {"/servers"} \cup Servers -> "servers"
                     [] p = "/operations" -> "operations"
                     [] OTHER -> "dashboard"
Listing == page \in {"servers", "operations"}

Purposes == {"load", "refresh", "submission"}
ListCalls == [purpose: Purposes, read: 0..MaxChanges + 1, late: BOOLEAN]
Now == Len(world)
Listed == IF shown = 0 THEN {} ELSE world[shown]
DetailShown == page = "servers" /\ selected \in Listed
DialogShown == DetailShown /\ confirmation

---------------------------------------------------------------------------
(* List calls *)

\* A list call asked for now sees every change so far.
Sending(purpose) ==
  /\ lists' = Append(lists, [purpose |-> purpose, read |-> 0, late |-> FALSE])
  /\ missed' = FALSE

\* The calls before the i-th one will be late when their answers come.
Taken(i) == [j \in 1..Len(lists) - 1 |->
               IF j < i THEN [lists[j] EXCEPT !.late = TRUE] ELSE lists[j + 1]]

\* The server reads the list; of two lists awaited together the older counts.
Read(i) ==
  /\ lists[i].read = 0
  /\ lists' = [lists EXCEPT ![i].read = Now]
  /\ UNCHANGED <<world, due, streamVars, placeVars, shown, loading, missed,
                 overtaken, dialogVars>>

\* Mutant: nothing sets submitting back.
EndsWithoutFinally(purpose) ==
  /\ submission' = IF purpose = "submission" THEN "none" ELSE submission
  /\ UNCHANGED submitting

\* setSubmitting(false) in the finally block of confirmAction.
Ends(purpose) ==
  /\ submission' = IF purpose = "submission" THEN "none" ELSE submission
  /\ submitting' = (submitting /\ purpose # "submission")

\* The first load selects the server of the path, which is read only now.
Selects(purpose, items) ==
  IF page = "servers" /\ purpose = "load" /\ path \in items THEN path ELSE selected

Arrive(i) ==
  LET call == lists[i]
      items == world[call.read] IN
  /\ call.read # 0
  /\ lists' = Taken(i) /\ shown' = call.read
  /\ loading' = (loading /\ page = "servers" /\ call.purpose # "load")
  /\ overtaken' = call.late
  /\ selected' = Selects(call.purpose, items)
  /\ known' = IF call.purpose = "submission" THEN own ELSE known
  /\ Ends(call.purpose)
  /\ UNCHANGED <<world, due, streamVars, placeVars, missed, confirmation, own>>

\* The call fails: an error is shown and the old list stays.
Fail(i) ==
  /\ lists' = RemoveAt(lists, i) /\ missed' = TRUE
  /\ loading' = (loading /\ page = "servers" /\ lists[i].purpose # "load")
  /\ Ends(lists[i].purpose)
  /\ UNCHANGED <<world, due, streamVars, placeVars, shown, overtaken, selected,
                 confirmation, own, known>>

---------------------------------------------------------------------------
(* Changes and events *)

\* The executor and an accepted request write a row and publish afterwards.
Announced ==
  /\ Now <= MaxChanges
  /\ world' = Append(world, Last(world)) /\ due' = due + 1
  /\ UNCHANGED missed

\* A synchronisation lists or hides servers, and a request marks the operation
\* failed that it cannot queue or log: neither publishes anything.
Silent ==
  /\ Now <= MaxChanges
  /\ \/ \E s \in Servers :
          world' = Append(world, IF s \in Last(world) THEN Last(world) \ {s}
                                                      ELSE Last(world) \cup {s})
     \/ world' = Append(world, Last(world))
  /\ missed' = TRUE /\ UNCHANGED due

Change ==
  /\ Announced \/ Silent
  /\ UNCHANGED <<streamVars, placeVars, shown, loading, lists, overtaken, dialogVars>>

\* Broker.Publish: a subscriber whose channel is full is dropped.
Publish ==
  /\ due > 0 /\ due' = due - 1
  /\ IF stream = "subscribed" /\ buffer < Buffer
     THEN buffer' = buffer + 1 /\ UNCHANGED <<stream, missed>>
     ELSE /\ stream' = IF stream = "subscribed" THEN "ending" ELSE stream
          /\ missed' = TRUE /\ UNCHANGED buffer
  /\ UNCHANGED <<world, drops, placeVars, shown, loading, lists, overtaken, dialogVars>>

\* The handler answers before it subscribes; nothing is read from the lists.
Subscribe ==
  /\ stream = "connecting" /\ stream' = "subscribed"
  /\ UNCHANGED <<world, due, buffer, drops, placeVars, listVars, dialogVars>>

\* Mutant: no listener for one of the two event types.
InvalidateNothing == UNCHANGED <<lists, missed>>
Invalidate == Sending("refresh")

Deliver ==
  /\ stream \in {"subscribed", "ending"} /\ buffer > 0 /\ buffer' = buffer - 1
  /\ Invalidate
  /\ UNCHANGED <<world, due, stream, drops, placeVars, shown, loading, overtaken,
                 dialogVars>>

\* The stream of a dropped subscriber ends; the EventSource connects again.
EndOfStream ==
  /\ stream = "ending" /\ buffer = 0 /\ stream' = "connecting"
  /\ UNCHANGED <<world, due, buffer, drops, placeVars, listVars, dialogVars>>

Disconnect ==
  /\ stream \in {"subscribed", "ending"} /\ drops < MaxDrops /\ drops' = drops + 1
  /\ stream' = "connecting" /\ buffer' = 0 /\ missed' = (missed \/ buffer > 0)
  /\ UNCHANGED <<world, due, placeVars, shown, loading, lists, overtaken, dialogVars>>

---------------------------------------------------------------------------
(* AppShell *)

\* The page is mounted anew; whatever the old one awaited is ignored.
Mount(next) ==
  /\ page' = next
  /\ IF next = page
     THEN UNCHANGED <<stream, buffer, listVars, dialogVars>>
     ELSE /\ stream' = IF next = "dashboard" THEN "off" ELSE "connecting"
          /\ buffer' = 0 /\ shown' = 0 /\ loading' = TRUE
          /\ missed' = FALSE /\ overtaken' = FALSE
          /\ lists' = IF next = "dashboard" THEN << >>
                      ELSE <<[purpose |-> "load", read |-> 0, late |-> FALSE]>>
          /\ selected' = Nothing /\ confirmation' = FALSE /\ submitting' = FALSE
          /\ submission' = "none" /\ own' = 0 /\ known' = 0

Move(next) ==
  /\ moves < MaxMoves /\ moves' = moves + 1
  /\ path' = next
  /\ UNCHANGED <<world, due, drops>>

\* A navigation button, or one of the dashboard's.
Navigate == \E next \in Paths \ Servers : Move(next) /\ Mount(PageFromPath(next))

\* Mutant: no listener for popstate.
PopUnheard(next) == UNCHANGED <<page, stream, buffer, listVars, dialogVars>>
OnPopState(next) == Mount(PageFromPath(next))

Back == \E next \in Paths : Move(next) /\ OnPopState(next)

---------------------------------------------------------------------------
(* The detail and the confirmation dialog of ServersPage *)

\* The confirmation stays set, and asks about the server that is opened now.
OpenDetail ==
  /\ page = "servers" /\ ~loading
  /\ \E s \in Listed : selected' = s /\ path' = s
  /\ UNCHANGED <<world, due, streamVars, page, moves, listVars, confirmation,
                 submitting, submission, own, known>>

CloseDetail ==
  /\ DetailShown
  /\ selected' = Nothing /\ confirmation' = FALSE /\ path' = "/servers"
  /\ UNCHANGED <<world, due, streamVars, page, moves, listVars, submitting,
                 submission, own, known>>

Choose ==
  /\ DetailShown /\ confirmation' = TRUE
  /\ UNCHANGED <<world, due, streamVars, placeVars, listVars, selected,
                 submitting, submission, own, known>>

\* Closing the dialog leaves its submission under way.
SubmittingKept == UNCHANGED submitting

\* The button waits for the submission, the backdrop does not.
Cancel ==
  /\ DialogShown /\ confirmation' = FALSE /\ SubmittingKept
  /\ UNCHANGED <<world, due, streamVars, placeVars, listVars, selected,
                 submission, own, known>>

Confirm ==
  /\ DialogShown /\ ~submitting
  /\ submitting' = TRUE /\ submission' = "sent"
  /\ UNCHANGED <<world, due, streamVars, placeVars, listVars, selected,
                 confirmation, own, known>>

\* The server queues the operation or refuses it.
AnswerPost ==
  /\ submission = "sent"
  /\ \/ submission' = "accepted" /\ Announced /\ own' = Now + 1
     \/ submission' = "refused" /\ UNCHANGED <<world, due, missed, own>>
  /\ UNCHANGED <<streamVars, placeVars, shown, loading, lists, overtaken, selected,
                 confirmation, submitting, known>>

\* Mutant: a list call that is in flight already will do.
PostSucceedsSharing ==
  /\ submission = "accepted" /\ submission' = "refreshing"
  /\ confirmation' = FALSE
  /\ IF lists = << >> THEN Sending("submission")
     ELSE /\ lists' = [lists EXCEPT ![Len(lists)].purpose = "submission"]
          /\ UNCHANGED missed
  /\ UNCHANGED <<world, due, streamVars, placeVars, shown, loading, overtaken,
                 selected, submitting, own, known>>

\* Whatever dialog is open now is closed, and the list is asked for.
PostSucceeds ==
  /\ submission = "accepted" /\ submission' = "refreshing"
  /\ confirmation' = FALSE /\ Sending("submission")
  /\ UNCHANGED <<world, due, streamVars, placeVars, shown, loading, overtaken,
                 selected, submitting, own, known>>

\* Refused, or the answer was lost.
PostFails ==
  /\ submission \in {"accepted", "refused"}
  /\ Ends("submission")
  /\ UNCHANGED <<world, due, streamVars, placeVars, listVars, selected,
                 confirmation, own, known>>

---------------------------------------------------------------------------

\* The first page is that of the path the document was opened with.
Init ==
  /\ world \in {<<listed>> : listed \in SUBSET Servers} /\ due = 0
  /\ path \in Paths /\ page = PageFromPath(path) /\ moves = 0
  /\ stream = IF page = "dashboard" THEN "off" ELSE "connecting"
  /\ buffer = 0 /\ drops = 0
  /\ shown = 0 /\ loading = TRUE
  /\ lists = IF page = "dashboard" THEN << >>
             ELSE <<[purpose |-> "load", read |-> 0, late |-> FALSE]>>
  /\ selected = Nothing /\ confirmation = FALSE
  /\ submitting = FALSE /\ submission = "none"
  /\ missed = FALSE /\ overtaken = FALSE /\ own = 0 /\ known = 0

ListStep == \E i \in 1..Len(lists) : Read(i) \/ Arrive(i) \/ Fail(i)
PostStep == AnswerPost \/ PostSucceeds \/ PostFails
EventStep == Change \/ Publish \/ Subscribe \/ Deliver \/ EndOfStream \/ Disconnect
UserStep == \/ Navigate \/ Back
            \/ OpenDetail \/ CloseDetail \/ Choose \/ Cancel \/ Confirm

Next == ListStep \/ PostStep \/ EventStep \/ UserStep

Spec == Init /\ [][Next]_vars

\* Calls are answered or fail.
FairSpec == Spec /\ WF_vars(ListStep) /\ WF_vars(PostStep)

---------------------------------------------------------------------------
(* Properties *)

\* The variables keep their types; the page shown is that of the path; the
\* buttons are disabled while a submission or its refresh is awaited
\* (AppShell.tsx:29, ServersPage.tsx:80-90).
ServersTypeOK ==
  /\ world \in Seq(SUBSET Servers) /\ Now \in 1..MaxChanges + 1
  /\ due \in 0..MaxChanges /\ buffer \in 0..Buffer
  /\ stream \in {"off", "connecting", "subscribed", "ending"}
  /\ path \in Paths /\ page = PageFromPath(path)
  /\ lists \in Seq(ListCalls) /\ shown \in 0..Now
  /\ selected \in Servers \cup {Nothing} /\ {own, known} \subseteq 0..Now
  /\ {loading, confirmation, missed, overtaken} \subseteq BOOLEAN
  /\ submission \in {"none", "sent", "accepted", "refused", "refreshing"}
  /\ submitting \in BOOLEAN /\ (submission # "none" => submitting)
  /\ submission = "refreshing" <=>
       \E i \in 1..Len(lists) : lists[i].purpose = "submission"

\* Once everything has been answered a page shows the present, unless a change
\* raised no event for it, its event was lost (docs/operations.md:52 lets the
\* client refresh after it connects again, useServerEvents.ts does not) or an
\* older list came in after a newer one (ServersPage.tsx:38-40 keeps no order).
StaleOnlyByLossOrOvertaking ==
  Listing /\ lists = << >> /\ due = 0 /\ buffer = 0 /\ ~missed /\ ~overtaken
    => shown = Now

\* After "queued" the page shows its own change: the list asked for after an
\* operation was accepted knows of it (ServersPage.tsx:82-85), and of the lists
\* in flight only one that was asked for before can take the page back.
OwnChangeShown == shown < known => overtaken

\* The buttons of the dialog are usable again whatever becomes of the request
\* and of the refresh after it (the finally block of confirmAction).
ButtonsReturn == submitting ~> ~submitting
=============================================================================
