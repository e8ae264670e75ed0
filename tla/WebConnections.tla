---------------------------- MODULE WebConnections ----------------------------
(***************************************************************************)
(* Provider connections, in the browser and on the server: ConnectionsPage  *)
(* with its form and its polling of the list, the operations of the         *)
(* connections service, and the synchronisation jobs of the worker.         *)
(*                                                                         *)
(* Calls are sent, worked on and answered in separate steps, so that the    *)
(* answers of polls, forms, tests and deletions come in any order.          *)
(***************************************************************************)
EXTENDS Integers, Sequences, FiniteSets

CONSTANTS
  Failing,      \* what a failing provider makes of the health
  MaxRows,      \* bound: connections created
  MaxForms,     \* bound: times the form is opened
  MaxPolls,     \* bound: lists read and still in flight
  MaxClicks,    \* bound: tests, deletions, edits, synchronisations asked for
  MaxFaults     \* bound: creations that fail or whose answer is lost

ASSUME FailingAssumption == Failing \subseteq {"degraded", "offline"}
ASSUME BoundsAssumption ==
  /\ {MaxRows, MaxForms, MaxClicks, MaxFaults} \subseteq Nat
  /\ MaxPolls \in Nat \ {0}

Conns == 1..MaxRows
Forms == 1..MaxForms
None == 0

VARIABLES
  rows,        \* provider_connections, with what the last sync put into servers
  queue,       \* connections with a synchronisation job that waits
  sync,        \* connection the worker synchronises
  queued,      \* history: connections for which a job was ever enqueued
  cards,       \* connections of ConnectionsPage
  polls,       \* lists the server has read for a load or a poll, in flight
  form,        \* the form shown, numbered in the order of opening
  opened,
  submitting,  \* submitting of each form
  creates,     \* createConnection of each form: how far the call is
  test, removal, \* handleTest and handleDelete in flight
  request,     \* an edit or a synchronisation that an API client asked for
  clicks, faults

storeVars == <<rows, queue, sync, queued>>
pageVars == <<cards, polls, form, opened, submitting>>
callVars == <<creates, test, removal, request>>
boundVars == <<clicks, faults>>
vars == <<storeVars, pageVars, callVars, boundVars>>

Healths == {"unknown", "healthy", "degraded", "offline"}
Rows == [state: {"absent", "active", "deleted"}, enabled: BOOLEAN, health: Healths,
         listed: BOOLEAN, form: 0..MaxForms]
NoRow == [state |-> "absent", enabled |-> FALSE, health |-> "unknown",
          listed |-> FALSE, form |-> 0]
Cards == [id: Conns, health: Healths]
Phases == {"none", "sent", "inserted", "ok", "error"}
Tests == [id: Conns \cup {None}, phase: {"none", "sent", "validated", "ok", "error"},
          health: Healths]
Removals == [id: Conns \cup {None}, phase: {"none", "sent", "ok", "error"}]
Requests == [id: Conns \cup {None}, phase: {"none", "found", "stored"}, enabled: BOOLEAN]
NoTest == [id |-> None, phase |-> "none", health |-> "unknown"]
NoRemoval == [id |-> None, phase |-> "none"]
NoRequest == [id |-> None, phase |-> "none", enabled |-> FALSE]

Active(c) == rows[c].state = "active"

\* The numbers of a finite set, in their order.
InOrder(S) == CHOOSE f \in [1..Cardinality(S) -> S] :
                \A i, j \in DOMAIN f : i < j => f[i] < f[j]

\* GET /connections: the rows that are not deleted, in the order of creation.
Stored == LET ids == InOrder({c \in Conns : Active(c)})
          IN [i \in DOMAIN ids |-> [id |-> ids[i], health |-> rows[ids[i]].health]]

Fault == faults < MaxFaults /\ faults' = faults + 1 /\ UNCHANGED clicks
Click == clicks < MaxClicks /\ clicks' = clicks + 1 /\ UNCHANGED faults

---------------------------------------------------------------------------
(* The connections service *)

\* Mutant: the statements do not look at deleted_at.
AnyRow(c) == TRUE
Writable(c) == Active(c)

SetHealth(c, health) ==
  rows' = IF Writable(c) THEN [rows EXCEPT ![c].health = health] ELSE rows

Enqueue(c) == queue' = queue \cup {c} /\ queued' = queued \cup {c}

\* Create: the credentials are refused, or the row is inserted.
Insert(f) ==
  /\ creates[f] = "sent"
  /\ \/ creates' = [creates EXCEPT ![f] = "error"] /\ UNCHANGED rows
     \/ \E c \in Conns :
          /\ rows[c].state = "absent" /\ \A d \in 1..c - 1 : rows[d].state # "absent"
          /\ rows' = [rows EXCEPT ![c] = [NoRow EXCEPT !.state = "active",
                                            !.enabled = TRUE, !.form = f]]
          /\ creates' = [creates EXCEPT ![f] = "inserted"]
  /\ UNCHANGED <<queue, sync, queued, pageVars, test, removal, request, boundVars>>

\* The row of form f that was inserted last.
RowOf(f) == CHOOSE c \in Conns : /\ rows[c].form = f
                                 /\ \A d \in Conns : rows[d].form = f => d <= c

\* Mutant: the error of the queue is dropped.
QueueErrorDropped == "ok"
QueueErrorAnswer == "error"

\* The first synchronisation is enqueued; a failing queue leaves the row.
EnqueueFirstSync(f) ==
  /\ creates[f] = "inserted"
  /\ \/ Enqueue(RowOf(f)) /\ creates' = [creates EXCEPT ![f] = "ok"]
        /\ UNCHANGED boundVars
     \/ Fault /\ creates' = [creates EXCEPT ![f] = QueueErrorAnswer]
        /\ UNCHANGED <<queue, queued>>
  /\ UNCHANGED <<rows, sync, pageVars, test, removal, request>>

\* RequestSync: the connection is found and enabled, and then its job enqueued.
RequestSync(c) ==
  /\ Click /\ request = NoRequest /\ Active(c) /\ rows[c].enabled
  /\ request' = [id |-> c, phase |-> "stored", enabled |-> TRUE]
  /\ UNCHANGED <<storeVars, pageVars, creates, test, removal>>

\* Update, with enabled as the client says: found, stored, and enqueued if enabled.
Update(c) ==
  /\ Click /\ request = NoRequest /\ Active(c)
  /\ \E enabled \in BOOLEAN : request' = [id |-> c, phase |-> "found", enabled |-> enabled]
  /\ UNCHANGED <<storeVars, pageVars, creates, test, removal>>

StoreEdit ==
  /\ request.phase = "found"
  /\ rows' = IF Writable(request.id) THEN [rows EXCEPT ![request.id].enabled = request.enabled]
             ELSE rows
  /\ request' = IF Writable(request.id) /\ request.enabled
                THEN [request EXCEPT !.phase = "stored"] ELSE NoRequest
  /\ UNCHANGED <<queue, sync, queued, pageVars, creates, test, removal, boundVars>>

\* The queue may refuse; an edit is stored all the same.
EnqueueSync ==
  /\ request.phase = "stored" /\ request' = NoRequest
  /\ Enqueue(request.id) \/ UNCHANGED <<queue, queued>>
  /\ UNCHANGED <<rows, sync, pageVars, creates, test, removal, boundVars>>

\* Test: the credentials are read and tried, then the health is stored.
Validate ==
  /\ test.phase = "sent"
  /\ IF Active(test.id)
     THEN \E health \in Failing \cup {"healthy"} :
            test' = [test EXCEPT !.phase = "validated", !.health = health]
     ELSE test' = [test EXCEPT !.phase = "error"]
  /\ UNCHANGED <<storeVars, pageVars, creates, removal, request, boundVars>>

StoreHealth ==
  /\ test.phase = "validated" /\ SetHealth(test.id, test.health)
  /\ test' = [test EXCEPT !.phase = IF Writable(test.id) THEN "ok" ELSE "error"]
  /\ UNCHANGED <<queue, sync, queued, pageVars, creates, removal, request, boundVars>>

SoftDelete ==
  /\ removal.phase = "sent"
  /\ IF Active(removal.id)
     THEN /\ rows' = [rows EXCEPT ![removal.id].state = "deleted",
                                  ![removal.id].enabled = FALSE]
          /\ removal' = [removal EXCEPT !.phase = "ok"]
     ELSE removal' = [removal EXCEPT !.phase = "error"] /\ UNCHANGED rows
  /\ UNCHANGED <<queue, sync, queued, pageVars, creates, test, request, boundVars>>

---------------------------------------------------------------------------
(* SyncConnection, one job after the other *)

\* A deleted or a disabled connection ends its job.
StartSync(c) ==
  /\ sync = None /\ c \in queue /\ queue' = queue \ {c}
  /\ sync' = IF Active(c) /\ rows[c].enabled THEN c ELSE None
  /\ UNCHANGED <<rows, queued, pageVars, callVars, boundVars>>

\* ApplyCompleteSync is one transaction; without the connection it is rolled back.
ApplyCompleteSync ==
  /\ sync # None /\ sync' = None
  /\ rows' = IF Writable(sync)
             THEN [rows EXCEPT ![sync].listed = TRUE, ![sync].health = "healthy"]
             ELSE rows
  /\ UNCHANGED <<queue, queued, pageVars, callVars, boundVars>>

RecordFailure ==
  /\ sync # None /\ sync' = None
  /\ \E health \in Failing : SetHealth(sync, health)
  /\ UNCHANGED <<queue, queued, pageVars, callVars, boundVars>>

---------------------------------------------------------------------------
(* ConnectionsPage *)

\* Mutant: the interval is cleared with the first answer.
PolledOnce == cards = << >>
IntervalRuns == TRUE

\* The first load and every tick of the timer; a call counts from the moment
\* the server reads the list, and ticks do not wait for the calls before.
Poll ==
  /\ IntervalRuns /\ Cardinality(polls) < MaxPolls
  /\ polls' = polls \cup {Stored}
  /\ UNCHANGED <<storeVars, cards, form, opened, submitting, callVars, boundVars>>

PollArrive ==
  /\ \E items \in polls : cards' = items /\ polls' = polls \ {items}
  /\ UNCHANGED <<storeVars, form, opened, submitting, callVars, boundVars>>

\* A failed poll changes nothing, a failed first load shows an error.
PollFail ==
  /\ \E items \in polls : polls' = polls \ {items}
  /\ UNCHANGED <<storeVars, cards, form, opened, submitting, callVars, boundVars>>

OpenForm ==
  /\ form = None /\ opened < MaxForms
  /\ opened' = opened + 1 /\ form' = opened + 1
  /\ UNCHANGED <<storeVars, cards, polls, submitting, callVars, boundVars>>

\* The form may be closed while its call is under way.
CancelForm ==
  /\ form # None /\ form' = None
  /\ UNCHANGED <<storeVars, cards, polls, opened, submitting, callVars, boundVars>>

\* Mutant: the button is not disabled.
AlwaysUsable(f) == TRUE
Usable(f) == ~submitting[f]

\* Mutant: submit does not set submitting.
WaitsUnseen(f) == UNCHANGED submitting
Waits(f) == submitting' = [submitting EXCEPT ![f] = TRUE]

Submit ==
  /\ form # None /\ Usable(form) /\ Waits(form)
  /\ creates' = [creates EXCEPT ![form] = "sent"]
  /\ UNCHANGED <<storeVars, cards, polls, form, opened, test, removal, request, boundVars>>

\* Mutant: no finally block.
StaysSubmitting(f) == UNCHANGED submitting
Resubmittable(f) == submitting' = [submitting EXCEPT ![f] = FALSE]

\* handleCreate appends a card and closes whichever form is open now.
CreateSucceeds(f) ==
  /\ creates[f] = "ok" /\ creates' = [creates EXCEPT ![f] = "none"]
  /\ cards' = Append(cards, [id |-> RowOf(f), health |-> "unknown"])
  /\ form' = None /\ Resubmittable(f)
  /\ UNCHANGED <<storeVars, polls, opened, test, removal, request, boundVars>>

\* The service refused, or its answer was lost.
CreateFails(f) ==
  /\ \/ creates[f] = "error" /\ UNCHANGED boundVars
     \/ creates[f] = "ok" /\ Fault
  /\ creates' = [creates EXCEPT ![f] = "none"] /\ Resubmittable(f)
  /\ UNCHANGED <<storeVars, cards, polls, form, opened, test, removal, request>>

ShownIds == {cards[i].id : i \in 1..Len(cards)}

ClickTest(c) ==
  /\ Click /\ form = None /\ c \in ShownIds /\ test = NoTest
  /\ test' = [NoTest EXCEPT !.id = c, !.phase = "sent"]
  /\ UNCHANGED <<storeVars, pageVars, creates, removal, request>>

\* The card shows degraded for every failed test.
TestReturns ==
  /\ test.phase \in {"ok", "error"} /\ test' = NoTest
  /\ cards' = IF test.phase = "error" THEN cards
              ELSE [i \in 1..Len(cards) |->
                     IF cards[i].id = test.id
                     THEN [cards[i] EXCEPT !.health =
                            IF test.health = "healthy" THEN "healthy" ELSE "degraded"]
                     ELSE cards[i]]
  /\ UNCHANGED <<storeVars, polls, form, opened, submitting, creates, removal, request, boundVars>>

ClickDelete(c) ==
  /\ Click /\ form = None /\ c \in ShownIds /\ removal = NoRemoval
  /\ removal' = [id |-> c, phase |-> "sent"]
  /\ UNCHANGED <<storeVars, pageVars, creates, test, request>>

DeleteReturns ==
  /\ removal.phase \in {"ok", "error"} /\ removal' = NoRemoval
  /\ LET others == InOrder({i \in DOMAIN cards : cards[i].id # removal.id}) IN
     cards' = IF removal.phase = "ok" THEN [i \in DOMAIN others |-> cards[others[i]]]
              ELSE cards
  /\ UNCHANGED <<storeVars, polls, form, opened, submitting, creates, test, request, boundVars>>

---------------------------------------------------------------------------

Init ==
  /\ rows = [c \in Conns |-> NoRow] /\ queue = {} /\ sync = None /\ queued = {}
  /\ cards = << >> /\ polls = {}
  /\ form = None /\ opened = 0 /\ submitting = [f \in Forms |-> FALSE]
  /\ creates = [f \in Forms |-> "none"] /\ test = NoTest /\ removal = NoRemoval
  /\ request = NoRequest /\ clicks = 0 /\ faults = 0

CreateStep(f) == Insert(f) \/ EnqueueFirstSync(f) \/ CreateSucceeds(f) \/ CreateFails(f)
CallStep == \/ Validate \/ StoreHealth \/ TestReturns
            \/ SoftDelete \/ DeleteReturns
            \/ StoreEdit \/ EnqueueSync
SyncStep == \/ \E c \in Conns : StartSync(c)
            \/ ApplyCompleteSync \/ RecordFailure
UserStep == \/ OpenForm \/ CancelForm \/ Submit
            \/ \E c \in Conns : \/ ClickTest(c) \/ ClickDelete(c)
                                \/ RequestSync(c) \/ Update(c)

Next == \/ Poll \/ PollArrive \/ PollFail
        \/ \E f \in Forms : CreateStep(f)
        \/ CallStep \/ SyncStep \/ UserStep

Spec == Init /\ [][Next]_vars

\* The timer ticks, not every poll fails, calls are answered and jobs end.
FairSpec == /\ Spec
            /\ WF_vars(Poll) /\ SF_vars(PollArrive)
            /\ \A f \in Forms : WF_vars(CreateStep(f))
            /\ WF_vars(CallStep) /\ WF_vars(SyncStep)

---------------------------------------------------------------------------
(* Properties *)

\* The variables keep their types; a form waits while its call is under way,
\* also after the form was closed (ConnectionsPage.tsx:114).
ConnectionsTypeOK ==
  /\ rows \in [Conns -> Rows] /\ queue \subseteq queued /\ queued \subseteq Conns
  /\ sync \in Conns \cup {None}
  /\ cards \in Seq(Cards) /\ polls \subseteq Seq(Cards)
  /\ Cardinality(polls) <= MaxPolls
  /\ form \in 0..opened /\ opened \in 0..MaxForms
  /\ creates \in [Forms -> Phases] /\ test \in Tests /\ removal \in Removals
  /\ request \in Requests
  /\ submitting \in [Forms -> BOOLEAN]
  /\ \A f \in Forms : creates[f] # "none" => submitting[f]
  /\ clicks \in 0..MaxClicks /\ faults \in 0..MaxFaults

\* Nothing that was under way when a connection was deleted brings it back or
\* touches it: not a listing of its servers, not a test of its credentials,
\* not an edit that had found it (the deleted_at conditions of sql_repository.go and the
\* rollback of ApplyCompleteSync).
DeletedStaysDeleted ==
  [][\A c \in Conns : rows[c].state = "deleted" => rows'[c] = rows[c]]_vars

\* When the page says that the connection is saved and its synchronisation
\* queued, the job was enqueued (service.go:111, ConnectionsPage.tsx:41).
SavedMeansQueued ==
  \A f \in Forms : creates[f] = "ok" => RowOf(f) \in queued

\* A form creates one connection, unless an attempt failed after its row was
\* inserted: the queue refused the job or the answer was lost, and the user was
\* told that nothing was saved (service.go:112, ConnectionsPage.tsx:143).
SecondRowOnlyAfterFault ==
  \A f \in Forms : Cardinality({c \in Conns : rows[c].form = f}) <= 1 + faults

\* However polls, creations, tests and deletions interleave, the page ends up
\* with the stored connections and keeps them (ConnectionsPage.tsx:30-35).
CardsConverge == <>[](cards = Stored)

\* The form can be submitted again whatever its call came to
\* (the finally block of submit).
FormAnswers == \A f \in Forms : submitting[f] ~> ~submitting[f]
=============================================================================
