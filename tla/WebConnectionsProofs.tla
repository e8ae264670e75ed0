------------------------- MODULE WebConnectionsProofs -------------------------
(***************************************************************************)
(* Proofs about WebConnections, for any number of connections, forms, polls,*)
(* clicks and faults.  Every write of the service and of a synchronisation  *)
(* looks at the row it changes; the rows a form inserted are counted        *)
(* against the failures its attempts met; what the page shows are lists the *)
(* server read, and cards added, changed or taken out since.                *)
(***************************************************************************)
EXTENDS WebConnections, FiniteSetTheorems, WellFoundedInduction, TLAPS

\* The table, and the calls that work on it.
RowsOK ==
  /\ rows \in [Conns -> Rows]
  /\ \A c \in Conns : rows[c].state = "absent" => rows[c] = NoRow

CallsOK ==
  /\ sync \in Conns \cup {None}
  /\ creates \in [Forms -> Phases] /\ submitting \in [Forms -> BOOLEAN]
  /\ test \in Tests /\ (test.phase # "none" => test.id \in Conns)
  /\ removal \in Removals /\ (removal.phase # "none" => removal.id \in Conns)
  /\ request \in Requests /\ (request.phase # "none" => request.id \in Conns)
  /\ opened \in 0..MaxForms /\ form \in 0..opened /\ faults \in Nat

\* The rows form f inserted.
Inserted(f) == {c \in Conns : rows[c].form = f}

\* A form whose call is under way cannot be submitted; one that can be has met
\* a failure for every row it inserted.
FormOK(f) ==
  /\ creates[f] # "none" => submitting[f]
  /\ f > opened => creates[f] = "none" /\ Inserted(f) = {}
  /\ Cardinality(Inserted(f)) <=
       IF creates[f] \in {"inserted", "ok"} \/ (creates[f] = "none" /\ form # f)
       THEN 1 + faults ELSE faults

\* What the page shows, what is on its way to it, and the queue.  A call whose
\* row is in has one, so that RowOf is about a connection.
PageOK ==
  /\ cards \in Seq(Cards) /\ polls \subseteq Seq(Cards)
  /\ IsFiniteSet(polls) /\ Cardinality(polls) <= MaxPolls
  /\ queue \subseteq queued /\ queued \subseteq Conns
  /\ clicks \in 0..MaxClicks /\ faults \in 0..MaxFaults
  /\ \A f \in Forms : creates[f] = "inserted" => Inserted(f) # {}

Inv ==
  RowsOK /\ CallsOK /\ PageOK /\ (\A f \in Forms : FormOK(f)) /\ SavedMeansQueued

-----------------------------------------------------------------------------

\* What a step may do to the rows.
RowStep ==
  \/ rows' = rows
  \/ \E c \in Conns, row \in Rows :
       /\ rows[c].state = "active" /\ row.state # "absent" /\ row.form = rows[c].form
       /\ rows' = [rows EXCEPT ![c] = row]

\* Every step but Insert keeps the rows, or changes one that is there.
LEMMA RowsKept ==
  ASSUME RowsOK, CallsOK, Next, \A f \in Forms : ~Insert(f)
  PROVE  RowStep
<1>1. ASSUME NEW c \in Conns, NEW health \in Healths, SetHealth(c, health)
      PROVE  RowStep
  <2>. DEFINE row == [rows[c] EXCEPT !.health = health]
  <2>1. row \in Rows /\ row.form = rows[c].form /\ row.state = rows[c].state
    BY DEF RowsOK, Rows
  <2>2. rows' = rows \/ (Active(c) /\ rows' = [rows EXCEPT ![c] = row])
    BY <1>1 DEF SetHealth, Writable
  <2>. HIDE DEF row
  <2>. QED
    BY <2>1, <2>2 DEF RowStep, Active
<1>2. ASSUME NEW f \in Forms, CreateStep(f) PROVE RowStep
  BY <1>2, Zenon DEF CreateStep, EnqueueFirstSync, CreateSucceeds, CreateFails, RowStep, storeVars
<1>3. CASE Poll \/ PollArrive \/ PollFail \/ OpenForm \/ CancelForm \/ Submit
  BY <1>3, Zenon DEF Poll, PollArrive, PollFail, OpenForm, CancelForm, Submit, RowStep, storeVars
<1>4. ASSUME NEW c \in Conns, ClickTest(c) \/ ClickDelete(c) \/ RequestSync(c) \/ Update(c)
      PROVE  RowStep
  BY <1>4, Zenon DEF ClickTest, ClickDelete, RequestSync, Update, RowStep, storeVars
<1>5. CASE StoreEdit
  <2>0. PICK c \in Conns : c = request.id
    BY <1>5 DEF StoreEdit, CallsOK
  <2>. DEFINE row == [rows[c] EXCEPT !.enabled = request.enabled]
  <2>1. row \in Rows /\ row.form = rows[c].form /\ row.state = rows[c].state
    BY DEF RowsOK, CallsOK, Rows, Requests
  <2>2. rows' = rows \/ (Active(c) /\ rows' = [rows EXCEPT ![c] = row])
    BY <1>5, <2>0 DEF StoreEdit, Writable
  <2>. HIDE DEF row
  <2>. QED
    BY <2>1, <2>2 DEF RowStep, Active
<1>6. CASE Validate \/ TestReturns \/ DeleteReturns \/ EnqueueSync
  BY <1>6, Zenon DEF Validate, TestReturns, DeleteReturns, EnqueueSync, RowStep, storeVars
<1>7. CASE StoreHealth
  <2>1. test.id \in Conns /\ test.health \in Healths /\ SetHealth(test.id, test.health)
    BY <1>7 DEF StoreHealth, RowsOK, CallsOK, Tests
  <2>. QED
    BY <1>1, <2>1
<1>8. CASE SoftDelete
  <2>1. PICK c \in Conns : c = removal.id
    BY <1>8 DEF SoftDelete, RowsOK, CallsOK
  <2>. DEFINE row == [rows[c] EXCEPT !.state = "deleted", !.enabled = FALSE]
  <2>2. row \in Rows /\ row.form = rows[c].form /\ row.state = "deleted"
    BY DEF RowsOK, Rows
  <2>3. rows' = rows \/ (Active(c) /\ rows' = [rows EXCEPT ![c] = row])
    BY <1>8, <2>1 DEF SoftDelete, RowsOK, CallsOK, Rows
  <2>. HIDE DEF row
  <2>. QED
    BY <2>2, <2>3 DEF RowStep, Active
<1>9. ASSUME NEW c \in Conns, StartSync(c) PROVE RowStep
  BY <1>9 DEF StartSync, RowStep
<1>10. CASE ApplyCompleteSync
  <2>1. PICK c \in Conns : c = sync
    BY <1>10 DEF ApplyCompleteSync, RowsOK, CallsOK
  <2>. DEFINE row == [rows[c] EXCEPT !.listed = TRUE, !.health = "healthy"]
  <2>2. row \in Rows /\ row.form = rows[c].form /\ row.state = rows[c].state
    BY DEF RowsOK, Rows, Healths
  <2>3. rows' = rows \/ (Active(c) /\ rows' = [rows EXCEPT ![c] = row])
    BY <1>10, <2>1 DEF ApplyCompleteSync, RowsOK, CallsOK, Rows, Writable
  <2>. HIDE DEF row
  <2>. QED
    BY <2>2, <2>3 DEF RowStep, Active
<1>11. CASE RecordFailure
  <2>1. PICK health \in Failing : SetHealth(sync, health)
    BY <1>11 DEF RecordFailure
  <2>2. sync \in Conns /\ health \in Healths
    BY <1>11, FailingAssumption DEF RecordFailure, Healths, RowsOK, CallsOK
  <2>. QED
    BY <1>1, <2>1, <2>2
<1>. QED
  BY <1>2, <1>3, <1>4, <1>5, <1>6, <1>7, <1>8, <1>9, <1>10, <1>11
  DEF Next, CallStep, SyncStep, UserStep

\* An attempt inserts its row where there was none.
LEMMA RowInserted ==
  ASSUME RowsOK, NEW f \in Forms, Insert(f)
  PROVE  \/ rows' = rows /\ creates' = [creates EXCEPT ![f] = "error"]
         \/ \E c \in Conns, row \in Rows :
              /\ rows[c].state = "absent" /\ row.state = "active" /\ row.form = f
              /\ rows' = [rows EXCEPT ![c] = row]
              /\ creates' = [creates EXCEPT ![f] = "inserted"]
<1>1. CASE rows' = rows /\ creates' = [creates EXCEPT ![f] = "error"]
  BY <1>1
<1>2. CASE \E c \in Conns :
             /\ rows[c].state = "absent"
             /\ rows' = [rows EXCEPT ![c] = [NoRow EXCEPT !.state = "active",
                                               !.enabled = TRUE, !.form = f]]
             /\ creates' = [creates EXCEPT ![f] = "inserted"]
  <2>. DEFINE row == [NoRow EXCEPT !.state = "active", !.enabled = TRUE, !.form = f]
  <2>0. f \in 0..MaxForms
    BY BoundsAssumption DEF Forms
  <2>1. row \in Rows /\ row.state = "active" /\ row.form = f
    BY <2>0 DEF NoRow, Rows, Healths
  <2>2. PICK c \in Conns : /\ rows[c].state = "absent" /\ rows' = [rows EXCEPT ![c] = row]
                           /\ creates' = [creates EXCEPT ![f] = "inserted"]
    BY <1>2
  <2>. HIDE DEF row
  <2>. QED
    BY <2>1, <2>2
<1>. QED
  BY <1>1, <1>2 DEF Insert

\* The tables keep their form.
LEMMA RowsStep ==
  ASSUME RowsOK, CallsOK, Next
  PROVE  RowsOK'
<1>1. CASE \A f \in Forms : ~Insert(f)
  <2>1. RowStep
    BY <1>1, RowsKept
  <2>. QED
    BY <2>1 DEF RowStep, RowsOK
<1>2. ASSUME NEW f \in Forms, Insert(f) PROVE RowsOK'
  BY <1>2, RowInserted DEF RowsOK
<1>. QED
  BY <1>1, <1>2

\* Nothing stored and no form open: the invariant holds at the start.
LEMMA InitInv == Init => Inv
<1>. SUFFICES ASSUME Init PROVE Inv
  OBVIOUS
<1>1. RowsOK /\ CallsOK
  BY BoundsAssumption
  DEF Init, RowsOK, CallsOK, NoRow, Rows, Healths, None, Phases, Tests, Removals, NoTest, NoRemoval,
      Requests, NoRequest
<1>2. ASSUME NEW f \in Forms PROVE FormOK(f) /\ creates[f] # "ok"
  <2>1. Inserted(f) = {} /\ creates[f] = "none"
    BY DEF Init, Inserted, NoRow, Forms
  <2>. QED
    BY <2>1, FS_EmptySet DEF Init, FormOK
<1>3. PageOK
  <2>1. cards \in Seq(Cards) /\ polls = {} /\ IsFiniteSet({}) /\ Cardinality({}) = 0
    BY FS_EmptySet DEF Init
  <2>. QED
    BY <2>1, BoundsAssumption DEF Init, PageOK
<1>. QED
  BY <1>1, <1>2, <1>3 DEF Inv, SavedMeansQueued

\* The calls are about connections, and the bounds are kept.
LEMMA CallsStep ==
  ASSUME CallsOK, Next
  PROVE  CallsOK'
<1>1. CallsOK /\ MaxForms \in Nat
  BY BoundsAssumption
<1>2. ASSUME NEW f \in Forms, CreateStep(f) PROVE CallsOK'
  <2>1. UNCHANGED <<sync, test, removal, request, opened>>
    BY <1>2 DEF CreateStep, Insert, EnqueueFirstSync, CreateSucceeds, CreateFails,
                pageVars, storeVars
  <2>2. creates' \in [Forms -> Phases]
    BY <1>1, <1>2 DEF CallsOK, CreateStep, Insert, EnqueueFirstSync, CreateSucceeds, CreateFails,
                      QueueErrorAnswer, Phases
  <2>3. submitting' \in [Forms -> BOOLEAN] /\ form' \in {None, form}
    BY <1>1, <1>2 DEF CallsOK, CreateStep, Insert, EnqueueFirstSync, CreateSucceeds, CreateFails,
                      Resubmittable, pageVars
  <2>4. faults' \in {faults, faults + 1}
    BY <1>2 DEF CreateStep, Insert, EnqueueFirstSync, CreateSucceeds, CreateFails,
                boundVars, Fault
  <2>. QED
    BY <1>1, <2>1, <2>2, <2>3, <2>4 DEF CallsOK, None
<1>3. CASE Poll \/ PollArrive \/ PollFail
  <2>1. UNCHANGED <<sync, creates, submitting, test, removal, request, opened, form>>
    BY <1>3 DEF Poll, PollArrive, PollFail, storeVars, callVars
  <2>2. faults' = faults
    BY <1>3 DEF Poll, PollArrive, PollFail, boundVars
  <2>. QED
    BY <1>1, <2>1, <2>2 DEF CallsOK
<1>4. CASE OpenForm \/ CancelForm \/ Submit
  <2>1. UNCHANGED <<sync, test, removal, request, faults>>
    BY <1>4 DEF OpenForm, CancelForm, Submit, storeVars, callVars, boundVars
  <2>2. creates' \in [Forms -> Phases] /\ submitting' \in [Forms -> BOOLEAN]
    BY <1>1, <1>4 DEF CallsOK, OpenForm, CancelForm, Submit, callVars, Waits, Phases
  <2>3. opened' \in 0..MaxForms /\ form' \in 0..opened'
    BY <1>1, <1>4 DEF CallsOK, OpenForm, CancelForm, Submit, None
  <2>. QED
    BY <1>1, <2>1, <2>2, <2>3 DEF CallsOK
<1>5. ASSUME NEW c \in Conns, ClickTest(c) \/ ClickDelete(c) \/ RequestSync(c) \/ Update(c)
      PROVE  CallsOK'
  <2>1. UNCHANGED <<sync, creates, submitting, opened, form, faults>>
    BY <1>5 DEF ClickTest, ClickDelete, RequestSync, Update, Click, storeVars, pageVars,
                callVars
  <2>2. test' \in Tests /\ (test'.phase # "none" => test'.id \in Conns)
    BY <1>1, <1>5 DEF CallsOK, ClickTest, ClickDelete, RequestSync, Update, callVars, NoTest, Tests,
                      Healths
  <2>3. removal' \in Removals /\ (removal'.phase # "none" => removal'.id \in Conns)
    BY <1>1, <1>5 DEF CallsOK, ClickTest, ClickDelete, RequestSync, Update, callVars, Removals
  <2>4. request' \in Requests /\ (request'.phase # "none" => request'.id \in Conns)
    <3>1. CASE request' = request
      BY <1>1, <3>1 DEF CallsOK
    <3>2. CASE \E phase \in {"found", "stored"}, enabled \in BOOLEAN :
                 request' = [id |-> c, phase |-> phase, enabled |-> enabled]
      BY <3>2 DEF Requests
    <3>. QED
      BY <1>5, <3>1, <3>2 DEF ClickTest, ClickDelete, RequestSync, Update
  <2>. QED
    BY <1>1, <2>1, <2>2, <2>3, <2>4 DEF CallsOK
<1>6. CASE CallStep
  <2>1. UNCHANGED <<sync, creates, submitting, opened, form, faults>>
    BY <1>6 DEF CallStep, Validate, StoreHealth, TestReturns, SoftDelete, DeleteReturns, StoreEdit, EnqueueSync,
                storeVars, pageVars, boundVars
  <2>. DEFINE TestOK == test \in Tests /\ (test.phase # "none" => test.id \in Conns)
              RemovalOK == removal \in Removals
                           /\ (removal.phase # "none" => removal.id \in Conns)
              RequestOK == request \in Requests
                           /\ (request.phase # "none" => request.id \in Conns)
              Goal == TestOK' /\ RemovalOK' /\ RequestOK'
  <2>2. TestOK /\ RemovalOK /\ RequestOK
    BY <1>1 DEF CallsOK
  <2>3. ASSUME Validate PROVE Goal
    <3>1. TestOK'
      BY <2>2, <2>3, FailingAssumption DEF Validate, Tests, Healths
    <3>. QED
      BY <2>2, <2>3, <3>1 DEF Validate
  <2>4. ASSUME StoreHealth PROVE Goal
    <3>1. TestOK'
      BY <2>2, <2>4 DEF StoreHealth, Tests
    <3>. QED
      BY <2>2, <2>4, <3>1 DEF StoreHealth
  <2>5. ASSUME TestReturns PROVE Goal
    <3>1. TestOK'
      BY <2>5 DEF TestReturns, NoTest, Tests, Healths
    <3>. QED
      BY <2>2, <2>5, <3>1 DEF TestReturns
  <2>6. ASSUME SoftDelete PROVE Goal
    <3>1. RemovalOK'
      BY <2>2, <2>6 DEF SoftDelete, Removals
    <3>. QED
      BY <2>2, <2>6, <3>1 DEF SoftDelete
  <2>7. ASSUME DeleteReturns PROVE Goal
    <3>1. RemovalOK'
      BY <2>7 DEF DeleteReturns, NoRemoval, Removals
    <3>. QED
      BY <2>2, <2>7, <3>1 DEF DeleteReturns
  <2>8. ASSUME StoreEdit \/ EnqueueSync PROVE Goal
    <3>1. RequestOK'
      <4>1. NoRequest \in Requests /\ NoRequest.phase = "none"
        BY DEF NoRequest, Requests
      <4>2. CASE request' = NoRequest
        BY <4>1, <4>2
      <4>3. CASE request' = [request EXCEPT !.phase = "stored"] /\ request.phase = "found"
        BY <2>2, <4>3 DEF Requests
      <4>. QED
        BY <2>8, <4>2, <4>3 DEF StoreEdit, EnqueueSync
    <3>. QED
      BY <2>2, <2>8, <3>1 DEF StoreEdit, EnqueueSync
  <2>. QED
    BY <1>1, <1>6, <2>1, <2>3, <2>4, <2>5, <2>6, <2>7, <2>8 DEF CallStep, CallsOK
<1>7. CASE SyncStep
  <2>1. UNCHANGED <<creates, submitting, test, removal, request, opened, form, faults>>
    BY <1>7 DEF SyncStep, StartSync, ApplyCompleteSync, RecordFailure, pageVars, callVars,
                boundVars
  <2>2. sync' \in Conns \cup {None}
    BY <1>7 DEF SyncStep, StartSync, ApplyCompleteSync, RecordFailure
  <2>. QED
    BY <1>1, <2>1, <2>2 DEF CallsOK
<1>. QED
  BY <1>2, <1>3, <1>4, <1>5, <1>6, <1>7 DEF Next, UserStep

-----------------------------------------------------------------------------
(* The rows a form inserted. *)

\* They are a finite set of connections.
LEMMA InsertedFinite ==
  ASSUME NEW f
  PROVE  IsFiniteSet(Inserted(f)) /\ Cardinality(Inserted(f)) \in Nat
<1>1. IsFiniteSet(Conns)
  BY FS_Interval, BoundsAssumption DEF Conns
<1>2. IsFiniteSet(Inserted(f))
  BY <1>1, FS_Subset DEF Inserted
<1>. QED
  BY <1>2, FS_CardinalityType

\* Every step but Insert leaves the rows with the forms they came from.
LEMMA FormsKept ==
  ASSUME RowsOK, CallsOK, Next, \A f \in Forms : ~Insert(f)
  PROVE  \A c \in Conns : rows'[c].form = rows[c].form
<1>1. RowStep
  BY RowsKept
<1>. QED
  BY <1>1 DEF RowStep, RowsOK

\* An attempt adds one row to those of its form.
LEMMA OneMoreRow ==
  ASSUME RowsOK, CallsOK, NEW f \in Forms, NEW g \in Forms, Insert(g)
  PROVE  /\ Cardinality(Inserted(f)') \in Nat
         /\ IF f = g THEN Cardinality(Inserted(f)') <= 1 + Cardinality(Inserted(f))
                     ELSE Inserted(f)' = Inserted(f)
         /\ creates'[g] = "error" => Inserted(f)' = Inserted(f)
<1>1. CASE rows' = rows
  <2>1. Inserted(f)' = Inserted(f)
    BY <1>1 DEF Inserted
  <2>. QED
    BY <2>1, InsertedFinite
<1>2. CASE rows' # rows
  <2>1. PICK c \in Conns, row \in Rows :
          /\ rows[c].state = "absent" /\ row.form = g
          /\ rows' = [rows EXCEPT ![c] = row] /\ creates' = [creates EXCEPT ![g] = "inserted"]
    BY <1>2, RowInserted
  <2>2. rows[c].form = 0 /\ f # 0 /\ creates'[g] # "error"
    BY <2>1 DEF RowsOK, CallsOK, NoRow, Forms
  <2>3. Inserted(f)' = IF f = g THEN Inserted(f) \cup {c} ELSE Inserted(f)
    BY <2>1, <2>2 DEF Inserted, RowsOK
  <2>4. IsFiniteSet(Inserted(f)) /\ Cardinality(Inserted(f)) \in Nat
    BY InsertedFinite
  <2>5. /\ Cardinality(Inserted(f) \cup {c}) \in Nat
        /\ Cardinality(Inserted(f) \cup {c}) <= 1 + Cardinality(Inserted(f))
    BY <2>4, FS_AddElement
  <2>. QED
    BY <2>2, <2>3, <2>4, <2>5
<1>. QED
  BY <1>1, <1>2

\* The rows of a form stay within the failures its attempts met.
LEMMA FormStep ==
  ASSUME RowsOK, CallsOK, Next, \A f \in Forms : FormOK(f), NEW f \in Forms
  PROVE  FormOK(f)'
<1>. DEFINE N == Cardinality(Inserted(f))
<1>1. /\ CallsOK /\ FormOK(f) /\ N \in Nat /\ f \in Nat \ {0} /\ faults \in Nat
      /\ opened \in Nat /\ form \in 0..opened
  BY InsertedFinite, BoundsAssumption DEF CallsOK, Forms
<1>2. ASSUME NEW g \in Forms, Insert(g) PROVE FormOK(f)'
  <2>1. /\ creates[g] = "sent" /\ UNCHANGED <<submitting, opened, form, faults>>
        /\ \/ creates' = [creates EXCEPT ![g] = "error"]
           \/ creates' = [creates EXCEPT ![g] = "inserted"]
    BY <1>2 DEF Insert, pageVars, boundVars
  <2>2. CASE f = g
    <3>1. N <= faults /\ submitting[f] /\ ~(f > opened)
      BY <1>1, <2>1, <2>2 DEF FormOK
    <3>2. N' <= 1 + N /\ (creates'[f] = "error" => N' = N) /\ N' \in Nat
      BY <1>2, <2>2, OneMoreRow
    <3>3. creates'[f] \in {"error", "inserted"}
      BY <1>1, <2>1, <2>2 DEF CallsOK
    <3>. QED
      BY <1>1, <2>1, <3>1, <3>2, <3>3 DEF FormOK
  <2>3. CASE f # g
    <3>1. creates'[f] = creates[f] /\ Inserted(f)' = Inserted(f)
      BY <1>1, <1>2, <2>1, <2>3, OneMoreRow DEF CallsOK
    <3>. QED
      BY <1>1, <2>1, <3>1 DEF FormOK
  <2>. QED
    BY <2>2, <2>3
<1>3. CASE \A g \in Forms : ~Insert(g)
  <2>1. Inserted(f)' = Inserted(f)
    BY <1>3, FormsKept DEF Inserted
  <2>2. N' = N
    BY <2>1
  <2>. HIDE DEF N
  <2>3. /\ creates[f] # "none" => submitting[f]
        /\ f > opened => creates[f] = "none" /\ Inserted(f) = {} /\ N = 0
        /\ N <= IF creates[f] \in {"inserted", "ok"} \/ (creates[f] = "none" /\ form # f)
                THEN 1 + faults ELSE faults
        /\ N <= 1 + faults
    BY <1>1, FS_EmptySet DEF FormOK, N
  <2>4. SUFFICES /\ creates'[f] # "none" => submitting'[f]
                 /\ f > opened' => creates'[f] = "none" /\ f > opened
                 /\ N <= IF \/ creates'[f] \in {"inserted", "ok"}
                            \/ creates'[f] = "none" /\ form' # f
                         THEN 1 + faults' ELSE faults'
    BY <2>1, <2>2, <2>3 DEF FormOK, N
  <2>5. ASSUME NEW g \in Forms, EnqueueFirstSync(g) \/ CreateSucceeds(g) \/ CreateFails(g)
        PROVE  /\ creates'[f] # "none" => submitting'[f]
               /\ f > opened' => creates'[f] = "none" /\ f > opened
               /\ N <= IF \/ creates'[f] \in {"inserted", "ok"}
                          \/ creates'[f] = "none" /\ form' # f
                       THEN 1 + faults' ELSE faults'
    <3>1. CASE EnqueueFirstSync(g)
      BY <1>1, <2>3, <3>1
      DEF EnqueueFirstSync, CallsOK, pageVars, boundVars, Fault, QueueErrorAnswer
    <3>2. CASE CreateSucceeds(g)
      BY <1>1, <2>3, <3>2 DEF CreateSucceeds, CallsOK, boundVars, Resubmittable, None
    <3>3. CASE CreateFails(g)
      BY <1>1, <2>3, <3>3 DEF CreateFails, CallsOK, boundVars, Fault, Resubmittable
    <3>. QED
      BY <2>5, <3>1, <3>2, <3>3
  <2>6. CASE Submit
    BY <1>1, <2>3, <2>6 DEF Submit, CallsOK, boundVars, Usable, Waits, None
  <2>7. CASE OpenForm \/ CancelForm
    BY <1>1, <2>3, <2>7 DEF OpenForm, CancelForm, callVars, boundVars, None
  <2>9. CASE UNCHANGED <<creates, submitting, opened, form, faults>>
    BY <1>1, <2>3, <2>9
  <2>10. Poll \/ PollArrive \/ PollFail \/ CallStep \/ SyncStep =>
           UNCHANGED <<creates, submitting, opened, form, faults>>
    BY DEF Poll, PollArrive, PollFail, CallStep, Validate, StoreHealth, TestReturns, SoftDelete,
           DeleteReturns, StoreEdit, EnqueueSync, SyncStep, StartSync, ApplyCompleteSync, RecordFailure,
           storeVars, pageVars, callVars, boundVars
  <2>11. ASSUME NEW c \in Conns, ClickTest(c) \/ ClickDelete(c) \/ RequestSync(c) \/ Update(c)
         PROVE  UNCHANGED <<creates, submitting, opened, form, faults>>
    BY <2>11, Zenon
    DEF ClickTest, ClickDelete, RequestSync, Update, Click, storeVars, pageVars, callVars
  <2>. QED
    BY <1>3, <2>5, <2>6, <2>7, <2>9, <2>10, <2>11 DEF Next, CreateStep, UserStep
<1>. QED
  BY <1>2, <1>3

\* A connection whose creation is answered with success is in the queue's history.
LEMMA SavedStep ==
  ASSUME RowsOK, CallsOK, SavedMeansQueued, Next
  PROVE  SavedMeansQueued'
<1>. SUFFICES ASSUME NEW f \in Forms, creates'[f] = "ok" PROVE RowOf(f)' \in queued'
  BY DEF SavedMeansQueued
<1>1. queued \subseteq queued'
  BY DEF Next, CreateStep, Insert, EnqueueFirstSync, CreateSucceeds, CreateFails, CallStep,
         Validate, StoreHealth, TestReturns, SoftDelete, DeleteReturns, StoreEdit, EnqueueSync, SyncStep, StartSync,
         ApplyCompleteSync, RecordFailure, UserStep, OpenForm, CancelForm, Submit, ClickTest,
         ClickDelete, RequestSync, Update, Poll, PollArrive, PollFail, Enqueue, storeVars
<1>2. ASSUME \A c \in Conns : rows'[c].form = f <=> rows[c].form = f
      PROVE  RowOf(f)' = RowOf(f)
  BY <1>2 DEF RowOf
<1>3. ASSUME NEW g \in Forms, Insert(g) PROVE RowOf(f)' \in queued'
  <2>1. g # f /\ creates[f] = "ok"
    BY <1>3, RowInserted DEF CallsOK
  <2>2. \A c \in Conns : rows'[c].form = f <=> rows[c].form = f
    BY <1>3, <2>1, OneMoreRow DEF Inserted
  <2>. QED
    BY <1>1, <1>2, <2>1, <2>2 DEF SavedMeansQueued
<1>4. CASE \A g \in Forms : ~Insert(g)
  <2>1. RowOf(f)' = RowOf(f)
    BY <1>2, <1>4, FormsKept
  <2>2. CASE creates[f] = "ok"
    BY <1>1, <2>1, <2>2 DEF SavedMeansQueued
  <2>3. CASE creates[f] # "ok"
    <3>1. EnqueueFirstSync(f)
      BY <1>4, <2>3
      DEF Next, CreateStep, EnqueueFirstSync, CreateSucceeds, CreateFails, CallStep,
          Validate, StoreHealth, TestReturns, SoftDelete, DeleteReturns, StoreEdit, EnqueueSync, SyncStep, StartSync,
          ApplyCompleteSync, RecordFailure, UserStep, OpenForm, CancelForm, Submit, ClickTest,
          ClickDelete, RequestSync, Update, Poll, PollArrive, PollFail, callVars, CallsOK
    <3>2. RowOf(f) \in queued'
      BY <2>3, <3>1 DEF EnqueueFirstSync, Enqueue, QueueErrorAnswer, CallsOK
    <3>. QED
      BY <2>1, <3>2
  <2>. QED
    BY <2>2, <2>3
<1>. QED
  BY <1>3, <1>4

-----------------------------------------------------------------------------
(* Sets of numbers in their order.  Both inductions look for a least         *)
(* counterexample among the initial segments of 1..n, by WFMin.              *)

\* f lists the numbers of S in their order.
Lists(f, S) == /\ f \in [1..Cardinality(S) -> S]
               /\ \A i, j \in 1..Cardinality(S) : i < j => f[i] < f[j]

\* One more number, above those listed so far.
LEMMA ListOneMore ==
  ASSUME NEW S \in SUBSET Nat, IsFiniteSet(S), NEW f, Lists(f, S),
         NEW k \in Nat, \A i \in S : i < k
  PROVE  \E g : Lists(g, S \cup {k})
<1>. DEFINE n == Cardinality(S)
            g == [i \in 1..n + 1 |-> IF i = n + 1 THEN k ELSE f[i]]
<1>1. n \in Nat /\ Cardinality(S \cup {k}) = n + 1
  <2>1. k \notin S
    OBVIOUS
  <2>. QED
    BY <2>1, FS_CardinalityType, FS_AddElement
<1>2. /\ f \in [1..n -> S]
      /\ \A i, j \in 1..n : i < j => f[i] < f[j]
  BY DEF Lists
<1>. HIDE DEF n
<1>3. g \in [1..n + 1 -> S \cup {k}]
  BY <1>1, <1>2
<1>4. ASSUME NEW i \in 1..n + 1, NEW j \in 1..n + 1, i < j PROVE g[i] < g[j]
  <2>1. i \in 1..n /\ g[i] = f[i] /\ f[i] \in S
    BY <1>1, <1>2, <1>4
  <2>2. CASE j = n + 1
    BY <2>1, <2>2
  <2>3. CASE j # n + 1
    BY <1>1, <1>2, <1>4, <2>1, <2>3
  <2>. QED
    BY <2>2, <2>3
<1>. HIDE DEF g
<1>. QED
  BY <1>1, <1>3, <1>4 DEF Lists

\* Numbers up to n can be listed, by induction on n.
LEMMA Listable ==
  ASSUME NEW n \in Nat, NEW S \in SUBSET (1..n)
  PROVE  \E f : Lists(f, S)
<1>. DEFINE Part(k) == S \cap 1..k
            Bad == {k \in 0..n : ~ \E f : Lists(f, Part(k))}
            T == {1..k : k \in Bad}
<1>1. ASSUME NEW m \in Bad PROVE FALSE
  <2>1. IsFiniteSet(1..n)
    BY FS_Interval
  <2>2. IsWellFoundedOn(StrictSubsetOrdering(1..n), SUBSET (1..n))
    BY <2>1, FS_StrictSubsetOrderingWellFounded, FS_FiniteSubsetsOfFinite
  <2>3. T \subseteq SUBSET (1..n) /\ T # {}
    <3>1. \A k \in Bad : 1..k \in SUBSET (1..n)
      OBVIOUS
    <3>2. 1..m \in T
      BY <1>1
    <3>. HIDE DEF Bad
    <3>. QED
      BY <3>1, <3>2
  <2>4. PICK t \in T : \A u \in T : ~(<<u, t>> \in StrictSubsetOrdering(1..n))
    <3>. HIDE DEF T
    <3>. QED
      BY <2>2, <2>3, WFMin
  <2>5. PICK k \in Bad : t = 1..k
    BY <2>4
  <2>6. k \in 0..n /\ ~ \E f : Lists(f, Part(k))
    BY <2>5
  <2>7. k # 0
    <3>1. ASSUME k = 0 PROVE Part(k) = {} /\ Cardinality({}) = 0
      BY <3>1, FS_EmptySet
    <3>2. Lists([i \in 1..0 |-> i], {})
      BY FS_EmptySet DEF Lists
    <3>. QED
      BY <2>6, <3>1, <3>2
  <2>8. k - 1 \notin Bad
    <3>1. ASSUME k - 1 \in Bad PROVE 1..k - 1 \in T
      BY <3>1
    <3>2. ASSUME 1..k - 1 \in T PROVE FALSE
      <4>1. 1..k - 1 \in SUBSET (1..n) /\ t \in SUBSET (1..n)
        BY <2>5, <2>6
      <4>2. 1..k - 1 \subseteq t
        BY <2>5, <2>6
      <4>3. 1..k - 1 # t
        BY <2>5, <2>6, <2>7
      <4>4. <<1..k - 1, t>> \in StrictSubsetOrdering(1..n)
        BY <4>1, <4>2, <4>3 DEF StrictSubsetOrdering
      <4>. QED
        BY <2>4, <3>2, <4>4
    <3>. QED
      BY <3>1, <3>2
  <2>9. PICK f : Lists(f, Part(k - 1))
    <3>1. k - 1 \in 0..n
      BY <2>6, <2>7
    <3>. HIDE DEF Part
    <3>. QED
      BY <2>8, <3>1
  <2>10. /\ Part(k - 1) \in SUBSET Nat /\ IsFiniteSet(Part(k - 1))
         /\ \A i \in Part(k - 1) : i < k
    BY <2>1, <2>6, FS_Subset
  <2>11. \E g : Lists(g, Part(k - 1) \cup {k})
    <3>1. k \in Nat
      BY <2>6
    <3>. HIDE DEF Part
    <3>. QED
      BY <2>9, <2>10, <3>1, ListOneMore, Zenon
  <2>12. Part(k) = Part(k - 1) \/ Part(k) = Part(k - 1) \cup {k}
    BY <2>6, <2>7
  <2>. QED
    <3>. HIDE DEF Part
    <3>. QED BY <2>6, <2>9, <2>11, <2>12
<1>2. \E f : Lists(f, Part(n))
  <2>1. n \in 0..n
    OBVIOUS
  <2>. HIDE DEF Part
  <2>. QED
    BY <1>1, <2>1
<1>3. Part(n) = S
  OBVIOUS
<1>. HIDE DEF Part
<1>. QED
  BY <1>2, <1>3

\* InOrder lists a set of numbers: as long as the set, and increasing.
LEMMA InOrderLists ==
  ASSUME NEW n \in Nat, NEW S \in SUBSET (1..n)
  PROVE  Lists(InOrder(S), S)
<1>1. PICK f : Lists(f, S)
  BY Listable
<1>2. f \in [1..Cardinality(S) -> S] /\ \A i, j \in DOMAIN f : i < j => f[i] < f[j]
  BY <1>1 DEF Lists
<1>3. /\ InOrder(S) \in [1..Cardinality(S) -> S]
      /\ \A i, j \in DOMAIN InOrder(S) : i < j => InOrder(S)[i] < InOrder(S)[j]
  BY <1>2, Zenon DEF InOrder
<1>. QED
  BY <1>3 DEF Lists

\* A set of numbers up to n that is not empty has a greatest one.
LEMMA Greatest ==
  ASSUME NEW n \in Nat, NEW S \in SUBSET (1..n), S # {}
  PROVE  \E m \in S : \A i \in S : i <= m
<1>. DEFINE Above == {k \in 0..n : S \subseteq 1..k}
            T == {1..k : k \in Above}
<1>1. IsWellFoundedOn(StrictSubsetOrdering(1..n), SUBSET (1..n))
  <2>1. IsFiniteSet(1..n)
    BY FS_Interval
  <2>. QED
    BY <2>1, FS_StrictSubsetOrderingWellFounded, FS_FiniteSubsetsOfFinite
<1>2. T \subseteq SUBSET (1..n) /\ T # {}
  <2>1. n \in Above
    OBVIOUS
  <2>2. \A k \in Above : 1..k \in SUBSET (1..n)
    OBVIOUS
  <2>. HIDE DEF Above
  <2>. QED
    BY <2>1, <2>2
<1>3. PICK t \in T : \A u \in T : ~(<<u, t>> \in StrictSubsetOrdering(1..n))
  <2>. HIDE DEF T
  <2>. QED
    BY <1>1, <1>2, WFMin
<1>4. PICK k \in Above : t = 1..k
  BY <1>3
<1>5. k \in 1..n /\ S \subseteq 1..k
  <2>1. k \in 0..n /\ S \subseteq 1..k
    BY <1>4
  <2>2. PICK i \in S : TRUE
    OBVIOUS
  <2>3. i \in 1..k
    BY <2>1, <2>2
  <2>. QED
    BY <2>1, <2>3
<1>6. ASSUME k \notin S PROVE FALSE
  <2>1. k - 1 \in Above
    BY <1>5, <1>6
  <2>2. 1..k - 1 \in T
    BY <2>1
  <2>3. 1..k - 1 \in SUBSET (1..n) /\ t \in SUBSET (1..n)
    BY <1>4, <1>5
  <2>4. 1..k - 1 \subseteq t
    BY <1>4, <1>5
  <2>5. 1..k - 1 # t
    BY <1>4, <1>5
  <2>6. <<1..k - 1, t>> \in StrictSubsetOrdering(1..n)
    BY <2>3, <2>4, <2>5 DEF StrictSubsetOrdering
  <2>. QED
    BY <1>3, <2>2, <2>6
<1>. QED
  BY <1>5, <1>6

-----------------------------------------------------------------------------
(* What the page shows. *)

\* A list the server reads is a list of cards.
LEMMA StoredType ==
  ASSUME RowsOK
  PROVE  Stored \in Seq(Cards)
<1>. DEFINE S == {c \in Conns : Active(c)}
            n == Cardinality(S)
<1>1. S \in SUBSET (1..MaxRows) /\ MaxRows \in Nat
  BY BoundsAssumption DEF Conns
<1>2. InOrder(S) \in [1..n -> S]
  BY <1>1, InOrderLists DEF Lists
<1>3. n \in Nat
  <2>1. IsFiniteSet(1..MaxRows)
    BY <1>1, FS_Interval
  <2>2. IsFiniteSet(S)
    BY <1>1, <2>1, FS_Subset
  <2>. QED
    BY <2>2, FS_CardinalityType
<1>4. \A c \in S : [id |-> c, health |-> rows[c].health] \in Cards
  BY DEF RowsOK, Rows, Cards
<1>5. Stored = [i \in DOMAIN InOrder(S) |->
                 [id |-> InOrder(S)[i], health |-> rows[InOrder(S)[i]].health]]
  BY DEF Stored
<1>. HIDE DEF S, n
<1>6. Stored \in [1..n -> Cards]
  BY <1>2, <1>4, <1>5
<1>. QED
  BY <1>3, <1>6

\* What is left of a list of cards is one.
LEMMA RestType ==
  ASSUME NEW s \in Seq(Cards), NEW K \in SUBSET DOMAIN s
  PROVE  [i \in DOMAIN InOrder(K) |-> s[InOrder(K)[i]]] \in Seq(Cards)
<1>. DEFINE n == Cardinality(K)
<1>1. PICK l \in Nat : DOMAIN s = 1..l /\ s \in [1..l -> Cards]
  OBVIOUS
<1>2. InOrder(K) \in [1..n -> K]
  BY <1>1, InOrderLists DEF Lists
<1>3. n \in Nat
  <2>1. IsFiniteSet(1..l)
    BY <1>1, FS_Interval
  <2>2. IsFiniteSet(K)
    BY <1>1, <2>1, FS_Subset
  <2>. QED
    BY <2>2, FS_CardinalityType
<1>. HIDE DEF n
<1>4. [i \in DOMAIN InOrder(K) |-> s[InOrder(K)[i]]] \in [1..n -> Cards]
  BY <1>1, <1>2
<1>. QED
  BY <1>3, <1>4

\* The last row of a form is a connection.
LEMMA RowOfType ==
  ASSUME NEW f, Inserted(f) # {}
  PROVE  RowOf(f) \in Conns
<1>1. Inserted(f) \in SUBSET (1..MaxRows) /\ MaxRows \in Nat
  BY BoundsAssumption DEF Inserted, Conns
<1>2. PICK c \in Inserted(f) : \A d \in Inserted(f) : d <= c
  BY <1>1, Greatest
<1>3. c \in Conns /\ rows[c].form = f /\ \A d \in Conns : rows[d].form = f => d <= c
  BY <1>2 DEF Inserted
<1>. QED
  BY <1>3 DEF RowOf

\* The page, the queue and the bounds keep their form.
LEMMA PageStep ==
  ASSUME RowsOK, CallsOK, PageOK, SavedMeansQueued, Next
  PROVE  PageOK'
<1>. DEFINE Shown == cards \in Seq(Cards)
            Flying == /\ polls \subseteq Seq(Cards)
                      /\ IsFiniteSet(polls) /\ Cardinality(polls) <= MaxPolls
            Queues == queue \subseteq queued /\ queued \subseteq Conns
            Bounds == clicks \in 0..MaxClicks /\ faults \in 0..MaxFaults
            HasRows == \A f \in Forms : creates[f] = "inserted" => Inserted(f) # {}
<1>1. Shown /\ Flying /\ Queues /\ Bounds /\ HasRows
  BY DEF PageOK
<1>2. Shown'
  <2>1. ASSUME NEW f \in Forms, CreateSucceeds(f) PROVE Shown'
    <3>1. RowOf(f) \in Conns
      BY <1>1, <2>1 DEF CreateSucceeds, SavedMeansQueued
    <3>2. [id |-> RowOf(f), health |-> "unknown"] \in Cards
      BY <3>1 DEF Cards, Healths
    <3>. QED
      BY <1>1, <2>1, <3>2 DEF CreateSucceeds
  <2>2. CASE PollArrive
    BY <1>1, <2>2 DEF PollArrive
  <2>3. CASE TestReturns
    <3>1. PICK l \in Nat : cards \in [1..l -> Cards] /\ Len(cards) = l
      BY <1>1
    <3>2. cards' = cards \/ cards' \in [1..l -> Cards]
      BY <2>3, <3>1 DEF TestReturns, Cards, Healths
    <3>. QED
      BY <1>1, <3>1, <3>2
  <2>4. CASE DeleteReturns
    <3>. DEFINE K == {i \in DOMAIN cards : cards[i].id # removal.id}
    <3>1. cards' = cards \/ cards' = [i \in DOMAIN InOrder(K) |-> cards[InOrder(K)[i]]]
      BY <2>4 DEF DeleteReturns
    <3>. QED
      BY <1>1, <3>1, RestType
  <2>5. CASE UNCHANGED cards
    BY <1>1, <2>5
  <2>. QED
    BY <2>1, <2>2, <2>3, <2>4, <2>5
    DEF Next, CreateStep, Insert, EnqueueFirstSync, CreateFails, CallStep, Validate,
        StoreHealth, SoftDelete, StoreEdit, EnqueueSync, SyncStep, StartSync, ApplyCompleteSync, RecordFailure,
        UserStep, OpenForm, CancelForm, Submit, ClickTest, ClickDelete, RequestSync, Update,
        Poll, PollFail, pageVars
<1>3. Flying'
  <2>1. IsFiniteSet(polls) /\ Cardinality(polls) \in Nat /\ MaxPolls \in Nat
    BY <1>1, FS_CardinalityType, BoundsAssumption
  <2>2. CASE Poll
    <3>1. polls' = polls \cup {Stored} /\ Cardinality(polls) < MaxPolls
      BY <2>2 DEF Poll
    <3>2. IsFiniteSet(polls') /\ Cardinality(polls') <= Cardinality(polls) + 1
      <4>1. /\ IsFiniteSet(polls \cup {Stored})
            /\ Cardinality(polls \cup {Stored}) <= Cardinality(polls) + 1
        <5>1. /\ IsFiniteSet(polls \cup {Stored})
              /\ Cardinality(polls \cup {Stored}) \in {Cardinality(polls), Cardinality(polls) + 1}
          BY <2>1, FS_AddElement, Zenon
        <5>. QED
          BY <2>1, <5>1
      <4>. QED
        BY <3>1, <4>1
    <3>3. Cardinality(polls') \in Nat
      BY <3>2, FS_CardinalityType
    <3>. QED
      BY <1>1, <2>1, <3>1, <3>2, <3>3, StoredType
  <2>3. CASE PollArrive \/ PollFail
    <3>1. PICK items \in polls : polls' = polls \ {items}
      BY <2>3 DEF PollArrive, PollFail
    <3>2. IsFiniteSet(polls') /\ Cardinality(polls') <= Cardinality(polls)
      <4>1. /\ IsFiniteSet(polls \ {items})
            /\ Cardinality(polls \ {items}) <= Cardinality(polls)
        <5>1. /\ IsFiniteSet(polls \ {items})
              /\ Cardinality(polls \ {items}) = Cardinality(polls) - 1
          BY <2>1, <3>1, FS_RemoveElement, Zenon
        <5>. QED
          BY <2>1, <5>1
      <4>. QED
        BY <3>1, <4>1
    <3>3. Cardinality(polls') \in Nat
      BY <3>2, FS_CardinalityType
    <3>. QED
      BY <1>1, <2>1, <3>1, <3>2, <3>3
  <2>4. CASE UNCHANGED polls
    BY <1>1, <2>4
  <2>. QED
    BY <2>2, <2>3, <2>4
    DEF Next, CreateStep, Insert, EnqueueFirstSync, CreateSucceeds, CreateFails, CallStep,
        Validate, StoreHealth, TestReturns, SoftDelete, DeleteReturns, StoreEdit, EnqueueSync, SyncStep, StartSync,
        ApplyCompleteSync, RecordFailure, UserStep, OpenForm, CancelForm, Submit, ClickTest,
        ClickDelete, RequestSync, Update, pageVars
<1>4. Queues'
  <2>1. ASSUME NEW c \in Conns, Enqueue(c) PROVE Queues'
    BY <1>1, <2>1 DEF Enqueue
  <2>2. CASE UNCHANGED queued /\ queue' \subseteq queue
    BY <1>1, <2>2
  <2>3. ASSUME NEW f \in Forms, EnqueueFirstSync(f) PROVE Queues'
    <3>1. RowOf(f) \in Conns
      BY <1>1, <2>3, RowOfType DEF EnqueueFirstSync
    <3>. QED
      BY <2>1, <2>2, <2>3, <3>1 DEF EnqueueFirstSync
  <2>4. CASE EnqueueSync
    <3>1. request.id \in Conns
      BY <2>4 DEF EnqueueSync, CallsOK
    <3>. QED
      BY <2>1, <2>2, <2>4, <3>1 DEF EnqueueSync
  <2>5. ASSUME NEW c \in Conns, StartSync(c) PROVE Queues'
    BY <1>1, <2>5 DEF StartSync
  <2>. QED
    BY <2>2, <2>3, <2>4, <2>5
    DEF Next, CreateStep, Insert, CreateSucceeds, CreateFails, CallStep,
        Validate, StoreHealth, TestReturns, SoftDelete, DeleteReturns, StoreEdit, SyncStep,
        ApplyCompleteSync, RecordFailure, UserStep, OpenForm, CancelForm, Submit, ClickTest,
        ClickDelete, RequestSync, Update, Poll, PollArrive, PollFail, storeVars
<1>5. Bounds'
  <2>1. MaxClicks \in Nat /\ MaxFaults \in Nat
    BY BoundsAssumption
  <2>2. CASE Fault
    BY <1>1, <2>1, <2>2 DEF Fault
  <2>3. CASE Click
    BY <1>1, <2>1, <2>3 DEF Click
  <2>4. CASE UNCHANGED boundVars
    BY <1>1, <2>4 DEF boundVars
  <2>. QED
    BY <2>2, <2>3, <2>4
    DEF Next, CreateStep, Insert, EnqueueFirstSync, CreateSucceeds, CreateFails, CallStep,
        Validate, StoreHealth, TestReturns, SoftDelete, DeleteReturns, StoreEdit, EnqueueSync, SyncStep, StartSync,
        ApplyCompleteSync, RecordFailure, UserStep, OpenForm, CancelForm, Submit, ClickTest,
        ClickDelete, RequestSync, Update, Poll, PollArrive, PollFail
<1>6. HasRows'
  <2>1. ASSUME NEW f \in Forms, Insert(f) PROVE HasRows'
    <3>1. CASE creates' = [creates EXCEPT ![f] = "error"] /\ rows' = rows
      BY <1>1, <3>1 DEF CallsOK, Inserted
    <3>2. ASSUME NEW c \in Conns, NEW row \in Rows,
                 rows[c].state = "absent", row.form = f,
                 rows' = [rows EXCEPT ![c] = row],
                 creates' = [creates EXCEPT ![f] = "inserted"]
          PROVE  HasRows'
      <4>1. c \in Inserted(f)'
        BY <3>2 DEF Inserted, RowsOK
      <4>2. rows[c].form = 0
        BY <3>2 DEF RowsOK, NoRow
      <4>3. ASSUME NEW g \in Forms, g # f, creates'[g] = "inserted" PROVE Inserted(g)' # {}
        <5>1. creates[g] = "inserted"
          BY <3>2, <4>3 DEF CallsOK
        <5>2. PICK d \in Conns : rows[d].form = g
          BY <1>1, <5>1 DEF Inserted
        <5>3. d # c
          BY <4>2, <5>2 DEF Forms
        <5>. QED
          BY <3>2, <5>2, <5>3 DEF Inserted, RowsOK
      <4>. QED
        BY <4>1, <4>3
    <3>. QED
      BY <2>1, <3>1, <3>2, RowInserted
  <2>2. CASE \A f \in Forms : ~Insert(f)
    <3>1. \A f \in Forms : Inserted(f)' = Inserted(f)
      BY <2>2, FormsKept DEF Inserted
    <3>2. ASSUME NEW f \in Forms, creates'[f] = "inserted" PROVE creates[f] = "inserted"
      BY <2>2, <3>2
      DEF Next, CreateStep, EnqueueFirstSync, CreateSucceeds, CreateFails, CallStep,
          Validate, StoreHealth, TestReturns, SoftDelete, DeleteReturns, StoreEdit, EnqueueSync, SyncStep, StartSync,
          ApplyCompleteSync, RecordFailure, UserStep, OpenForm, CancelForm, Submit, ClickTest,
          ClickDelete, RequestSync, Update, Poll, PollArrive, PollFail, callVars, CallsOK,
          QueueErrorAnswer
    <3>. QED
      BY <1>1, <3>1, <3>2
  <2>. QED
    BY <2>1, <2>2
<1>. QED
  BY <1>2, <1>3, <1>4, <1>5, <1>6 DEF PageOK

-----------------------------------------------------------------------------

\* The invariant is inductive.
LEMMA NextInv == Inv /\ [Next]_vars => Inv'
<1>1. ASSUME Inv, Next PROVE Inv'
  BY <1>1, RowsStep, CallsStep, PageStep, FormStep, SavedStep DEF Inv
<1>2. ASSUME Inv, UNCHANGED vars PROVE Inv'
  <2>1. UNCHANGED <<rows, queue, sync, queued, cards, polls, form, opened, submitting, creates,
                    test, removal, request, clicks, faults>>
    BY <1>2 DEF vars, storeVars, pageVars, callVars, boundVars
  <2>2. \A f \in Forms : Inserted(f)' = Inserted(f) /\ RowOf(f)' = RowOf(f)
    BY <2>1 DEF Inserted, RowOf
  <2>3. RowsOK' /\ CallsOK'
    BY <1>2, <2>1 DEF Inv, RowsOK, CallsOK
  <2>4. \A f \in Forms : FormOK(f)'
    BY <1>2, <2>1, <2>2 DEF Inv, FormOK
  <2>5. SavedMeansQueued'
    BY <1>2, <2>1, <2>2 DEF Inv, SavedMeansQueued
  <2>6. PageOK'
    BY <1>2, <2>1, <2>2 DEF Inv, PageOK
  <2>. QED
    BY <2>3, <2>4, <2>5, <2>6 DEF Inv
<1>. QED
  BY <1>1, <1>2

\* Rows, attempts and form keep the invariant through every step of the page,
\* the service, the other operator and the worker.
THEOREM ConnectionsInvariant == Spec => []Inv
<1>. QED
  BY InitInv, NextInv, PTL DEF Spec

\* The variables keep their types through every interleaving: the cards and the
\* lists in flight stay lists of cards about connections, and a form waits while
\* its call is under way.
THEOREM ConnectionsTypes == Spec => []ConnectionsTypeOK
<1>1. Inv => ConnectionsTypeOK
  BY DEF Inv, RowsOK, CallsOK, PageOK, FormOK, ConnectionsTypeOK
<1>. QED
  BY <1>1, ConnectionsInvariant, PTL

\* Saved means queued, for any interleaving of attempts, edits and failures
\* (the error of the queue in Create reaches the page).
THEOREM ConnectionsSaved == Spec => []SavedMeansQueued
<1>1. Inv => SavedMeansQueued
  BY DEF Inv
<1>. QED
  BY <1>1, ConnectionsInvariant, PTL

\* A form inserts a second row only after one of its attempts failed.
THEOREM ConnectionsRows == Spec => []SecondRowOnlyAfterFault
<1>1. Inv => SecondRowOnlyAfterFault
  <2>. SUFFICES ASSUME Inv, NEW f \in Forms PROVE Cardinality(Inserted(f)) <= 1 + faults
    BY DEF SecondRowOnlyAfterFault, Inserted
  <2>1. FormOK(f) /\ Cardinality(Inserted(f)) \in Nat /\ faults \in Nat
    BY InsertedFinite DEF Inv, CallsOK
  <2>. QED
    BY <2>1 DEF FormOK
<1>. QED
  BY <1>1, ConnectionsInvariant, PTL

\* Nothing writes to a deleted connection (the deleted_at conditions and the
\* rollback of ApplyCompleteSync).
THEOREM ConnectionsDeleted == Spec => DeletedStaysDeleted
<1>1. ASSUME Inv, Next, NEW c \in Conns, rows[c].state = "deleted" PROVE rows'[c] = rows[c]
  <2>1. CASE \A f \in Forms : ~Insert(f)
    BY <1>1, <2>1, RowsKept DEF RowStep, Inv, RowsOK
  <2>2. ASSUME NEW f \in Forms, Insert(f) PROVE rows'[c] = rows[c]
    BY <1>1, <2>2, RowInserted DEF Inv, RowsOK
  <2>. QED
    BY <2>1, <2>2
<1>2. Inv /\ [Next]_vars =>
        [\A c \in Conns : rows[c].state = "deleted" => rows'[c] = rows[c]]_vars
  BY <1>1
<1>. QED
  BY <1>2, ConnectionsInvariant, PTL DEF Spec, DeletedStaysDeleted
=============================================================================
