------------------------------ MODULE WebBackups ------------------------------
(***************************************************************************)
(* The backups page (BackupsPage.tsx, backups/api.ts) and behind it the      *)
(* backup service: creating an archive, validating one, and restoring one    *)
(* over the running database after a safety archive of it was taken.         *)
(*                                                                         *)
(* A change is anything that the replaced tables hold: a row of a user, a    *)
(* server or a session, a job or an operation.  Some changes are work that   *)
(* is queued or running, and one is the session of the browser.  A           *)
(* submission of the page is a call; the archive that a call writes carries  *)
(* the number of the call, 0 is an archive taken earlier.  The audit entries *)
(* that the service writes itself are in a replaced table as well.           *)
(***************************************************************************)
EXTENDS Integers

CONSTANTS
  Calls,       \* submissions of the page
  MaxChanges,  \* bound: changes that others make, logins among them
  MaxCrashes   \* bound: restarts of the server

ASSUME CallsAssumption == Calls \subseteq Nat \ {0}
ASSUME BoundsAssumption == MaxChanges \in Nat \ {0} /\ MaxCrashes \in Nat

Backups == {0} \cup Calls
Changes == 0..MaxChanges
Nobody == -1
Entries == {"created", "restored"} \X Calls
NotExported == MaxChanges

VARIABLES
  data,      \* the changes in the tables of logicalSchema
  work,      \* those that are queued or running
  made,      \* the last change made
  session,   \* the change that is the browser's session
  log,       \* audit_logs: the entries of the service about its calls
  logged,    \* history: entries ever written
  files,     \* archives in the backup directory
  rows,      \* the table backups
  holder,    \* the call that has the mutex of the service
  call,      \* the calls
  crashes,
  raced,     \* history: changes made between a safety archive and its restore
  listed,    \* backups shown
  lists,     \* list calls of this page: on mounting, and after a creation
  error,     \* the texts of failed creations and restores
  notice, submitting, dialog,
  awaiting   \* the call that the page awaits

auditVars == <<log, logged>>
dataVars == <<data, work, made, session, auditVars>>
storeVars == <<files, rows>>
serverVars == <<dataVars, storeVars, holder, crashes, raced>>
pageVars == <<listed, lists, error, notice, submitting, dialog, awaiting>>
vars == <<serverVars, call, pageVars>>

Archives == [data : SUBSET Changes, work : SUBSET Changes, log : SUBSET Entries]
NoArchive == [data |-> {}, work |-> {}, log |-> {}]
Live == {"sent", "checking", "locking", "reading", "exporting", "recording",
         "auditing", "applying", "finishing"}
Steps == {"idle", "ok", "failed"} \cup Live
Kinds == {"create", "validate", "restore"}
NoDialog == [mode |-> "create", backup |-> 0]
Dialogs == [mode : {"validate", "restore"}, backup : Backups] \cup {NoDialog}
ListCall(state, shown) == [state |-> state, rows |-> shown]
NoList == ListCall("none", {})

At(c, step) == call[c].step = step
Kind(c) == call[c].kind
Move(c, step) == call' = [call EXCEPT ![c].step = step]
Authorized == session \in data

---------------------------------------------------------------------------
(* Service of package backup *)

\* Mutant: without defer the mutex stays locked when a call fails.
ReleaseOnSuccess(c, ok) == holder' = IF holder = c /\ ok THEN Nobody ELSE holder
Release(c, ok) == holder' = IF holder = c THEN Nobody ELSE holder

Finish(c) == Move(c, "ok") /\ Release(c, TRUE)

\* Mutant: the tables are emptied and filled outside a transaction.
TablesEmptied(c) ==
  IF At(c, "applying") THEN data' = {} /\ work' = {} /\ log' = {}
                       ELSE UNCHANGED <<data, work, log>>
TablesKept(c) == UNCHANGED <<data, work, log>>

\* Mutant: the archive is also removed when its audit entry failed.
RemovesRecorded(c) == call[c].step \in {"recording", "auditing"}
Removes(c) == At(c, "recording")

\* A statement, a file or the passphrase fails, or the client has left.
Fail(c) ==
  /\ call[c].step \in Live \ {"locking"}
  /\ Release(c, FALSE) /\ TablesKept(c) /\ Move(c, "failed")
  /\ files' = IF Removes(c) THEN [files EXCEPT ![c] = NoArchive] ELSE files
  /\ UNCHANGED <<made, session, logged, rows, crashes, raced, pageVars>>

\* The middleware looks for the session, then the handler begins.
Receive(c) ==
  /\ At(c, "sent") /\ Authorized
  /\ Move(c, CASE Kind(c) = "create" -> "locking" [] Kind(c) = "validate" -> "reading"
               [] Kind(c) = "restore" -> "checking")
  /\ UNCHANGED <<serverVars, pageVars>>

HasActiveWork == work # {}
CheckActivity(c) ==
  /\ At(c, "checking") /\ ~HasActiveWork /\ Move(c, "locking")
  /\ UNCHANGED <<serverVars, pageVars>>

Lock(c) ==
  /\ At(c, "locking") /\ holder = Nobody /\ holder' = c
  /\ Move(c, IF Kind(c) = "create" THEN "exporting" ELSE "reading")
  /\ UNCHANGED <<dataVars, storeVars, crashes, raced, pageVars>>

\* Mutant: no safety archive.
AppliesAtOnce == "applying"
AfterReading == "exporting"

Read(c) ==
  /\ At(c, "reading") /\ call[c].backup \in rows
  /\ IF Kind(c) = "validate" THEN Finish(c)
                             ELSE Move(c, AfterReading) /\ UNCHANGED holder
  /\ UNCHANGED <<dataVars, storeVars, crashes, raced, pageVars>>

\* One read-only transaction, and the file renamed into its place.
Export(c) ==
  /\ At(c, "exporting")
  /\ files' = [files EXCEPT ![c] = [data |-> data, work |-> work, log |-> log]]
  /\ call' = [call EXCEPT ![c].step = "recording", ![c].exported = IF Kind(c) = "restore" THEN made ELSE @]
  /\ UNCHANGED <<dataVars, rows, holder, crashes, raced, pageVars>>

RecordRow(c) ==
  /\ At(c, "recording") /\ rows' = rows \cup {c} /\ Move(c, "auditing")
  /\ UNCHANGED <<dataVars, files, holder, crashes, raced, pageVars>>

AppendAudit(event, c) ==
  /\ log' = log \cup {<<event, c>>} /\ logged' = logged \cup {<<event, c>>}
  /\ UNCHANGED <<data, work, made, session>>

\* The entry about a safety archive comes too late to be in it.
AuditCreated(c) ==
  /\ At(c, "auditing") /\ AppendAudit("created", c)
  /\ IF Kind(c) = "create" THEN Finish(c) ELSE Move(c, "applying") /\ UNCHANGED holder
  /\ UNCHANGED <<storeVars, crashes, raced, pageVars>>

\* One transaction replaces the tables; backups is not among them.
Apply(c) ==
  /\ At(c, "applying")
  /\ LET archive == files[call[c].backup] IN
       data' = archive.data /\ work' = archive.work /\ log' = archive.log
  /\ raced' = raced \cup {d \in data : d > call[c].exported}
  /\ call' = [call EXCEPT ![c].step = "finishing", ![c].changed = TRUE,
                          ![c].exported = NotExported]
  /\ UNCHANGED <<made, session, logged, storeVars, holder, crashes, pageVars>>

AuditRestored(c) ==
  /\ At(c, "finishing") /\ AppendAudit("restored", c) /\ Finish(c)
  /\ UNCHANGED <<storeVars, crashes, raced, pageVars>>

\* Handlers and mutex are lost; directory and database stay.
Crash ==
  /\ crashes < MaxCrashes /\ crashes' = crashes + 1 /\ holder' = Nobody
  /\ call' = [c \in Calls |-> IF call[c].step \in Live
       THEN [call[c] EXCEPT !.step = "failed"] ELSE call[c]]
  /\ UNCHANGED <<dataVars, storeVars, raced, pageVars>>

---------------------------------------------------------------------------
(* Others: requests and workers write, work ends *)

MakeChange ==
  /\ made < MaxChanges /\ made' = made + 1 /\ data' = data \cup {made'}
  /\ work' \in {work, work \cup {made'}}
  /\ UNCHANGED <<session, auditVars, storeVars, holder, crashes, raced, call, pageVars>>

FinishWork ==
  /\ \E d \in work : work' = work \ {d}
  /\ UNCHANGED <<data, made, session, auditVars, storeVars, holder, crashes, raced, call,
                 pageVars>>

---------------------------------------------------------------------------
(* BackupsPage *)

SetList(which, state, shown) == lists' = [lists EXCEPT ![which] = ListCall(state, shown)]

\* Mounted: nothing shown but what the first refresh will bring.
FreshPage ==
  /\ listed' = {} /\ lists' = [mount |-> ListCall("sent", {}), created |-> NoList]
  /\ error' = "" /\ notice' = "" /\ submitting' = FALSE /\ dialog' = NoDialog
  /\ awaiting' = Nobody

\* Another page is chosen and this one again: calls go on, nobody awaits them.
Remount == FreshPage /\ UNCHANGED <<serverVars, call>>

Login ==
  /\ ~Authorized /\ made < MaxChanges /\ made' = made + 1
  /\ session' = made' /\ data' = data \cup {made'}
  /\ FreshPage
  /\ UNCHANGED <<work, auditVars, storeVars, holder, crashes, raced, call>>

\* GET /backups is answered by the server, and the answer arrives.
ReadList(which) ==
  /\ lists[which].state = "sent" /\ Authorized /\ SetList(which, "read", rows)
  /\ UNCHANGED <<serverVars, call, listed, error, notice, submitting, dialog, awaiting>>

\* refresh ends with the list or with its own error; create awaits it.
Refreshed(which) ==
  /\ SetList(which, "none", {}) /\ error' = ""
  /\ \/ lists[which].state = "read" /\ listed' = lists[which].rows
     \/ lists[which].state # "none" /\ UNCHANGED listed
  /\ submitting' = (submitting /\ which # "created")
  /\ UNCHANGED <<serverVars, call, notice, dialog, awaiting>>

Submit(c, kind, backup) ==
  /\ ~submitting /\ At(c, "idle") /\ \A b \in Calls : b < c => ~At(b, "idle")
  /\ submitting' = TRUE /\ error' = "" /\ notice' = "" /\ awaiting' = c
  /\ call' = [call EXCEPT ![c].step = "sent", ![c].kind = kind, ![c].backup = backup]
  /\ UNCHANGED <<serverVars, listed, lists, dialog>>

Create(c) == Submit(c, "create", 0)
SubmitDialog(c) == dialog # NoDialog /\ Submit(c, dialog.mode, dialog.backup)

\* Bound: only while a submission is left to be made.
OpenDialog(mode, backup) ==
  /\ dialog = NoDialog /\ backup \in listed /\ \E c \in Calls : At(c, "idle")
  /\ dialog' = [mode |-> mode, backup |-> backup] /\ error' = ""
  /\ UNCHANGED <<serverVars, call, listed, lists, notice, submitting, awaiting>>

\* A click beside the dialog closes it, a running submission or not.
CloseDialog ==
  /\ dialog # NoDialog /\ dialog' = NoDialog
  /\ UNCHANGED <<serverVars, call, listed, lists, error, notice, submitting, awaiting>>

\* A download clears the error, or writes another text.
Download ==
  /\ listed # {} /\ error' = ""
  /\ UNCHANGED <<serverVars, call, listed, lists, notice, submitting, dialog, awaiting>>

SuccessNotice(kind) == CASE kind = "create" -> "created" [] kind = "validate" -> "validated"
                         [] kind = "restore" -> "restored"
FailureText(kind) == CASE kind = "create" -> "create" [] kind = "validate" -> ""
                       [] kind = "restore" -> "not replaced"

\* Success closes whichever dialog is open by then.
Succeed(c) ==
  /\ awaiting = c /\ At(c, "ok") /\ awaiting' = Nobody
  /\ notice' = SuccessNotice(Kind(c))
  /\ IF Kind(c) = "create" THEN SetList("created", "sent", {}) /\ UNCHANGED <<submitting, dialog>>
     ELSE dialog' = NoDialog /\ submitting' = FALSE /\ UNCHANGED lists
  /\ UNCHANGED <<serverVars, call, listed, error>>

Rejected(c) ==
  /\ awaiting = c /\ awaiting' = Nobody
  /\ error' = FailureText(Kind(c)) /\ submitting' = FALSE
  /\ UNCHANGED <<serverVars, call, listed, lists, notice, dialog>>

Catch(c) == At(c, "failed") /\ Rejected(c)

\* The connection breaks: the handler goes on, or has already ended.
LoseAnswer(c) == ~At(c, "failed") /\ Rejected(c)

---------------------------------------------------------------------------

\* An archive taken before this session while a job ran, or during it.
Init ==
  /\ data = {0, 1} /\ work = {0} /\ made = 1 /\ session = 1
  /\ \E first \in {[data |-> {0}, work |-> {0}, log |-> {}],
                   [data |-> {0, 1}, work |-> {}, log |-> {}]} :
       files = [b \in Backups |-> IF b = 0 THEN first ELSE NoArchive]
  /\ rows = {0} /\ holder = Nobody /\ crashes = 0 /\ raced = {} /\ log = {} /\ logged = {}
  /\ call = [c \in Calls |-> [step |-> "idle", kind |-> "create", backup |-> 0,
                              exported |-> NotExported, changed |-> FALSE]]
  /\ listed = {} /\ lists = [mount |-> ListCall("sent", {}), created |-> NoList]
  /\ error = "" /\ notice = "" /\ submitting = FALSE /\ dialog = NoDialog
  /\ awaiting = Nobody

ServiceStep(c) ==
  \/ Receive(c) \/ CheckActivity(c) \/ Lock(c) \/ Read(c) \/ Export(c) \/ RecordRow(c)
  \/ AuditCreated(c) \/ Apply(c) \/ AuditRestored(c) \/ Fail(c)
Settle(c) == Succeed(c) \/ Catch(c)
ListStep(which) == ReadList(which) \/ Refreshed(which)
UserStep ==
  \/ \E c \in Calls : Create(c) \/ SubmitDialog(c)
  \/ \E mode \in {"validate", "restore"}, b \in Backups : OpenDialog(mode, b)
  \/ CloseDialog \/ Download \/ Remount \/ Login

Next ==
  \/ \E c \in Calls : ServiceStep(c) \/ Settle(c) \/ LoseAnswer(c)
  \/ \E which \in {"mount", "created"} : ListStep(which)
  \/ UserStep \/ MakeChange \/ FinishWork \/ Crash

Spec == Init /\ [][Next]_vars

\* Handlers run and answers arrive; users and others do what they like.
FairSpec ==
  /\ Spec
  /\ \A c \in Calls : WF_vars(ServiceStep(c)) /\ WF_vars(Settle(c))
  /\ \A which \in {"mount", "created"} : WF_vars(ListStep(which))

---------------------------------------------------------------------------
(* Properties *)

\* The variables keep their types; a recorded backup has its file, through
\* failed statements and crashes (service.go:112-121); the buttons are disabled
\* exactly while the page waits for a submission or the refresh after it.
BackupsTypeOK ==
  /\ data \subseteq 0..made /\ work \subseteq data /\ log \subseteq logged /\ logged \subseteq Entries
  /\ made \in Changes /\ session \in 0..made
  /\ files \in [Backups -> Archives] /\ rows \subseteq Backups
  /\ holder \in Calls \cup {Nobody} /\ crashes \in 0..MaxCrashes /\ raced \subseteq 0..made
  /\ call \in [Calls -> [step : Steps, kind : Kinds, backup : Backups, exported : Changes,
                         changed : BOOLEAN]]
  /\ listed \subseteq rows
  /\ lists \in [{"mount", "created"} -> [state : {"none", "sent", "read"},
                                          rows : SUBSET Backups]]
  /\ error \in {"", "create", "not replaced"}
  /\ notice \in {"", "created", "validated", "restored"}
  /\ dialog \in Dialogs /\ awaiting \in Calls \cup {Nobody}
  /\ \A b \in rows : files[b] # NoArchive
  /\ submitting <=> (awaiting # Nobody \/ lists.created # NoList)

\* The entry about the safety archive of a restore that has replaced the tables.
OwnEntry(e) == e[1] = "created" /\ Kind(e[2]) = "restore" /\ call[e[2]].changed

\* Restoring one archive after the other, with crashes and failures between,
\* loses two things only: the changes that raced with a restore, made after its
\* safety archive and before its transaction, and of each restore the audit
\* entry about that archive, written between the two (service.go:122, 175-178).
\* All else is in the database or in a recorded backup (docs/backups.md:24).
NothingLost ==
  /\ \A d \in 0..made : d \in data \cup raced \/ \E b \in rows : d \in files[b].data
  /\ \A e \in logged : e \in log \/ OwnEntry(e) \/ \E b \in rows : e \in files[b].log

\* The tables lose something only all at once, to the contents of the archive of
\* a restore that is alone in the service and has its safety archive recorded: a
\* restore that fails or is interrupted leaves them as they are (service.go:161,
\* snapshot.go:87-107; docs/backups.md:20-21).
ReplacedAtOnce ==
  [][~(data \subseteq data' /\ log \subseteq log') =>
     \E c \in Calls :
       /\ Kind(c) = "restore" /\ holder = c /\ {c, call[c].backup} \subseteq rows
       /\ LET archive == files[call[c].backup] IN
            data' = archive.data /\ work' = archive.work /\ log' = archive.log]_vars

\* A submission ends, although an earlier one may still hold the mutex of the
\* service, fail with it or be lost in a restart (BackupsPage.tsx:47-51, 81-84).
SubmissionEnds == submitting ~> ~submitting
=============================================================================
