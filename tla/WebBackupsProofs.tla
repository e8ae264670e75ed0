--------------------------- MODULE WebBackupsProofs ---------------------------
(***************************************************************************)
(* Proofs about WebBackups, for any number of submissions, changes and      *)
(* restarts.  The mutex of the service keeps one call between its safety    *)
(* archive and its transaction, and only the call that writes an archive    *)
(* touches it; so what is to be known of each call (CallOK) survives what   *)
(* the others do.                                                           *)
(***************************************************************************)
EXTENDS WebBackups, TLAPS

CallRecords == [step : Steps, kind : Kinds, backup : Backups, exported : Changes,
                changed : BOOLEAN]

\* Change 0, made before everything else, is in the tables and in every archive.
Database ==
  /\ made \in Changes /\ data \subseteq 0..made /\ work \subseteq data /\ 0 \in data
  /\ session \in 0..made /\ raced \subseteq 0..made
  /\ holder \in Calls \cup {Nobody} /\ crashes \in 0..MaxCrashes
  /\ log \subseteq logged /\ logged \subseteq Entries

Directory ==
  /\ files \in [Backups -> Archives] /\ rows \subseteq Backups
  /\ \A b \in Backups : /\ files[b].data \subseteq 0..made /\ files[b].work \subseteq files[b].data
                       /\ files[b].log \subseteq logged
  /\ \A b \in rows : 0 \in files[b].data

Exclusive == {"exporting", "recording", "auditing", "applying", "finishing"}

\* The mutex, the row and the archive of a call, and what came of it.
CallOK(c) ==
  LET k == call[c] IN
  /\ k \in CallRecords
  /\ k.step \in Exclusive => holder = c
  /\ k.step = "reading" /\ k.kind = "restore" => holder = c
  /\ k.step \in {"checking", "applying", "finishing"} => k.kind = "restore"
  /\ k.step = "reading" => k.kind # "create"
  /\ k.step \in {"locking"} \cup Exclusive => k.kind # "validate"
  /\ k.step \in Exclusive /\ k.kind = "restore" => k.backup \in rows
  /\ k.step = "recording" => 0 \in files[c].data
  /\ c \in rows => k.step \in {"auditing", "applying", "finishing", "ok", "failed"}
  /\ k.step \in {"auditing", "applying", "finishing"} => c \in rows
  /\ k.changed => k.step \in {"finishing", "ok", "failed"}

\* The safety archive of a restore that has not replaced the tables yet holds
\* what was there when it was taken.
SafetyOK(c) ==
  call[c].step \in {"recording", "auditing", "applying"} /\ call[c].kind = "restore" =>
    /\ call[c].exported <= made
    /\ \A d \in data : d <= call[c].exported => d \in files[c].data

\* ChangesKept, of the changes.
ChangesKept == \A d \in 0..made : d \in data \cup raced \/ \E b \in rows : d \in files[b].data

Server ==
  /\ Database /\ Directory /\ ChangesKept
  /\ call \in [Calls -> CallRecords]
  /\ \A c \in Calls : CallOK(c) /\ SafetyOK(c)

ListCalls == [state : {"none", "sent", "read"}, rows : SUBSET Backups]

\* The buttons, and what the page may show.
Shown ==
  /\ lists \in [{"mount", "created"} -> ListCalls]
  /\ \A which \in {"mount", "created"} :
       /\ lists[which].rows \subseteq rows
       /\ lists[which].state = "none" => lists[which] = NoList
  /\ listed \subseteq rows /\ dialog \in Dialogs /\ submitting \in BOOLEAN
  /\ error \in {"", "create", "not replaced"}
  /\ notice \in {"", "created", "validated", "restored"} /\ awaiting \in Calls \cup {Nobody}
  /\ awaiting # Nobody => lists["created"] = NoList
  /\ submitting <=> (awaiting # Nobody \/ lists["created"] # NoList)

Inv == Server /\ Shown

-----------------------------------------------------------------------------

\* What the bounds say of the numbers.
LEMMA Numbers ==
  /\ MaxChanges \in Nat /\ 1 <= MaxChanges /\ 0 \in Changes /\ 1 \in Changes
  /\ NotExported \in Changes /\ Nobody \notin Calls /\ 0 \notin Calls
  /\ Calls \subseteq Backups /\ 0 \in Backups /\ MaxCrashes \in Nat
BY CallsAssumption, BoundsAssumption DEF Nobody, Changes, NotExported, Backups

\* The invariant holds of the archive and the database the page finds.
LEMMA InitInv == Init => Inv
<1>. SUFFICES ASSUME Init PROVE Inv
  OBVIOUS
<1>1. Database
  <2>1. made = 1 /\ session = 1 /\ data = {0, 1} /\ work = {0} /\ raced = {}
        /\ holder = Nobody /\ crashes = 0 /\ log = {} /\ logged = {}
    BY DEF Init
  <2>2. 0..1 = {0, 1} /\ 0 \in 0..MaxCrashes
    BY Numbers
  <2>. QED
    BY <2>1, <2>2, Numbers DEF Database
<1>2. Directory
  <2>1. PICK first \in {[data |-> {0}, work |-> {0}, log |-> {}],
                     [data |-> {0, 1}, work |-> {}, log |-> {}]} :
          files = [b \in Backups |-> IF b = 0 THEN first ELSE NoArchive]
    BY DEF Init
  <2>2. first.data \subseteq {0, 1} /\ first.work \subseteq first.data /\ 0 \in first.data
        /\ first.log = {}
        /\ first = [data |-> first.data, work |-> first.work, log |-> first.log]
    OBVIOUS
  <2>3. first \in Archives /\ NoArchive \in Archives
    <3>1. {0, 1} \subseteq Changes
      BY Numbers
    <3>. QED
      BY <2>2, <3>1 DEF Archives, NoArchive
  <2>4. NoArchive.data = {} /\ NoArchive.work = {} /\ NoArchive.log = {}
    BY DEF NoArchive
  <2>5. made = 1 /\ rows = {0}
    BY DEF Init
  <2>. HIDE DEF NoArchive, Archives
  <2>6. \A b \in Backups : files[b] = IF b = 0 THEN first ELSE NoArchive
    BY <2>1
  <2>7. files \in [Backups -> Archives]
    BY <2>1, <2>3
  <2>8. ASSUME NEW b \in Backups
        PROVE  /\ files[b].data \subseteq 0..made /\ files[b].work \subseteq files[b].data
               /\ files[b].log \subseteq logged
    BY <2>2, <2>4, <2>5, <2>6
  <2>. QED
    BY <2>2, <2>5, <2>6, <2>7, <2>8, Numbers DEF Directory
<1>3. ASSUME NEW c \in Calls
      PROVE  call[c] \in CallRecords /\ CallOK(c) /\ SafetyOK(c)
  <2>. DEFINE k == [step |-> "idle", kind |-> "create", backup |-> 0,
                    exported |-> NotExported, changed |-> FALSE]
  <2>1. call[c] = k /\ c \notin rows
    BY Numbers DEF Init
  <2>2. k \in CallRecords
    BY Numbers DEF CallRecords, Steps, Kinds
  <2>3. k.step = "idle" /\ ~k.changed
    OBVIOUS
  <2>. HIDE DEF k
  <2>. QED
    BY <2>1, <2>2, <2>3 DEF CallOK, SafetyOK, Exclusive
<1>4. call \in [Calls -> CallRecords]
  <2>1. \E k : call = [c \in Calls |-> k]
    BY DEF Init
  <2>. QED
    BY <1>3, <2>1
<1>5. ChangesKept
  <2>1. data = {0, 1} /\ made = 1
    BY DEF Init
  <2>2. 0..1 = {0, 1}
    OBVIOUS
  <2>. QED
    BY <2>1, <2>2 DEF ChangesKept
<1>6. Shown
  <2>1. NoList \in ListCalls /\ ListCall("sent", {}) \in ListCalls
        /\ NoList.rows = {} /\ ListCall("sent", {}).rows = {}
        /\ ListCall("sent", {}).state = "sent"
    BY DEF NoList, ListCall, ListCalls
  <2>2. lists = [mount |-> ListCall("sent", {}), created |-> NoList]
    BY DEF Init, NoList
  <2>3. lists \in [{"mount", "created"} -> ListCalls]
        /\ lists["mount"] = ListCall("sent", {}) /\ lists["created"] = NoList
    BY <2>1, <2>2
  <2>. QED
    BY <2>1, <2>3 DEF Init, Shown, Dialogs
<1>. QED
  BY <1>1, <1>2, <1>3, <1>4, <1>5, <1>6 DEF Inv, Server

-----------------------------------------------------------------------------

\* What a step of one call, or of nobody, leaves of another call.
Undisturbed(b) ==
  /\ call'[b] = call[b] /\ files'[b] = files[b] /\ (b \in rows' <=> b \in rows)
  /\ rows \subseteq rows'
  /\ holder = b => holder' = b
  /\ made' \in {made, made + 1}
  /\ \/ data' \subseteq data
     \/ holder # b
     \/ made' = made + 1 /\ data' \subseteq data \cup {made'}

\* Another call is as it was.
LEMMA OtherCall ==
  ASSUME Server, NEW b \in Calls, Undisturbed(b)
  PROVE  CallOK(b)' /\ SafetyOK(b)'
<1>1. CallOK(b) /\ SafetyOK(b) /\ made \in Nat
  BY Numbers DEF Server, Database, Changes
<1>2. call[b].exported \in Nat
  BY <1>1, Numbers DEF CallOK, CallRecords, Changes
<1>3. CallOK(b)'
  BY <1>1 DEF CallOK, Undisturbed
<1>4. SafetyOK(b)'
  <2>. SUFFICES ASSUME call[b].step \in {"recording", "auditing", "applying"},
                       call[b].kind = "restore"
                PROVE  /\ call[b].exported <= made'
                       /\ \A d \in data' : d <= call[b].exported => d \in files[b].data
    BY DEF SafetyOK, Undisturbed
  <2>1. holder = b
    BY <1>1 DEF CallOK, Exclusive
  <2>2. call[b].exported <= made /\ \A d \in data : d <= call[b].exported => d \in files[b].data
    BY <1>1 DEF SafetyOK
  <2>3. made' \in {made, made + 1}
    BY DEF Undisturbed
  <2>4. data' \subseteq data \/ (made' = made + 1 /\ data' \subseteq data \cup {made'})
    BY <2>1 DEF Undisturbed
  <2>5. call[b].exported <= made'
    BY <1>1, <1>2, <2>2, <2>3
  <2>6. ASSUME NEW d \in data', d <= call[b].exported PROVE d \in data
    BY <1>1, <1>2, <2>2, <2>4, <2>6
  <2>. QED
    BY <2>2, <2>5, <2>6
<1>. QED
  BY <1>3, <1>4

\* It is enough to look at the call that takes the step.
LEMMA CallStep ==
  ASSUME Inv, NEW c \in Calls, call[c].step \in Live, UNCHANGED pageVars, rows \subseteq rows',
         call' \in [Calls -> CallRecords],
         Database', Directory', ChangesKept', CallOK(c)', SafetyOK(c)',
         \A b \in Calls \ {c} : Undisturbed(b)
  PROVE  Inv'
<1>1. \A b \in Calls : CallOK(b)' /\ SafetyOK(b)'
  BY OtherCall DEF Inv
<1>2. Shown'
  BY DEF Inv, Shown, pageVars
<1>. QED
  BY <1>1, <1>2 DEF Inv, Server

-----------------------------------------------------------------------------

\* A call moves on; of the rest it keeps what it has.
LEMMA Moved ==
  ASSUME Server, NEW c \in Calls, NEW s \in Steps, Move(c, s)
  PROVE  /\ call' \in [Calls -> CallRecords]
         /\ call'[c].step = s /\ call'[c].kind = call[c].kind
         /\ call'[c].backup = call[c].backup /\ call'[c].exported = call[c].exported
         /\ call'[c].changed = call[c].changed
         /\ call'[c] \in CallRecords
         /\ \A b \in Calls \ {c} : call'[b] = call[b]
<1>. DEFINE k == [call[c] EXCEPT !.step = s]
<1>1. call[c] \in CallRecords /\ call \in [Calls -> CallRecords]
  BY DEF Server
<1>2. k \in CallRecords /\ k.step = s /\ k.kind = call[c].kind /\ k.backup = call[c].backup
      /\ k.exported = call[c].exported /\ k.changed = call[c].changed
  BY <1>1 DEF CallRecords
<1>3. call' = [call EXCEPT ![c] = k]
  BY DEF Move
<1>. HIDE DEF k
<1>. QED
  BY <1>1, <1>2, <1>3

\* Steps that leave tables and archives alone.
LEMMA QuietStep ==
  ASSUME Inv, NEW c \in Calls, NEW s \in Steps, call[c].step \in Live, Move(c, s),
         UNCHANGED <<data, made, work, session, raced, crashes, files, pageVars>>,
         log' \subseteq logged', logged \subseteq logged', logged' \subseteq Entries,
         holder' \in Calls \cup {Nobody}, rows' \in {rows, rows \cup {c}},
         c \in rows' => 0 \in files[c].data,
         \A b \in Calls \ {c} : holder = b => holder' = b,
         CallOK(c)', SafetyOK(c)'
  PROVE  Inv'
<1>1. call' \in [Calls -> CallRecords] /\ \A b \in Calls \ {c} : call'[b] = call[b]
  BY Moved DEF Inv
<1>2. Database'
  BY DEF Inv, Server, Database
<1>3. Directory'
  BY Numbers DEF Inv, Server, Directory
<1>4. ChangesKept'
  BY DEF Inv, Server, ChangesKept
<1>5. ASSUME NEW b \in Calls \ {c} PROVE Undisturbed(b)
  BY <1>1 DEF Undisturbed
<1>6. UNCHANGED pageVars
  OBVIOUS
<1>. QED
  BY <1>1, <1>2, <1>3, <1>4, <1>5, <1>6, CallStep

\* A call that is let in has no archive and no row yet.
LEMMA ReceiveStep ==
  ASSUME Inv, NEW c \in Calls, Receive(c)
  PROVE  Inv'
<1>1. call[c].step = "sent" /\ CallOK(c) /\ UNCHANGED <<serverVars, pageVars>> /\ Server
  BY DEF Receive, At, Inv, Server
<1>2. PICK s \in {"locking", "reading", "checking"} :
        /\ Move(c, s)
        /\ s = "locking" => call[c].kind = "create"
        /\ s = "reading" => call[c].kind = "validate"
        /\ s = "checking" => call[c].kind = "restore"
  BY <1>1 DEF Receive, Kind, CallOK, CallRecords, Kinds
<1>3. s \in Steps /\ call[c].step \in Live
  BY <1>1 DEF Steps, Live
<1>4. CallOK(c)' /\ SafetyOK(c)'
  BY <1>1, <1>2, <1>3, Moved DEF CallOK, SafetyOK, Exclusive, serverVars, storeVars, dataVars
<1>5. c \notin rows
  BY <1>1 DEF CallOK
<1>6. holder \in Calls \cup {Nobody} /\ log \subseteq logged /\ logged \subseteq Entries
  BY <1>1 DEF Server, Database
<1>. QED
  BY <1>1, <1>2, <1>3, <1>4, <1>5, <1>6, QuietStep DEF serverVars, storeVars, dataVars, auditVars

\* A restore goes on to the mutex.
LEMMA CheckActivityStep ==
  ASSUME Inv, NEW c \in Calls, CheckActivity(c)
  PROVE  Inv'
<1>1. call[c].step = "checking" /\ CallOK(c) /\ UNCHANGED <<serverVars, pageVars>> /\ Server
      /\ Move(c, "locking")
  BY DEF CheckActivity, At, Inv, Server
<1>2. "locking" \in Steps /\ call[c].step \in Live
  BY <1>1 DEF Steps, Live
<1>3. CallOK(c)' /\ SafetyOK(c)'
  BY <1>1, <1>2, Moved DEF CallOK, SafetyOK, Exclusive, serverVars, storeVars, dataVars
<1>4. c \notin rows
  BY <1>1 DEF CallOK
<1>5. holder \in Calls \cup {Nobody} /\ log \subseteq logged /\ logged \subseteq Entries
  BY <1>1 DEF Server, Database
<1>. QED
  BY <1>1, <1>2, <1>3, <1>4, <1>5, QuietStep DEF serverVars, storeVars, dataVars, auditVars

\* Whoever gets the mutex finds it free, so that no other call loses it.
LEMMA LockStep ==
  ASSUME Inv, NEW c \in Calls, Lock(c)
  PROVE  Inv'
<1>1. call[c].step = "locking" /\ CallOK(c) /\ Server /\ holder = Nobody /\ holder' = c
      /\ UNCHANGED <<dataVars, storeVars, crashes, raced, pageVars>>
  BY DEF Lock, At, Inv, Server
<1>2. PICK s \in {"exporting", "reading"} :
        Move(c, s) /\ (s = "exporting" <=> call[c].kind = "create")
  BY DEF Lock, Kind
<1>3. s \in Steps /\ call[c].step \in Live
  BY <1>1 DEF Steps, Live
<1>4. CallOK(c)' /\ SafetyOK(c)'
  BY <1>1, <1>2, <1>3, Moved DEF CallOK, SafetyOK, Exclusive, storeVars, dataVars
<1>5. c \notin rows
  BY <1>1 DEF CallOK
<1>6. (\A b \in Calls \ {c} : holder # b) /\ log \subseteq logged /\ logged \subseteq Entries
  BY <1>1, Numbers DEF Server, Database
<1>. QED
  BY <1>1, <1>2, <1>3, <1>4, <1>5, <1>6, QuietStep DEF storeVars, dataVars, auditVars

\* A backup that is read is recorded; a validation ends here.
LEMMA ReadStep ==
  ASSUME Inv, NEW c \in Calls, Read(c)
  PROVE  Inv'
<1>1. call[c].step = "reading" /\ CallOK(c) /\ Server /\ call[c].backup \in rows
      /\ UNCHANGED <<dataVars, storeVars, crashes, raced, pageVars>>
  BY DEF Read, At, Inv, Server
<1>2. PICK s \in {"ok", "exporting"} :
        /\ Move(c, s)
        /\ s = "ok" <=> call[c].kind = "validate"
        /\ s = "exporting" => holder' = holder
        /\ holder' \in {holder, IF holder = c THEN Nobody ELSE holder}
  BY DEF Read, Kind, Finish, Release, AfterReading
<1>3. s \in Steps /\ call[c].step \in Live
  BY <1>1 DEF Steps, Live
<1>4. CallOK(c)' /\ SafetyOK(c)'
  BY <1>1, <1>2, <1>3, Moved DEF CallOK, SafetyOK, Exclusive, storeVars, dataVars, CallRecords, Kinds
<1>5. c \notin rows
  BY <1>1 DEF CallOK
<1>6. /\ holder \in Calls \cup {Nobody} /\ \A b \in Calls \ {c} : holder = b => holder' = b
      /\ log \subseteq logged /\ logged \subseteq Entries
  BY <1>1, <1>2 DEF Server, Database
<1>. QED
  BY <1>1, <1>2, <1>3, <1>4, <1>5, <1>6, QuietStep DEF storeVars, dataVars, auditVars

\* The row is there once its archive is.
LEMMA RecordRowStep ==
  ASSUME Inv, NEW c \in Calls, RecordRow(c)
  PROVE  Inv'
<1>1. call[c].step = "recording" /\ CallOK(c) /\ SafetyOK(c) /\ Server
      /\ rows' = rows \cup {c} /\ Move(c, "auditing")
      /\ UNCHANGED <<dataVars, files, holder, crashes, raced, pageVars>>
  BY DEF RecordRow, At, Inv, Server
<1>2. "auditing" \in Steps /\ call[c].step \in Live
  BY <1>1 DEF Steps, Live
<1>3. CallOK(c)'
  BY <1>1, <1>2, Moved DEF CallOK, Exclusive
<1>4. SafetyOK(c)'
  BY <1>1, <1>2, Moved DEF SafetyOK, dataVars
<1>5. 0 \in files[c].data
  BY <1>1 DEF CallOK
<1>6. holder \in Calls \cup {Nobody} /\ log \subseteq logged /\ logged \subseteq Entries
  BY <1>1 DEF Server, Database
<1>. QED
  BY <1>1, <1>2, <1>3, <1>4, <1>5, <1>6, QuietStep DEF dataVars, auditVars

\* A creation ends with its row; a restore has its safety archive recorded.
LEMMA AuditCreatedStep ==
  ASSUME Inv, NEW c \in Calls, AuditCreated(c)
  PROVE  Inv'
<1>1. call[c].step = "auditing" /\ CallOK(c) /\ SafetyOK(c) /\ Server
      /\ UNCHANGED <<data, made, work, session, storeVars, crashes, raced, pageVars>>
  BY DEF AuditCreated, AppendAudit, At, Inv, Server
<1>8. log' = log \cup {<<"created", c>>} /\ logged' = logged \cup {<<"created", c>>}
  BY DEF AuditCreated, AppendAudit
<1>2. PICK s \in {"ok", "applying"} :
        /\ Move(c, s)
        /\ s = "ok" <=> call[c].kind = "create"
        /\ s = "applying" => holder' = holder
        /\ holder' \in {holder, IF holder = c THEN Nobody ELSE holder}
  BY DEF AuditCreated, Kind, Finish, Release
<1>3. s \in Steps /\ call[c].step \in Live
  BY <1>1 DEF Steps, Live
<1>4. CallOK(c)'
  BY <1>1, <1>2, <1>3, Moved DEF CallOK, Exclusive, storeVars, CallRecords, Kinds
<1>5. SafetyOK(c)'
  BY <1>1, <1>2, <1>3, Moved DEF SafetyOK, storeVars
<1>6. /\ holder \in Calls \cup {Nobody} /\ \A b \in Calls \ {c} : holder = b => holder' = b
      /\ log' \subseteq logged' /\ logged \subseteq logged' /\ logged' \subseteq Entries
  BY <1>1, <1>2, <1>8 DEF Server, Database, Entries
<1>7. c \in rows => 0 \in files[c].data
  BY <1>1 DEF Server, Directory
<1>. QED
  BY <1>1, <1>2, <1>3, <1>4, <1>5, <1>6, <1>7, QuietStep DEF storeVars

\* A restore that ends well has replaced the tables.
LEMMA AuditRestoredStep ==
  ASSUME Inv, NEW c \in Calls, AuditRestored(c)
  PROVE  Inv'
<1>1. call[c].step = "finishing" /\ CallOK(c) /\ Server /\ Move(c, "ok")
      /\ holder' \in {holder, IF holder = c THEN Nobody ELSE holder}
      /\ UNCHANGED <<data, made, work, session, storeVars, crashes, raced, pageVars>>
  BY DEF AuditRestored, AppendAudit, At, Finish, Release, Inv, Server
<1>6. log' = log \cup {<<"restored", c>>} /\ logged' = logged \cup {<<"restored", c>>}
  BY DEF AuditRestored, AppendAudit
<1>2. "ok" \in Steps /\ call[c].step \in Live
  BY <1>1 DEF Steps, Live
<1>3. CallOK(c)' /\ SafetyOK(c)'
  BY <1>1, <1>2, Moved DEF CallOK, SafetyOK, Exclusive, storeVars
<1>4. /\ holder' \in Calls \cup {Nobody} /\ \A b \in Calls \ {c} : holder = b => holder' = b
      /\ log' \subseteq logged' /\ logged \subseteq logged' /\ logged' \subseteq Entries
  BY <1>1, <1>6 DEF Server, Database, Entries
<1>5. c \in rows => 0 \in files[c].data
  BY <1>1 DEF Server, Directory
<1>. QED
  BY <1>1, <1>2, <1>3, <1>4, <1>5, QuietStep DEF storeVars

-----------------------------------------------------------------------------

\* The archive of the call now holds the tables.
LEMMA ExportStep ==
  ASSUME Inv, NEW c \in Calls, Export(c)
  PROVE  Inv'
<1>. DEFINE archive == [data |-> data, work |-> work, log |-> log]
            number == IF call[c].kind = "restore" THEN made ELSE call[c].exported
            k == [call[c] EXCEPT !.step = "recording", !.exported = number]
<1>1. call[c].step = "exporting" /\ CallOK(c) /\ Server
      /\ UNCHANGED <<data, work, made, session, log, logged, rows, holder, crashes, raced, pageVars>>
  BY DEF Export, At, Inv, Server, dataVars, auditVars
<1>2. archive \in Archives /\ archive.data = data /\ archive.work = work /\ archive.log = log
  <2>1. data \subseteq Changes /\ work \subseteq Changes /\ log \subseteq Entries
    BY <1>1, Numbers DEF Server, Database, Changes
  <2>. QED
    BY <2>1 DEF Archives
<1>3. number \in Changes
  BY <1>1 DEF Server, Database, CallOK, CallRecords
<1>4. k \in CallRecords /\ k.step = "recording" /\ k.kind = call[c].kind
      /\ k.backup = call[c].backup /\ k.exported = number /\ k.changed = call[c].changed
  <2>. HIDE DEF number
  <2>. QED
    BY <1>1, <1>3 DEF CallOK, CallRecords, Steps, Live
<1>5. files' = [files EXCEPT ![c] = archive] /\ call' = [call EXCEPT ![c] = k]
  BY DEF Export, Kind
<1>. HIDE DEF archive, k
<1>6. files \in [Backups -> Archives] /\ call \in [Calls -> CallRecords] /\ c \in Backups
      /\ c \notin rows
  BY <1>1, Numbers DEF Server, Directory, CallOK
<1>7. files'[c] = archive /\ call'[c] = k
      /\ (\A b \in Backups \ {c} : files'[b] = files[b])
      /\ (\A b \in Calls \ {c} : call'[b] = call[b])
      /\ files' \in [Backups -> Archives] /\ call' \in [Calls -> CallRecords]
  BY <1>2, <1>4, <1>5, <1>6
<1>8. Database'
  BY <1>1 DEF Server, Database
<1>9. Directory'
  BY <1>1, <1>2, <1>6, <1>7 DEF Server, Directory, Database
<1>10. ChangesKept'
  BY <1>1, <1>6, <1>7 DEF Server, ChangesKept, Directory
<1>11. CallOK(c)'
  BY <1>1, <1>2, <1>4, <1>6, <1>7 DEF CallOK, Exclusive, Server, Database
<1>12. SafetyOK(c)'
  <2>. SUFFICES ASSUME call[c].kind = "restore" PROVE SafetyOK(c)'
    BY <1>4, <1>7 DEF SafetyOK
  <2>1. call'[c].exported = made /\ made \in Nat /\ files'[c].data = data
    BY <1>1, <1>2, <1>4, <1>7, Numbers DEF Server, Database, Changes
  <2>. QED
    BY <1>1, <2>1 DEF SafetyOK
<1>13. ASSUME NEW b \in Calls \ {c} PROVE Undisturbed(b)
  BY <1>1, <1>7, Numbers DEF Undisturbed
<1>14. call[c].step \in Live /\ rows \subseteq rows' /\ UNCHANGED pageVars
  BY <1>1 DEF Live
<1>. QED
  BY <1>7, <1>8, <1>9, <1>10, <1>11, <1>12, <1>13, <1>14, CallStep

\* The tables are replaced: what the safety archive holds is not lost, what is
\* younger has raced with the restore.
LEMMA ApplyStep ==
  ASSUME Inv, NEW c \in Calls, Apply(c)
  PROVE  Inv'
<1>. DEFINE k == [call[c] EXCEPT !.step = "finishing", !.changed = TRUE, !.exported = NotExported]
            b0 == call[c].backup
<1>1. call[c].step = "applying" /\ CallOK(c) /\ SafetyOK(c) /\ Server
      /\ data' = files[b0].data /\ work' = files[b0].work /\ log' = files[b0].log
      /\ raced' = raced \cup {d \in data : d > call[c].exported}
      /\ UNCHANGED <<made, session, logged, files, rows, holder, crashes, pageVars>>
  BY DEF Apply, At, Inv, Server, storeVars
<1>2. k \in CallRecords /\ k.step = "finishing" /\ k.kind = call[c].kind
      /\ k.backup = call[c].backup /\ k.changed
  BY <1>1, Numbers DEF CallOK, CallRecords, Steps, Live
<1>3. call' = [call EXCEPT ![c] = k]
  BY DEF Apply
<1>. HIDE DEF k
<1>4. call'[c] = k /\ call' \in [Calls -> CallRecords] /\ \A b \in Calls \ {c} : call'[b] = call[b]
  BY <1>1, <1>2, <1>3 DEF Server
<1>5. call[c].kind = "restore" /\ b0 \in rows /\ c \in rows /\ holder = c
      /\ call[c].exported \in Nat /\ made \in Nat
  BY <1>1, Numbers DEF CallOK, CallRecords, Exclusive, Changes, Server, Database
<1>6. Database'
  BY <1>1, <1>5 DEF Server, Database, Directory
<1>7. Directory'
  BY <1>1 DEF Server, Directory
<1>8. ChangesKept'
  <2>. SUFFICES ASSUME NEW d \in 0..made, d \notin raced', d \in data
                PROVE  \E b \in rows : d \in files[b].data
    BY <1>1 DEF Server, ChangesKept
  <2>1. d <= call[c].exported
    BY <1>1, <1>5
  <2>. QED
    BY <1>1, <1>5, <2>1 DEF SafetyOK
<1>9. CallOK(c)' /\ SafetyOK(c)'
  BY <1>1, <1>2, <1>4, <1>5 DEF CallOK, SafetyOK, Exclusive
<1>10. ASSUME NEW b \in Calls \ {c} PROVE Undisturbed(b)
  BY <1>1, <1>4, <1>5 DEF Undisturbed
<1>11. call[c].step \in Live /\ rows \subseteq rows' /\ UNCHANGED pageVars
  BY <1>1 DEF Live
<1>. QED
  BY <1>4, <1>6, <1>7, <1>8, <1>9, <1>10, <1>11, CallStep

\* A failure removes an archive only before it was recorded.
LEMMA FailStep ==
  ASSUME Inv, NEW c \in Calls, Fail(c)
  PROVE  Inv'
<1>. DEFINE k == [call[c] EXCEPT !.step = "failed"]
<1>1. call[c].step \in Live /\ CallOK(c) /\ Server
      /\ holder' \in {holder, IF holder = c THEN Nobody ELSE holder}
      /\ UNCHANGED <<data, work, made, session, log, logged, rows, crashes, raced, pageVars>>
  BY DEF Fail, TablesKept, Release, Inv, Server
<1>2. k \in CallRecords /\ k.step = "failed" /\ k.kind = call[c].kind
      /\ k.changed = call[c].changed
  BY <1>1 DEF CallOK, CallRecords, Steps, Live
<1>3. call' = [call EXCEPT ![c] = k]
  BY DEF Fail, Move
<1>. HIDE DEF k
<1>4. call'[c] = k /\ call' \in [Calls -> CallRecords] /\ \A b \in Calls \ {c} : call'[b] = call[b]
  BY <1>1, <1>2, <1>3 DEF Server
<1>5. files' = files \/ (c \notin rows /\ files' = [files EXCEPT ![c] = NoArchive])
  BY <1>1 DEF Fail, Removes, At, CallOK
<1>6. NoArchive \in Archives /\ NoArchive.data = {} /\ NoArchive.work = {} /\ NoArchive.log = {}
  BY DEF NoArchive, Archives
<1>7. files \in [Backups -> Archives] /\ c \in Backups /\ c # 0
  BY <1>1, Numbers DEF Server, Directory
<1>8. files' \in [Backups -> Archives] /\ (\A b \in Backups \ {c} : files'[b] = files[b])
      /\ (files'[c] = files[c] \/ (c \notin rows /\ files'[c] = NoArchive))
  BY <1>5, <1>6, <1>7
<1>9. Database'
  BY <1>1 DEF Server, Database
<1>10. Directory'
  BY <1>1, <1>6, <1>8 DEF Server, Directory
<1>11. ChangesKept'
  BY <1>1, <1>7, <1>8 DEF Server, ChangesKept, Directory
<1>12. CallOK(c)' /\ SafetyOK(c)'
  BY <1>1, <1>2, <1>4 DEF CallOK, SafetyOK, Exclusive, Live
<1>13. ASSUME NEW b \in Calls \ {c} PROVE Undisturbed(b)
  BY <1>1, <1>4, <1>8, Numbers DEF Undisturbed
<1>14. rows \subseteq rows' /\ UNCHANGED pageVars
  BY <1>1
<1>. QED
  BY <1>1, <1>4, <1>9, <1>10, <1>11, <1>12, <1>13, <1>14, CallStep

\* Handlers end where they are; what they recorded stays.
LEMMA CrashStep ==
  ASSUME Inv, Crash
  PROVE  Inv'
<1>1. Server /\ holder' = Nobody /\ crashes' = crashes + 1 /\ crashes < MaxCrashes
      /\ UNCHANGED <<data, work, made, session, log, logged, files, rows, raced, pageVars>>
  BY DEF Crash, dataVars, auditVars, storeVars, Inv
<1>2. ASSUME NEW b \in Calls
      PROVE  /\ call'[b] \in CallRecords
             /\ CallOK(b)' /\ SafetyOK(b)'
  <2>. DEFINE k == [call[b] EXCEPT !.step = "failed"]
  <2>1. CallOK(b) /\ SafetyOK(b)
    BY <1>1 DEF Server
  <2>2. k \in CallRecords /\ k.step = "failed" /\ k.kind = call[b].kind
        /\ k.changed = call[b].changed
    BY <2>1 DEF CallOK, CallRecords, Steps
  <2>3. call'[b] = IF call[b].step \in Live THEN k ELSE call[b]
    BY DEF Crash
  <2>. HIDE DEF k
  <2>4. CASE call[b].step \in Live
    <3>1. call'[b] = k
      BY <2>3, <2>4
    <3>. QED
      BY <1>1, <2>1, <2>2, <2>4, <3>1 DEF CallOK, SafetyOK, Exclusive, Live
  <2>5. CASE call[b].step \notin Live
    <3>1. call'[b] = call[b] /\ call[b].step \in {"idle", "ok", "failed"}
      BY <2>1, <2>3, <2>5 DEF CallOK, CallRecords, Steps
    <3>. QED
      BY <1>1, <2>1, <3>1 DEF CallOK, SafetyOK, Exclusive
  <2>. QED
    BY <2>4, <2>5
<1>3. call' \in [Calls -> CallRecords]
  <2>1. call' = [b \in Calls |-> call'[b]]
    BY DEF Crash
  <2>. QED
    BY <1>2, <2>1
<1>4. Database' /\ Directory'
  BY <1>1, Numbers DEF Server, Database, Directory
<1>5. ChangesKept'
  BY <1>1 DEF Server, ChangesKept
<1>6. Shown'
  BY <1>1 DEF Inv, Shown, pageVars
<1>. QED
  BY <1>2, <1>3, <1>4, <1>5, <1>6 DEF Inv, Server

-----------------------------------------------------------------------------

\* A change is made, or work ends: calls and archives stay.
LEMMA DatabaseStep ==
  ASSUME Server, UNCHANGED <<auditVars, storeVars, holder, crashes, raced, call>>,
         \/ made' = made /\ data' = data /\ work' \subseteq work
         \/ /\ made < MaxChanges /\ made' = made + 1 /\ data' = data \cup {made'}
            /\ work' \subseteq work \cup {made'},
         session' \in {session, made'}
  PROVE  Server'
<1>1. made \in Nat /\ made' \in Changes /\ made <= made' /\ made' \in {made, made + 1}
  BY Numbers DEF Server, Database, Changes
<1>2. Database'
  <2>1. 0..made \subseteq 0..made' /\ made' \in 0..made'
    BY <1>1, Numbers DEF Changes
  <2>. QED
    BY <1>1, <2>1 DEF Server, Database, auditVars
<1>3. Directory'
  <2>1. 0..made \subseteq 0..made'
    BY <1>1, Numbers DEF Changes
  <2>. QED
    BY <2>1 DEF Server, Directory, storeVars, auditVars
<1>4. ChangesKept'
  <2>. SUFFICES ASSUME NEW d \in 0..made'
                PROVE  d \in data' \cup raced \/ \E b \in rows : d \in files[b].data
    BY DEF ChangesKept, storeVars
  <2>1. d \in 0..made \/ (d = made' /\ made' = made + 1)
    BY <1>1, Numbers DEF Changes
  <2>. QED
    BY <1>1, <2>1 DEF Server, ChangesKept
<1>5. ASSUME NEW b \in Calls PROVE CallOK(b)' /\ SafetyOK(b)'
  <2>1. Undisturbed(b)
    BY <1>1 DEF Undisturbed, storeVars
  <2>. QED
    BY <2>1, OtherCall
<1>. QED
  BY <1>2, <1>3, <1>4, <1>5 DEF Server

\* Requests of others and workers.
LEMMA OthersStep ==
  ASSUME Inv, MakeChange \/ FinishWork
  PROVE  Inv'
<1>1. UNCHANGED <<session, auditVars, storeVars, holder, crashes, raced, call, pageVars>>
  BY DEF MakeChange, FinishWork
<1>2. \/ made' = made /\ data' = data /\ work' \subseteq work
      \/ /\ made < MaxChanges /\ made' = made + 1 /\ data' = data \cup {made'}
         /\ work' \subseteq work \cup {made'}
  BY DEF MakeChange, FinishWork
<1>3. Server'
  BY <1>1, <1>2, DatabaseStep DEF Inv
<1>4. Shown'
  BY <1>1 DEF Inv, Shown, pageVars, storeVars
<1>. QED
  BY <1>3, <1>4 DEF Inv

-----------------------------------------------------------------------------

\* A list call is one of its three.
LEMMA ListFacts ==
  ASSUME NEW state \in {"none", "sent", "read"}, NEW shown \in SUBSET Backups
  PROVE  /\ ListCall(state, shown) \in ListCalls
         /\ ListCall(state, shown).state = state /\ ListCall(state, shown).rows = shown
         /\ NoList = ListCall("none", {})
BY DEF ListCall, ListCalls, NoList

\* The two list calls as a function.
LEMMA BothLists ==
  ASSUME NEW a \in ListCalls, NEW b \in ListCalls
  PROVE  LET both == [mount |-> a, created |-> b] IN
         both \in [{"mount", "created"} -> ListCalls] /\ both["mount"] = a /\ both["created"] = b
OBVIOUS

\* A page that was just opened shows nothing and awaits nothing.
LEMMA FreshPageInv ==
  ASSUME FreshPage, rows' \subseteq Backups
  PROVE  Shown'
<1>1. lists' = [mount |-> ListCall("sent", {}), created |-> NoList]
      /\ listed' = {} /\ error' = "" /\ notice' = "" /\ submitting' = FALSE
      /\ dialog' = NoDialog /\ awaiting' = Nobody
  BY DEF FreshPage
<1>2. ListCall("sent", {}) \in ListCalls /\ NoList \in ListCalls
      /\ ListCall("sent", {}).state = "sent" /\ ListCall("sent", {}).rows = {} /\ NoList.rows = {}
  BY ListFacts
<1>3. lists' \in [{"mount", "created"} -> ListCalls]
      /\ lists'["mount"] = ListCall("sent", {}) /\ lists'["created"] = NoList
  BY <1>1, <1>2, BothLists
<1>. QED
  BY <1>1, <1>2, <1>3 DEF Shown, Dialogs

\* The page is opened anew, with the old session or a new one.
LEMMA ArriveStep ==
  ASSUME Inv, Remount \/ Login
  PROVE  Inv'
<1>1. FreshPage /\ UNCHANGED <<storeVars, holder, crashes, raced, call>>
  BY DEF Remount, Login, serverVars
<1>2. Server'
  BY DatabaseStep DEF Remount, Login, serverVars, dataVars, Inv
<1>3. rows' \subseteq Backups
  BY <1>2 DEF Server, Directory
<1>. QED
  BY <1>1, <1>2, <1>3, FreshPageInv DEF Inv

\* The server is as it was, and so are the calls.
LEMMA ServerKept == Server /\ UNCHANGED <<serverVars, call>> => Server'
<1>. SUFFICES ASSUME Server, UNCHANGED <<serverVars, call>> PROVE Server'
  OBVIOUS
<1>. QED
  BY DatabaseStep DEF serverVars, dataVars

\* Lists show what is recorded; the last one after a creation frees the buttons.
LEMMA ListStepInv ==
  ASSUME Inv, NEW which \in {"mount", "created"}, ListStep(which)
  PROVE  Inv'
<1>1. UNCHANGED <<serverVars, call, notice, dialog, awaiting>> /\ rows' = rows
  BY DEF ListStep, ReadList, Refreshed, serverVars, storeVars
<1>2. Server'
  BY <1>1, ServerKept DEF Inv
<1>3. PICK state \in {"read", "none"}, shown \in SUBSET Backups :
        /\ lists' = [lists EXCEPT ![which] = ListCall(state, shown)]
        /\ shown \subseteq rows /\ (state = "none" => shown = {})
        /\ state = "read" => submitting' = submitting /\ listed' = listed /\ error' = error
                             /\ lists[which].state = "sent"
        /\ state = "none" => /\ submitting' = (submitting /\ which # "created")
                             /\ listed' \in {listed, lists[which].rows} /\ error' = ""
                             /\ lists[which].state # "none"
  <2>1. rows \subseteq Backups
    BY DEF Inv, Server, Directory
  <2>2. CASE ReadList(which)
    <3>1. lists' = [lists EXCEPT ![which] = ListCall("read", rows)] /\ submitting' = submitting
          /\ listed' = listed /\ error' = error /\ lists[which].state = "sent"
      BY <2>2 DEF ReadList, SetList
    <3>. QED
      BY <2>1, <3>1
  <2>3. CASE Refreshed(which)
    <3>1. lists' = [lists EXCEPT ![which] = ListCall("none", {})] /\ error' = ""
          /\ submitting' = (submitting /\ which # "created")
      BY <2>3 DEF Refreshed, SetList
    <3>2. listed' \in {listed, lists[which].rows} /\ lists[which].state # "none"
      BY <2>3 DEF Refreshed
    <3>3. {} \in SUBSET Backups /\ {} \subseteq rows
      OBVIOUS
    <3>. QED
      BY <3>1, <3>2, <3>3
  <2>. QED
    BY <2>2, <2>3 DEF ListStep
<1>4. lists \in [{"mount", "created"} -> ListCalls]
      /\ \A w \in {"mount", "created"} :
           lists[w].rows \subseteq rows /\ (lists[w].state = "none" => lists[w] = NoList)
  BY DEF Inv, Shown
<1>5. /\ ListCall(state, shown) \in ListCalls
      /\ ListCall(state, shown).state = state /\ ListCall(state, shown).rows = shown
      /\ NoList = ListCall("none", {}) /\ NoList.state = "none"
  BY ListFacts
<1>6. lists' \in [{"mount", "created"} -> ListCalls]
      /\ lists'[which] = ListCall(state, shown)
      /\ \A w \in {"mount", "created"} : w # which => lists'[w] = lists[w]
  BY <1>3, <1>4, <1>5
<1>7. which = "created" => lists["created"] # NoList /\ awaiting = Nobody /\ submitting
  BY <1>3, <1>5 DEF Inv, Shown
<1>8. state = "none" <=> lists'[which] = NoList
  BY <1>3, <1>5, <1>6
<1>9. Shown'
  <2>1. \A w \in {"mount", "created"} :
          lists'[w].rows \subseteq rows' /\ (lists'[w].state = "none" => lists'[w] = NoList)
    BY <1>1, <1>3, <1>4, <1>5, <1>6
  <2>2. listed' \subseteq rows'
    BY <1>1, <1>3, <1>4 DEF Inv, Shown
  <2>3. submitting' <=> (awaiting' # Nobody \/ lists'["created"] # NoList)
    <3>1. submitting <=> (awaiting # Nobody \/ lists["created"] # NoList)
      BY DEF Inv, Shown
    <3>2. CASE which = "created" /\ state = "none"
      BY <1>1, <1>3, <1>6, <1>7, <1>8, <3>2
    <3>3. CASE which = "created" /\ state = "read"
      BY <1>1, <1>3, <1>6, <1>7, <1>8, <3>3
    <3>4. CASE which = "mount"
      <4>1. submitting' <=> submitting
        <5>1. submitting \in BOOLEAN /\ which # "created"
          BY <3>4 DEF Inv, Shown
        <5>2. submitting' = submitting
          BY <1>3, <5>1
        <5>. QED
          BY <5>2
      <4>2. lists'["created"] = lists["created"] /\ awaiting' = awaiting
        BY <1>1, <1>6, <3>4
      <4>. QED
        BY <3>1, <4>1, <4>2
    <3>. QED
      BY <1>3, <3>2, <3>3, <3>4
  <2>4. awaiting' # Nobody => lists'["created"] = NoList
    BY <1>1, <1>6, <1>7 DEF Inv, Shown
  <2>5. submitting' \in BOOLEAN
    BY <1>3 DEF Inv, Shown
  <2>. QED
    BY <1>1, <1>3, <1>6, <2>1, <2>2, <2>3, <2>4, <2>5 DEF Inv, Shown
<1>. QED
  BY <1>2, <1>9 DEF Inv

\* The page writes to one call.
LEMMA OneCall ==
  ASSUME Server, UNCHANGED serverVars, NEW c \in Calls, NEW k \in CallRecords,
         call' = [call EXCEPT ![c] = k], CallOK(c)', SafetyOK(c)'
  PROVE  Server'
<1>1. UNCHANGED <<data, work, made, session, log, logged, files, rows, holder, crashes, raced>>
  BY DEF serverVars, dataVars, auditVars, storeVars
<1>2. call' \in [Calls -> CallRecords] /\ \A b \in Calls \ {c} : call'[b] = call[b]
  BY DEF Server
<1>3. ASSUME NEW b \in Calls \ {c} PROVE CallOK(b)' /\ SafetyOK(b)'
  <2>1. Undisturbed(b)
    BY <1>1, <1>2 DEF Undisturbed
  <2>. QED
    BY <2>1, OtherCall
<1>4. Database' /\ Directory' /\ ChangesKept'
  BY <1>1 DEF Server, Database, Directory, ChangesKept
<1>. QED
  BY <1>2, <1>3, <1>4 DEF Server

\* A submission starts with a call that was idle.
LEMMA SubmitStep ==
  ASSUME Inv, NEW c \in Calls, NEW kind \in Kinds, NEW backup \in Backups,
         Submit(c, kind, backup)
  PROVE  Inv'
<1>. DEFINE k == [call[c] EXCEPT !.step = "sent", !.kind = kind, !.backup = backup]
<1>1. call[c].step = "idle" /\ CallOK(c) /\ Server /\ ~submitting /\ submitting' = TRUE
      /\ error' = "" /\ notice' = "" /\ awaiting' = c
      /\ UNCHANGED <<serverVars, listed, lists, dialog>>
  BY DEF Submit, At, Inv, Server
<1>2. k \in CallRecords /\ k.step = "sent" /\ k.changed = call[c].changed
  BY <1>1 DEF CallOK, CallRecords, Steps, Live
<1>3. call' = [call EXCEPT ![c] = k]
  BY DEF Submit
<1>. HIDE DEF k
<1>4. call'[c] = k
  BY <1>1, <1>3 DEF Server
<1>5. CallOK(c)' /\ SafetyOK(c)'
  BY <1>1, <1>2, <1>4 DEF CallOK, SafetyOK, Exclusive, serverVars, storeVars
<1>6. Server'
  BY <1>1, <1>2, <1>3, <1>5, OneCall
<1>7. Shown'
  <2>1. lists["created"] = NoList
    BY <1>1 DEF Inv, Shown
  <2>2. rows' = rows
    BY <1>1 DEF serverVars, storeVars
  <2>. QED
    BY <1>1, <2>1, <2>2, Numbers DEF Inv, Shown
<1>. QED
  BY <1>6, <1>7 DEF Inv

\* Clicks that write nothing but the dialog and the error.
LEMMA DialogStep ==
  ASSUME Inv,
         UNCHANGED <<serverVars, call, listed, lists, notice, submitting, awaiting>>,
         dialog' \in Dialogs, error' \in {error, ""}
  PROVE  Inv'
<1>1. Server' /\ rows' = rows
  BY ServerKept DEF Inv, serverVars, storeVars
<1>2. Shown'
  BY <1>1 DEF Inv, Shown
<1>. QED
  BY <1>1, <1>2 DEF Inv

\* What the user does.
LEMMA UserInv ==
  ASSUME Inv, UserStep
  PROVE  Inv'
<1>1. dialog \in Dialogs
  BY DEF Inv, Shown
<1>2. ASSUME NEW c \in Calls, Create(c) \/ SubmitDialog(c) PROVE Inv'
  <2>1. dialog.mode \in Kinds /\ dialog.backup \in Backups
    BY <1>1, Numbers DEF Dialogs, NoDialog, Kinds
  <2>2. "create" \in Kinds /\ 0 \in Backups
    BY Numbers DEF Kinds
  <2>3. CASE Create(c)
    BY <2>2, <2>3, SubmitStep DEF Create
  <2>4. CASE SubmitDialog(c)
    BY <2>1, <2>4, SubmitStep DEF SubmitDialog
  <2>. QED
    BY <1>2, <2>3, <2>4
<1>3. ASSUME NEW mode \in {"validate", "restore"}, NEW b \in Backups, OpenDialog(mode, b)
      PROVE  Inv'
  <2>1. [mode |-> mode, backup |-> b] \in Dialogs
    BY DEF Dialogs
  <2>2. dialog' \in Dialogs /\ error' = ""
    BY <1>3, <2>1 DEF OpenDialog
  <2>. QED
    BY <1>3, <2>2, DialogStep DEF OpenDialog
<1>4. CASE CloseDialog \/ Download
  <2>1. NoDialog \in Dialogs
    BY DEF Dialogs
  <2>2. dialog' \in Dialogs /\ error' \in {error, ""}
    BY <1>1, <1>4, <2>1 DEF CloseDialog, Download
  <2>. QED
    BY <1>4, <2>2, DialogStep DEF CloseDialog, Download
<1>5. CASE Remount \/ Login
  BY <1>5, ArriveStep
<1>. QED
  BY <1>2, <1>3, <1>4, <1>5 DEF UserStep

\* The page shows a success.
LEMMA SucceedStep ==
  ASSUME Inv, NEW c \in Calls, Succeed(c)
  PROVE  Inv'
<1>1. awaiting = c /\ call[c].step = "ok" /\ awaiting' = Nobody
      /\ notice' = SuccessNotice(call[c].kind) /\ CallOK(c)
      /\ UNCHANGED <<serverVars, call, listed, error>>
  BY DEF Succeed, At, Kind, Inv, Server
<1>2. Server' /\ rows' = rows
  BY <1>1, ServerKept DEF Inv, serverVars, storeVars
<1>3. call[c].kind \in Kinds /\ c # Nobody
  BY <1>1, Numbers DEF CallOK, CallRecords
<1>4. notice' \in {"created", "validated", "restored"}
  BY <1>1, <1>3 DEF SuccessNotice, Kinds
<1>5. lists["created"] = NoList /\ submitting
      /\ lists \in [{"mount", "created"} -> ListCalls] /\ dialog \in Dialogs
  BY <1>1, <1>3 DEF Inv, Shown
<1>6. ListCall("sent", {}) \in ListCalls /\ ListCall("sent", {}).state = "sent"
      /\ ListCall("sent", {}).rows = {} /\ NoList = ListCall("none", {})
      /\ ListCall("none", {}).state = "none"
  BY ListFacts
<1>7. Shown'
  <2>1. CASE call[c].kind = "create"
    <3>1. lists' = [lists EXCEPT !["created"] = ListCall("sent", {})]
          /\ submitting' = submitting /\ dialog' = dialog
      BY <2>1 DEF Succeed, SetList, Kind
    <3>2. lists' \in [{"mount", "created"} -> ListCalls]
          /\ lists'["created"] = ListCall("sent", {}) /\ lists'["mount"] = lists["mount"]
      BY <1>5, <1>6, <3>1
    <3>3. lists'["created"] # NoList
      BY <1>6, <3>2
    <3>. QED
      BY <1>1, <1>2, <1>3, <1>4, <1>5, <1>6, <3>1, <3>2, <3>3 DEF Inv, Shown
  <2>2. CASE call[c].kind # "create"
    <3>1. lists' = lists /\ submitting' = FALSE /\ dialog' = NoDialog
      BY <2>2 DEF Succeed, Kind
    <3>. QED
      BY <1>1, <1>2, <1>3, <1>4, <1>5, <3>1 DEF Inv, Shown, Dialogs
  <2>. QED
    BY <2>1, <2>2
<1>. QED
  BY <1>2, <1>7 DEF Inv

\* The page shows a failure, or none; the call may go on.
LEMMA CatchStep ==
  ASSUME Inv, NEW c \in Calls, Rejected(c)
  PROVE  Inv'
<1>1. awaiting = c /\ awaiting' = Nobody /\ error' = FailureText(call[c].kind)
      /\ submitting' = FALSE /\ CallOK(c)
      /\ UNCHANGED <<serverVars, call, listed, lists, notice, dialog>>
  BY DEF Rejected, Kind, Inv, Server
<1>2. Server' /\ rows' = rows
  BY <1>1, ServerKept DEF Inv, serverVars, storeVars
<1>3. call[c].kind \in Kinds /\ c # Nobody
  BY <1>1, Numbers DEF CallOK, CallRecords
<1>4. error' \in {"", "create", "not replaced"}
  BY <1>1, <1>3 DEF FailureText, Kinds
<1>5. Shown'
  BY <1>1, <1>2, <1>3, <1>4 DEF Inv, Shown
<1>. QED
  BY <1>2, <1>5 DEF Inv

-----------------------------------------------------------------------------

\* The invariant is inductive.
LEMMA NextInv == Inv /\ [Next]_vars => Inv'
<1>. SUFFICES ASSUME Inv, [Next]_vars PROVE Inv'
  OBVIOUS
<1>1. ASSUME NEW c \in Calls, ServiceStep(c) PROVE Inv'
  BY <1>1, ReceiveStep, CheckActivityStep, LockStep, ReadStep, ExportStep, RecordRowStep,
     AuditCreatedStep, ApplyStep, AuditRestoredStep, FailStep DEF ServiceStep
<1>2. ASSUME NEW c \in Calls, Settle(c) \/ LoseAnswer(c) PROVE Inv'
  BY <1>2, SucceedStep, CatchStep DEF Settle, Catch, LoseAnswer
<1>3. ASSUME NEW which \in {"mount", "created"}, ListStep(which) PROVE Inv'
  BY <1>3, ListStepInv
<1>4. CASE UserStep
  BY <1>4, UserInv
<1>5. CASE MakeChange \/ FinishWork
  BY <1>5, OthersStep
<1>6. CASE Crash
  BY <1>6, CrashStep
<1>7. CASE UNCHANGED vars
  <2>1. UNCHANGED <<serverVars, call>> /\ UNCHANGED pageVars /\ rows' = rows
    BY <1>7 DEF vars, serverVars, storeVars
  <2>. QED
    BY <2>1, ServerKept DEF Inv, Shown, pageVars
<1>. QED
  BY <1>1, <1>2, <1>3, <1>4, <1>5, <1>6, <1>7 DEF Next

\* Every step of page, service, workers and restarts keeps the invariant.
THEOREM BackupsInvariant == Spec => []Inv
<1>. QED
  BY InitInv, NextInv, PTL DEF Spec

\* Types, a file behind every recorded backup, and buttons disabled exactly
\* while the page waits (service.go:112-121, BackupsPage.tsx).
THEOREM BackupsTypeCorrect == Spec => []BackupsTypeOK
<1>1. Inv => BackupsTypeOK
  <2>. SUFFICES ASSUME Inv PROVE BackupsTypeOK
    OBVIOUS
  <2>1. \A b \in rows : files[b] # NoArchive
    BY DEF Inv, Server, Directory, NoArchive
  <2>2. lists \in [{"mount", "created"} -> ListCalls] /\ lists.created = lists["created"]
    BY DEF Inv, Shown
  <2>3. submitting <=> (awaiting # Nobody \/ lists.created # NoList)
    BY <2>2 DEF Inv, Shown
  <2>4. /\ data \subseteq 0..made /\ work \subseteq data /\ made \in Changes /\ session \in 0..made
        /\ files \in [Backups -> Archives] /\ rows \subseteq Backups
        /\ holder \in Calls \cup {Nobody} /\ crashes \in 0..MaxCrashes /\ raced \subseteq 0..made
        /\ call \in [Calls -> CallRecords] /\ listed \subseteq rows /\ dialog \in Dialogs
        /\ awaiting \in Calls \cup {Nobody} /\ log \subseteq logged /\ logged \subseteq Entries
    BY DEF Inv, Server, Database, Directory, Shown
  <2>5. error \in {"", "create", "not replaced"}
        /\ notice \in {"", "created", "validated", "restored"}
    BY DEF Inv, Shown
  <2>. QED
    BY <2>1, <2>2, <2>3, <2>4, <2>5 DEF BackupsTypeOK, CallRecords, ListCalls
<1>. QED
  BY <1>1, BackupsInvariant, PTL


-----------------------------------------------------------------------------

\* The safety archive of a restore that has not replaced the tables yet holds
\* every audit entry but the one about itself.
EntriesSafe(c) ==
  call[c].step \in {"recording", "auditing", "applying"} /\ call[c].kind = "restore" =>
    log \subseteq files[c].log \cup {<<"created", c>>}

\* NothingLost, of the audit entries, and why it stays so.
AuditOK ==
  /\ \A e \in logged : e \in log \/ OwnEntry(e) \/ \E b \in rows : e \in files[b].log
  /\ \A c \in Calls : EntriesSafe(c)

\* A call that has replaced the tables has done so for ever.
CallsKept ==
  \A c \in Calls : call[c].changed => call'[c].changed /\ call'[c].kind = call[c].kind

LEMMA OwnEntryKept ==
  ASSUME CallsKept, NEW e \in Entries, OwnEntry(e)
  PROVE  OwnEntry(e)'
<1>1. e[2] \in Calls
  BY DEF Entries
<1>. QED
  BY <1>1 DEF CallsKept, OwnEntry, Kind

\* A step that writes no entry and keeps the recorded archives.
LEMMA EntriesKept ==
  ASSUME Inv, AuditOK, CallsKept, UNCHANGED <<log, logged>>, rows \subseteq rows',
         \A b \in rows : files'[b] = files[b],
         \A c \in Calls : EntriesSafe(c)'
  PROVE  AuditOK'
<1>1. logged \subseteq Entries
  BY DEF Inv, Server, Database
<1>2. ASSUME NEW e \in logged
      PROVE  e \in log \/ OwnEntry(e)' \/ \E b \in rows' : e \in files'[b].log
  BY <1>1, OwnEntryKept DEF AuditOK
<1>. QED
  BY <1>2 DEF AuditOK

\* A step of others or of the page.
LEMMA EntriesUntouched ==
  ASSUME Inv, AuditOK, UNCHANGED <<log, logged, files, rows>>,
         \A c \in Calls : \/ call'[c] = call[c]
                          \/ ~call[c].changed /\ call'[c].step \in {"sent", "failed"}
                          \/ /\ call'[c].step \in {"sent", "failed"}
                             /\ call'[c].changed = call[c].changed /\ call'[c].kind = call[c].kind
  PROVE  AuditOK'
<1>1. CallsKept
  BY DEF CallsKept
<1>2. ASSUME NEW c \in Calls PROVE EntriesSafe(c)'
  BY DEF AuditOK, EntriesSafe
<1>. QED
  BY <1>1, <1>2, EntriesKept

\* A call moves on without writing an entry.
LEMMA EntriesMoved ==
  ASSUME Inv, AuditOK, NEW c \in Calls, NEW s \in Steps, Move(c, s),
         UNCHANGED <<log, logged>>, rows \subseteq rows',
         \A b \in Backups : files'[b] = files[b] \/ (b = c /\ s = "failed" /\ c \notin rows),
         s \in {"recording", "auditing", "applying"} =>
           call[c].step \in {"recording", "auditing", "applying"}
  PROVE  AuditOK'
<1>1. /\ call'[c].step = s /\ call'[c].kind = call[c].kind /\ call'[c].changed = call[c].changed
      /\ \A b \in Calls \ {c} : call'[b] = call[b]
  BY Moved DEF Inv
<1>2. CallsKept
  BY <1>1 DEF CallsKept
<1>3. rows \subseteq Backups /\ Calls \subseteq Backups
  BY Numbers DEF Inv, Server, Directory
<1>4. \A b \in rows : files'[b] = files[b]
  BY <1>3
<1>5. ASSUME NEW b \in Calls PROVE EntriesSafe(b)'
  BY <1>1, <1>3 DEF AuditOK, EntriesSafe
<1>. QED
  BY <1>2, <1>4, <1>5, EntriesKept

\* The holder of the mutex writes its entry: nobody else is between its safety
\* archive and its transaction.
LEMMA EntryWritten ==
  ASSUME Inv, AuditOK, NEW c \in Calls, NEW s \in Steps, Move(c, s), CallOK(c),
         call[c].step \in Exclusive, NEW event \in {"created", "restored"},
         log' = log \cup {<<event, c>>}, logged' = logged \cup {<<event, c>>},
         UNCHANGED <<files, rows>>,
         s \in {"recording", "auditing", "applying"} =>
           event = "created" /\ call[c].step \in {"recording", "auditing", "applying"}
  PROVE  AuditOK'
<1>1. /\ call'[c].step = s /\ call'[c].kind = call[c].kind /\ call'[c].changed = call[c].changed
      /\ \A b \in Calls \ {c} : call'[b] = call[b]
  BY Moved DEF Inv
<1>2. CallsKept
  BY <1>1 DEF CallsKept
<1>3. logged \subseteq Entries
  BY DEF Inv, Server, Database
<1>4. ASSUME NEW e \in logged'
      PROVE  e \in log' \/ OwnEntry(e)' \/ \E b \in rows' : e \in files'[b].log
  <2>1. CASE e \in logged
    BY <1>2, <1>3, <2>1, OwnEntryKept DEF AuditOK
  <2>2. CASE e = <<event, c>>
    BY <2>2
  <2>. QED
    BY <2>1, <2>2
<1>5. ASSUME NEW b \in Calls \ {c} PROVE EntriesSafe(b)'
  <2>1. call[b].step \notin Exclusive
    BY DEF Inv, Server, CallOK
  <2>. QED
    BY <1>1, <2>1 DEF EntriesSafe, Exclusive
<1>6. EntriesSafe(c)'
  BY <1>1 DEF AuditOK, EntriesSafe
<1>. QED
  BY <1>4, <1>5, <1>6 DEF AuditOK

\* The archive holds the entries that are there.
LEMMA ExportEntries ==
  ASSUME Inv, AuditOK, NEW c \in Calls, Export(c)
  PROVE  AuditOK'
<1>. DEFINE archive == [data |-> data, work |-> work, log |-> log]
            number == IF call[c].kind = "restore" THEN made ELSE call[c].exported
            k == [call[c] EXCEPT !.step = "recording", !.exported = number]
<1>1. CallOK(c) /\ call \in [Calls -> CallRecords] /\ files \in [Backups -> Archives]
      /\ UNCHANGED <<log, logged, rows>> /\ call[c].step = "exporting" /\ c \in Backups
      /\ rows \subseteq Backups
  BY Numbers DEF Export, At, dataVars, auditVars, Inv, Server, Directory
<1>2. files' = [files EXCEPT ![c] = archive] /\ call' = [call EXCEPT ![c] = k]
  BY DEF Export, Kind
<1>3. k.kind = call[c].kind /\ k.changed = call[c].changed
  BY <1>1 DEF CallOK, CallRecords
<1>4. archive.log = log
  OBVIOUS
<1>. HIDE DEF archive, k
<1>5. call'[c] = k /\ files'[c] = archive /\ c \notin rows
      /\ (\A b \in Calls \ {c} : call'[b] = call[b])
      /\ \A b \in Backups \ {c} : files'[b] = files[b]
  BY <1>1, <1>2 DEF CallOK
<1>6. CallsKept
  BY <1>3, <1>5 DEF CallsKept
<1>7. \A b \in rows : files'[b] = files[b]
  BY <1>1, <1>5
<1>8. ASSUME NEW b \in Calls PROVE EntriesSafe(b)'
  <2>1. CASE b = c
    BY <1>1, <1>4, <1>5, <2>1 DEF EntriesSafe
  <2>2. CASE b # c
    <3>1. b \in Backups /\ EntriesSafe(b)
      BY Numbers DEF AuditOK
    <3>. QED
      BY <1>1, <1>5, <2>2, <3>1 DEF EntriesSafe
  <2>. QED
    BY <2>1, <2>2
<1>. QED
  BY <1>1, <1>6, <1>7, <1>8, EntriesKept

\* The tables are replaced: the entries are in the safety archive, but for its own.
LEMMA ApplyEntries ==
  ASSUME Inv, AuditOK, NEW c \in Calls, Apply(c)
  PROVE  AuditOK'
<1>. DEFINE k == [call[c] EXCEPT !.step = "finishing", !.changed = TRUE, !.exported = NotExported]
<1>1. CallOK(c) /\ call \in [Calls -> CallRecords] /\ call[c].step = "applying"
      /\ UNCHANGED <<logged, files, rows>> /\ logged \subseteq Entries
  BY DEF Apply, At, storeVars, Inv, Server, Database
<1>2. k.step = "finishing" /\ k.kind = call[c].kind /\ k.changed
  BY <1>1 DEF CallOK, CallRecords
<1>3. call' = [call EXCEPT ![c] = k]
  BY DEF Apply
<1>. HIDE DEF k
<1>4. call'[c] = k /\ \A b \in Calls \ {c} : call'[b] = call[b]
  BY <1>1, <1>3
<1>5. call[c].kind = "restore" /\ holder = c /\ c \in rows
      /\ log \subseteq files[c].log \cup {<<"created", c>>}
  BY <1>1 DEF CallOK, Exclusive, AuditOK, EntriesSafe
<1>6. CallsKept
  BY <1>2, <1>4 DEF CallsKept
<1>7. ASSUME NEW e \in logged
      PROVE  OwnEntry(e)' \/ \E b \in rows : e \in files[b].log
  <2>1. CASE e = <<"created", c>>
    BY <1>2, <1>4, <1>5, <2>1 DEF OwnEntry, Kind
  <2>2. CASE e \in log /\ e # <<"created", c>>
    BY <1>5, <2>2
  <2>3. CASE e \notin log
    BY <1>1, <1>6, <2>3, OwnEntryKept DEF AuditOK
  <2>. QED
    BY <2>1, <2>2, <2>3
<1>8. ASSUME NEW b \in Calls PROVE EntriesSafe(b)'
  <2>1. CASE b = c
    BY <1>2, <1>4, <2>1 DEF EntriesSafe
  <2>2. CASE b # c
    <3>1. call[b].step \notin Exclusive
      BY <1>5, <2>2 DEF Inv, Server, CallOK
    <3>. QED
      BY <1>4, <2>2, <3>1 DEF EntriesSafe, Exclusive
  <2>. QED
    BY <2>1, <2>2
<1>. QED
  BY <1>1, <1>7, <1>8 DEF AuditOK

\* The steps of the service.
LEMMA ServiceEntries ==
  ASSUME Inv, AuditOK, NEW c \in Calls, ServiceStep(c)
  PROVE  AuditOK'
<1>1. CallOK(c) /\ "failed" \in Steps /\ "ok" \in Steps /\ "auditing" \in Steps
      /\ "locking" \in Steps /\ "reading" \in Steps /\ "checking" \in Steps
      /\ "exporting" \in Steps /\ "applying" \in Steps
  BY DEF Inv, Server, Steps, Live
<1>2. CASE Receive(c)
  <2>1. PICK s \in {"locking", "reading", "checking"} : Move(c, s)
    BY <1>1, <1>2 DEF Receive, Kind, CallOK, CallRecords, Kinds
  <2>. QED
    BY <1>1, <1>2, <2>1, EntriesMoved DEF Receive, serverVars, dataVars, auditVars, storeVars
<1>3. CASE CheckActivity(c)
  BY <1>1, <1>3, EntriesMoved DEF CheckActivity, serverVars, dataVars, auditVars, storeVars
<1>4. CASE Lock(c)
  <2>1. PICK s \in {"exporting", "reading"} : Move(c, s)
    BY <1>4 DEF Lock
  <2>. QED
    BY <1>1, <1>4, <2>1, EntriesMoved DEF Lock, dataVars, auditVars, storeVars
<1>5. CASE Read(c)
  <2>1. PICK s \in {"ok", "exporting"} : Move(c, s)
    BY <1>5 DEF Read, Finish, AfterReading
  <2>. QED
    BY <1>1, <1>5, <2>1, EntriesMoved DEF Read, dataVars, auditVars, storeVars
<1>6. CASE Export(c)
  BY <1>6, ExportEntries
<1>7. CASE RecordRow(c)
  BY <1>1, <1>7, EntriesMoved DEF RecordRow, At, dataVars, auditVars
<1>8. CASE AuditCreated(c)
  <2>1. PICK s \in {"ok", "applying"} : Move(c, s)
    BY <1>8 DEF AuditCreated, Finish
  <2>2. call[c].step = "auditing" /\ call[c].step \in Exclusive
        /\ log' = log \cup {<<"created", c>>} /\ logged' = logged \cup {<<"created", c>>}
        /\ UNCHANGED <<files, rows>>
    BY <1>8 DEF AuditCreated, At, AppendAudit, storeVars, Exclusive
  <2>. QED
    BY <1>1, <2>1, <2>2, EntryWritten
<1>9. CASE Apply(c)
  BY <1>9, ApplyEntries
<1>10. CASE AuditRestored(c)
  <2>1. Move(c, "ok") /\ call[c].step \in Exclusive
        /\ log' = log \cup {<<"restored", c>>} /\ logged' = logged \cup {<<"restored", c>>}
        /\ UNCHANGED <<files, rows>>
    BY <1>10 DEF AuditRestored, Finish, At, AppendAudit, storeVars, Exclusive
  <2>. QED
    BY <1>1, <2>1, EntryWritten
<1>11. CASE Fail(c)
  <2>1. Move(c, "failed") /\ UNCHANGED <<log, logged, rows>>
    BY <1>11 DEF Fail, TablesKept
  <2>2. files' = files \/ (c \notin rows /\ files' = [files EXCEPT ![c] = NoArchive])
    BY <1>1, <1>11 DEF Fail, Removes, At, CallOK
  <2>3. files \in [Backups -> Archives]
    BY DEF Inv, Server, Directory
  <2>4. \A b \in Backups : files'[b] = files[b] \/ (b = c /\ c \notin rows)
    BY <2>2, <2>3
  <2>. QED
    BY <1>1, <2>1, <2>4, EntriesMoved
<1>. QED
  BY <1>2, <1>3, <1>4, <1>5, <1>6, <1>7, <1>8, <1>9, <1>10, <1>11 DEF ServiceStep

\* The steps of page, others and restarts write no entry.
LEMMA OtherEntries ==
  ASSUME Inv, AuditOK,
         \/ \E c \in Calls : Settle(c) \/ LoseAnswer(c)
         \/ \E which \in {"mount", "created"} : ListStep(which)
         \/ UserStep \/ MakeChange \/ FinishWork \/ Crash \/ UNCHANGED vars
  PROVE  AuditOK'
<1>1. CASE \E c \in Calls : Create(c) \/ SubmitDialog(c)
  <2>0. PICK c \in Calls : Create(c) \/ SubmitDialog(c)
    BY <1>1
  <2>1. \E kind, backup : Submit(c, kind, backup)
    BY <2>0 DEF Create, SubmitDialog
  <2>. PICK kind, backup : Submit(c, kind, backup)
    BY <2>1
  <2>2. /\ call[c].step = "idle" /\ call \in [Calls -> CallRecords] /\ CallOK(c)
        /\ call' = [call EXCEPT ![c] = [call[c] EXCEPT !.step = "sent", !.kind = kind,
                                                       !.backup = backup]]
        /\ UNCHANGED <<log, logged, files, rows>>
    BY DEF Submit, At, Inv, Server, serverVars, dataVars, auditVars, storeVars
  <2>3. [call[c] EXCEPT !.step = "sent", !.kind = kind, !.backup = backup].step = "sent"
    BY <2>2 DEF CallRecords
  <2>4. ~call[c].changed /\ call'[c].step = "sent" /\ \A b \in Calls \ {c} : call'[b] = call[b]
    BY <2>2, <2>3 DEF CallOK
  <2>. QED
    BY <2>2, <2>4, EntriesUntouched
<1>2. CASE Crash
  <2>1. UNCHANGED <<log, logged, files, rows>> /\ call \in [Calls -> CallRecords]
    BY <1>2 DEF Crash, dataVars, auditVars, storeVars, Inv, Server
  <2>2. ASSUME NEW c \in Calls
        PROVE  \/ call'[c] = call[c]
               \/ /\ call'[c].step \in {"sent", "failed"}
                  /\ call'[c].changed = call[c].changed /\ call'[c].kind = call[c].kind
    <3>1. call'[c] = call[c] \/ call'[c] = [call[c] EXCEPT !.step = "failed"]
      BY <1>2 DEF Crash
    <3>2. call[c] \in CallRecords
      BY <2>1
    <3>. QED
      BY <3>1, <3>2 DEF CallRecords
  <2>. QED
    BY <2>1, <2>2, EntriesUntouched
<1>3. CASE \/ \E c \in Calls : Settle(c) \/ LoseAnswer(c)
           \/ \E which \in {"mount", "created"} : ListStep(which)
           \/ \E mode \in {"validate", "restore"}, b \in Backups : OpenDialog(mode, b)
           \/ CloseDialog \/ Download \/ Remount \/ UNCHANGED vars
  <2>1. UNCHANGED <<serverVars, call>>
    BY <1>3 DEF Settle, Succeed, Catch, LoseAnswer, Rejected, ListStep, ReadList, Refreshed,
       OpenDialog, CloseDialog, Download, Remount, vars
  <2>. QED
    BY <2>1, EntriesUntouched DEF serverVars, dataVars, auditVars, storeVars
<1>4. CASE MakeChange \/ FinishWork \/ Login
  <2>1. UNCHANGED <<auditVars, storeVars, call>>
    BY <1>4 DEF MakeChange, FinishWork, Login
  <2>. QED
    BY <2>1, EntriesUntouched DEF auditVars, storeVars
<1>. QED
  BY <1>1, <1>2, <1>3, <1>4 DEF UserStep

\* However often archives are restored over each other, with failures and
\* restarts between, a change is in the database, in a recorded backup, or raced
\* with a restore; and an audit entry of the service is in one of the two unless
\* it is the one about the safety archive of a restore (service.go:122, 152-178).
THEOREM BackupsKeepEverything == Spec => []NothingLost
<1>1. Init => AuditOK
  <2>. SUFFICES ASSUME Init PROVE AuditOK
    OBVIOUS
  <2>1. logged = {} /\ \A c \in Calls : call[c].step = "idle"
    BY DEF Init
  <2>. QED
    BY <2>1 DEF AuditOK, EntriesSafe
<1>2. Inv /\ AuditOK /\ [Next]_vars => AuditOK'
  BY ServiceEntries, OtherEntries DEF Next
<1>3. Inv /\ AuditOK => NothingLost
  BY DEF Inv, Server, ChangesKept, AuditOK, NothingLost
<1>. QED
  BY <1>1, <1>2, <1>3, BackupsInvariant, PTL DEF Spec

\* The tables change only by what others and the service add, and by a restore
\* that is alone and has its safety archive, all of them at once (service.go:161,
\* snapshot.go:87-107).
THEOREM BackupsReplacedAtOnce == Spec => ReplacedAtOnce
<1>. DEFINE Replaced ==
       \E c \in Calls :
         /\ Kind(c) = "restore" /\ holder = c /\ {c, call[c].backup} \subseteq rows
         /\ LET archive == files[call[c].backup] IN
              data' = archive.data /\ work' = archive.work /\ log' = archive.log
<1>1. Inv /\ [Next]_vars => (~(data \subseteq data' /\ log \subseteq log') => Replaced)
  <2>. SUFFICES ASSUME Inv, [Next]_vars PROVE (data \subseteq data' /\ log \subseteq log') \/ Replaced
    OBVIOUS
  <2>1. ASSUME NEW c \in Calls, ServiceStep(c)
        PROVE  (data \subseteq data' /\ log \subseteq log') \/ Replaced
    <3>1. CASE Apply(c)
      <4>1. CallOK(c) /\ call[c].step = "applying"
        BY <3>1 DEF Apply, At, Inv, Server
      <4>2. call[c].kind = "restore" /\ holder = c /\ c \in rows /\ call[c].backup \in rows
        BY <4>1 DEF CallOK, Exclusive
      <4>. QED
        BY <3>1, <4>2 DEF Apply, Kind
    <3>2. CASE ~Apply(c)
      BY <2>1, <3>2 DEF ServiceStep, Receive, CheckActivity, Lock, Read, Export, RecordRow,
         AuditCreated, AuditRestored, AppendAudit, Fail, TablesKept, serverVars, dataVars,
         auditVars
    <3>. QED
      BY <3>1, <3>2
  <2>2. CASE UserStep
    <3>1. data \subseteq data' /\ log' = log
      BY <2>2 DEF UserStep, Create, SubmitDialog, Submit, OpenDialog, CloseDialog, Download,
         Remount, Login, serverVars, dataVars, auditVars
    <3>. QED
      BY <3>1
  <2>3. CASE \/ \E c \in Calls : Settle(c) \/ LoseAnswer(c)
             \/ \E which \in {"mount", "created"} : ListStep(which)
             \/ MakeChange \/ FinishWork \/ Crash \/ UNCHANGED vars
    <3>1. data \subseteq data' /\ log' = log
      BY <2>3 DEF Settle, Succeed, Catch, LoseAnswer, Rejected, ListStep, ReadList, Refreshed,
         MakeChange, FinishWork, Crash, vars, serverVars, dataVars, auditVars
    <3>. QED
      BY <3>1
  <2>. QED
    BY <2>1, <2>2, <2>3 DEF Next
<1>. QED
  BY <1>1, BackupsInvariant, PTL DEF Spec, ReplacedAtOnce
=============================================================================
