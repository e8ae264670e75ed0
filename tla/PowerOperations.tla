--------------------------- MODULE PowerOperations ---------------------------
(***************************************************************************)
(* Power operations end to end (src/internal/operations): the HTTP handler *)
(* that accepts a request, the operations table, the job that carries the  *)
(* operation to a worker, and the executor that drives the provider.  The  *)
(* job queue and the worker loop are those of JobQueue; the job of         *)
(* operation o is row o.                                                   *)
(*                                                                         *)
(* Every statement on the database and every call of the provider is a     *)
(* step of its own, so requests, the worker, a departing client and a      *)
(* crash interleave as they do in the program.                             *)
(***************************************************************************)
EXTENDS JobQueue, FiniteSets

CONSTANTS
  Servers,
  Clients,        \* concurrent HTTP requests
  Home,           \* the process that serves each client
  Keys,           \* idempotency keys
  Actions,        \* the power actions explored
  RemoteStates,   \* the server states a provider reports
  NoValue,        \* no key, no server, no operation
  VerifyTimeout,  \* ticks of the verification window
  MaxFaults,      \* bound: database statements that fail
  MaxDepartures   \* bound: requests whose client disconnects

ASSUME HomeAssumption == Home \in [Clients -> Processes]
ASSUME ActionsAssumption == Actions \subseteq {"start", "stop", "reboot"}
ASSUME NoValueAssumption == NoValue \notin Servers \cup Keys \cup Jobs
ASSUME PowerBoundAssumption == /\ VerifyTimeout \in Nat
                               /\ MaxFaults \in Nat
                               /\ MaxDepartures \in Nat

VARIABLES
  ops,        \* the operations table
  inv,        \* inventory: the last synchronised view of each server
  issued,     \* provider writes that took effect, per operation (history)
  audit,      \* the audit log, as pairs of operation and event
  req,        \* the HTTP handlers
  ex,         \* the executor running in each process
  faults,     \* database statements failed so far
  departures  \* clients departed so far

tableVars == <<ops, inv, audit>>
boundVars == <<faults, departures>>
powerVars == <<ops, inv, issued, audit, req, ex, faults, departures>>
vars == <<queueVars, powerVars>>

-----------------------------------------------------------------------------

ActiveStatus == {"queued", "running", "verifying"}
Terminal == {"succeeded", "failed", "timed_out", "cancelled"}

\* active is the column active_marker, whose unique index with server_id
\* excludes a second unfinished operation.
Operations ==
  [status: {"absent"} \cup ActiveStatus \cup Terminal, active: BOOLEAN,
   server: Servers \cup {NoValue}, action: Actions \cup {NoValue},
   key: Keys \cup {NoValue}]

NoOperation == [status |-> "absent", active |-> FALSE, server |-> NoValue,
                action |-> NoValue, key |-> NoValue]

\* pc is the statement the handler is about to execute; live says that the
\* request's context is not cancelled.
Requests ==
  [pc: {"idle", "lookup", "check", "create", "enqueue", "unqueue", "audit",
        "unaudit", "replied"},
   key: Keys \cup {NoValue}, server: Servers \cup {NoValue},
   action: Actions \cup {NoValue}, op: Jobs \cup {NoValue}, live: BOOLEAN,
   reply: {"none", "accepted", "existing", "error"}]

NoRequest == [pc |-> "idle", key |-> NoValue, server |-> NoValue,
              action |-> NoValue, op |-> NoValue, live |-> TRUE,
              reply |-> "none"]

\* pc is the call Execute is about to make; status is its local copy of the
\* operation's status, seen the remote state it last read, goal the verdict it
\* is about to write and result what it will return.
Executions ==
  [pc: {"none", "find", "start", "inspect", "act", "mark", "verify", "record",
        "recheck", "conclude", "audit"},
   status: ActiveStatus, goal: {"none"} \cup Terminal, result: Results,
   seen: RemoteStates \cup {NoValue}, deadline: Nat]

NoExecution == [pc |-> "none", status |-> "queued", goal |-> "none",
                result |-> "ok", seen |-> NoValue, deadline |-> 0]

ValidTransition(current, next) ==
  CASE current = "queued" -> next \in {"running", "failed", "cancelled"}
    [] current = "running" ->
         next \in {"verifying", "succeeded", "failed", "timed_out"}
    [] current = "verifying" -> next \in {"succeeded", "failed", "timed_out"}
    [] OTHER -> FALSE

\* Mutant: the marker outlives the operation.
MovedKeepingMarker(op, next) == [op EXCEPT !.status = next]

\* The UPDATE of Transition: the marker is cleared with the last status.
Moved(op, next) == [op EXCEPT !.status = next, !.active = next \notin Terminal]

CanMove(o, next) == ValidTransition(ops[o].status, next)
Transition(o, next) ==
  CanMove(o, next) /\ ops' = [ops EXCEPT ![o] = Moved(@, next)]

StateAllows(state, action) ==
  CASE action = "start" -> state \in {"stopped", "suspended"}
    [] action \in {"stop", "reboot"} -> state = "running"
    [] OTHER -> FALSE

ActionAlreadySatisfied(action, state) ==
  CASE action = "start" -> state = "running"
    [] action = "stop" -> state = "stopped"
    [] OTHER -> FALSE

VerificationTargetReached(action, state) ==
  IF action = "reboot" THEN state = "running"
                       ELSE ActionAlreadySatisfied(action, state)

-----------------------------------------------------------------------------
(* The HTTP handler and Service.Request.                                   *)

Up(c) == proc[Home[c]].pc # "down"

Ask(c, key, server, action) ==
  /\ Up(c) /\ req[c].pc = "idle"
  /\ req' = [req EXCEPT ![c] = [NoRequest EXCEPT !.pc = "lookup", !.key = key,
                                  !.server = server, !.action = action]]
  /\ UNCHANGED <<tableVars, jobs>>

Reply(c, reply, op) ==
  req' = [req EXCEPT ![c].pc = "replied", ![c].reply = reply, ![c].op = op]

\* Mutant: only unfinished operations are looked up by their key.
UnfinishedWithKey(key) == {o \in Jobs : ops[o].key = key /\ ops[o].active}

WithKey(key) == {o \in Jobs : ops[o].key = key}

\* FindByIdempotencyKey: a known key returns its operation, whatever the
\* request asked for.
Lookup(c) ==
  /\ req[c].pc = "lookup" /\ req[c].live
  /\ \/ \E o \in WithKey(req[c].key) : Reply(c, "existing", o)
     \/ /\ WithKey(req[c].key) = {}
        /\ req' = [req EXCEPT ![c].pc = "check"]
  /\ UNCHANGED <<tableVars, jobs>>

\* inventory.FindByID, stateAllows and the capability, whose value is left
\* open.
Check(c) ==
  /\ req[c].pc = "check" /\ req[c].live
  /\ LET view == inv[req[c].server]
     IN  \/ /\ ~view.hidden /\ StateAllows(view.state, req[c].action)
            /\ req' = [req EXCEPT ![c].pc = "create"]
         \/ Reply(c, "error", NoValue)
  /\ UNCHANGED <<tableVars, jobs>>

\* Mutant: the index ignores operations that are still queued.
ServerFreeOfStarted(s) ==
  \A o \in Jobs : ~(ops[o].active /\ ops[o].server = s /\ ops[o].status # "queued")

\* The unique index over server_id and active_marker.
ServerFree(s) == \A o \in Jobs : ~(ops[o].active /\ ops[o].server = s)

\* On MySQL the SELECT that opens the transaction fixes its snapshot, in which
\* the row that made the INSERT fail may be missing; then the key's operation is
\* not found and the request ends in an error.
CreateQueued(c) ==
  /\ req[c].pc = "create" /\ req[c].live
  /\ \/ /\ \E o \in WithKey(req[c].key) : Reply(c, "existing", o)
        /\ UNCHANGED ops
     \/ /\ WithKey(req[c].key) # {} \/ ~ServerFree(req[c].server)
        /\ Reply(c, "error", NoValue)
        /\ UNCHANGED ops
     \/ /\ WithKey(req[c].key) = {} /\ ServerFree(req[c].server)
        /\ \E o \in Jobs :
             /\ ops[o].status = "absent"
             /\ ops' = [ops EXCEPT ![o] =
                          [status |-> "queued", active |-> TRUE,
                           server |-> req[c].server, action |-> req[c].action,
                           key |-> req[c].key]]
             /\ req' = [req EXCEPT ![c].pc = "enqueue", ![c].op = o]
  /\ UNCHANGED <<inv, audit, jobs>>

EnqueueJob(c) ==
  /\ req[c].pc = "enqueue" /\ req[c].live
  /\ Enqueue(req[c].op)
  /\ req' = [req EXCEPT ![c].pc = "audit"]
  /\ UNCHANGED tableVars

AppendQueued(c) ==
  /\ req[c].pc = "audit" /\ req[c].live
  /\ audit' = audit \cup {<<req[c].op, "queued">>}
  /\ Reply(c, "accepted", req[c].op)
  /\ UNCHANGED <<ops, inv, jobs>>

\* queue_failed and audit_failed: Request marks the operation failed under the
\* same context and ignores whether it could.
Compensate(c) ==
  /\ req[c].pc \in {"unqueue", "unaudit"} /\ req[c].live
  /\ \/ Transition(req[c].op, "failed")
     \/ ~CanMove(req[c].op, "failed") /\ UNCHANGED ops
  /\ Reply(c, "error", NoValue)
  /\ UNCHANGED <<inv, audit, jobs>>

\* Mutant: an enqueue that failed goes unnoticed.
AfterErrorIgnored == [lookup |-> "replied", check |-> "replied", create |-> "replied",
                      enqueue |-> "audit", unqueue |-> "replied",
                      audit |-> "unaudit", unaudit |-> "replied"]

AfterError == [lookup |-> "replied", check |-> "replied", create |-> "replied",
               enqueue |-> "unqueue", unqueue |-> "replied",
               audit |-> "unaudit", unaudit |-> "replied"]

\* The statement returns an error and Request takes its error path.
StatementError(c) ==
  /\ req[c].pc \in DOMAIN AfterError
  /\ LET next == AfterError[req[c].pc]
     IN  IF next = "replied" THEN Reply(c, "error", NoValue)
                             ELSE req' = [req EXCEPT ![c].pc = next]
  /\ UNCHANGED <<tableVars, jobs>>

Finished(c) ==
  /\ req[c].pc = "replied"
  /\ req' = [req EXCEPT ![c] = NoRequest]
  /\ UNCHANGED <<tableVars, jobs>>

HandlerStep(c) ==
  \/ Lookup(c) \/ Check(c) \/ CreateQueued(c) \/ EnqueueJob(c)
  \/ AppendQueued(c) \/ Compensate(c)
  \/ ~req[c].live /\ StatementError(c)

\* The connection closes and net/http cancels the request's context.
Depart(c) ==
  /\ req[c].pc \notin {"idle", "replied"} /\ req[c].live
  /\ departures < MaxDepartures
  /\ departures' = departures + 1
  /\ req' = [req EXCEPT ![c].live = FALSE]
  /\ UNCHANGED <<tableVars, jobs, faults>>

RequestFault(c) ==
  /\ req[c].live /\ faults < MaxFaults
  /\ faults' = faults + 1
  /\ StatementError(c)
  /\ UNCHANGED departures

-----------------------------------------------------------------------------
(* Executor.Execute, inside the worker's handler.                          *)

Op(p) == ops[proc[p].job]

Returns(p, result) ==
  /\ HandlerReturns(p, result)
  /\ ex' = [ex EXCEPT ![p] = NoExecution]

GoTo(p, execution) ==
  /\ ex' = [ex EXCEPT ![p] = execution]
  /\ UNCHANGED proc

Begin == [NoExecution EXCEPT !.pc = "find"]

\* Mutant: the last attempt still counts on another one.
FinishErrorOffByOne(p, result) ==
  IF result = "retryable" /\ proc[p].attempt <= MaxAttempts
  THEN Returns(p, result)
  ELSE GoTo(p, [ex[p] EXCEPT !.pc = "recheck", !.result = result])

\* finishError: a retryable error with attempts left goes back to the queue and
\* leaves the operation as it is; any other one is written down as a failure.
FinishError(p, result) ==
  IF result = "retryable" /\ proc[p].attempt < MaxAttempts
  THEN Returns(p, result)
  ELSE GoTo(p, [ex[p] EXCEPT !.pc = "recheck", !.result = result])

ProviderErrors == {"retryable", "permanent"}

\* Mutant: a finished operation is executed again.
FindOperationAgain(p) ==
  /\ ex[p].pc = "find"
  /\ \/ Op(p).status = "queued" /\ GoTo(p, [ex[p] EXCEPT !.pc = "start"])
     \/ /\ Op(p).status # "queued"
        /\ GoTo(p, [ex[p] EXCEPT !.pc = "inspect", !.status = "running"])
  /\ UNCHANGED <<tableVars, issued>>

FindOperation(p) ==
  /\ ex[p].pc = "find"
  /\ \/ Op(p).status \in Terminal /\ Returns(p, "ok")
     \/ Op(p).status = "queued" /\ GoTo(p, [ex[p] EXCEPT !.pc = "start"])
     \/ /\ Op(p).status \in {"running", "verifying"}
        /\ GoTo(p, [ex[p] EXCEPT !.pc = "inspect", !.status = Op(p).status])
  /\ UNCHANGED <<tableVars, issued>>

StartOperation(p) ==
  /\ ex[p].pc = "start"
  /\ \/ /\ Transition(proc[p].job, "running")
        /\ GoTo(p, [ex[p] EXCEPT !.pc = "inspect", !.status = "running"])
     \/ ~CanMove(proc[p].job, "running") /\ Returns(p, "permanent") /\ UNCHANGED ops
  /\ UNCHANGED <<inv, audit, issued>>

\* What GetServer reports is the provider's business: any state, at any call.
AfterInspection(p, state) ==
  IF ActionAlreadySatisfied(Op(p).action, state)
  THEN [ex[p] EXCEPT !.pc = "record", !.seen = state]
  ELSE IF ex[p].status = "verifying"
  THEN [ex[p] EXCEPT !.pc = "verify", !.deadline = now + VerifyTimeout]
  ELSE [ex[p] EXCEPT !.pc = "act"]

\* inventory.FindByID, the connection, ValidateConnection and GetServer.
Inspect(p) ==
  /\ ex[p].pc = "inspect"
  /\ LET hidden == inv[Op(p).server].hidden
     IN  \/ hidden /\ FinishError(p, "permanent")
         \/ ~hidden /\ \E result \in ProviderErrors : FinishError(p, result)
         \/ /\ ~hidden
            /\ \E state \in RemoteStates : GoTo(p, AfterInspection(p, state))
  /\ UNCHANGED <<tableVars, issued>>

\* A write that the provider carries out.
ProviderWrites(p) == issued' = [issued EXCEPT ![proc[p].job] = @ + 1]

\* Mutant: a call whose answer was lost is repeated at once.
ActRepeated(p) ==
  /\ ex[p].pc = "act"
  /\ \/ ProviderWrites(p) /\ GoTo(p, [ex[p] EXCEPT !.pc = "mark"])
     \/ ProviderWrites(p) /\ UNCHANGED <<ex, proc>>
     \/ /\ \E result \in ProviderErrors : FinishError(p, result)
        /\ UNCHANGED issued
  /\ UNCHANGED tableVars

\* StartServer, StopServer or RebootServer.  An error is returned for a refused
\* write, or because the answer to a write that took effect was lost.
Act(p) ==
  /\ ex[p].pc = "act"
  /\ \/ ProviderWrites(p) /\ GoTo(p, [ex[p] EXCEPT !.pc = "mark"])
     \/ ProviderWrites(p) /\ FinishError(p, "retryable")
     \/ /\ \E result \in ProviderErrors : FinishError(p, result)
        /\ UNCHANGED issued
  /\ UNCHANGED tableVars

MarkVerifying(p) ==
  /\ ex[p].pc = "mark"
  /\ \/ /\ Transition(proc[p].job, "verifying")
        /\ GoTo(p, [ex[p] EXCEPT !.pc = "verify", !.status = "verifying",
                                 !.deadline = now + VerifyTimeout])
     \/ ~CanMove(proc[p].job, "verifying") /\ Returns(p, "permanent") /\ UNCHANGED ops
  /\ UNCHANGED <<inv, audit, issued>>

\* One round of the polling loop that ends it; a round that neither sees the
\* target nor is past the deadline changes nothing.
Poll(p) ==
  /\ ex[p].pc = "verify"
  /\ \/ \E result \in ProviderErrors : FinishError(p, result)
     \/ \E state \in RemoteStates :
          /\ VerificationTargetReached(Op(p).action, state)
          /\ GoTo(p, [ex[p] EXCEPT !.pc = "record", !.seen = state])
  /\ UNCHANGED <<tableVars, issued>>

\* Mutant: the deadline is computed anew in every round.
TimeOutRestarted(p) ==
  /\ ex[p].pc = "verify" /\ now > now + VerifyTimeout
  /\ GoTo(p, [ex[p] EXCEPT !.pc = "conclude", !.goal = "timed_out"])
  /\ UNCHANGED <<tableVars, issued>>

TimeOut(p) ==
  /\ ex[p].pc = "verify" /\ now > ex[p].deadline
  /\ GoTo(p, [ex[p] EXCEPT !.pc = "conclude", !.goal = "timed_out"])
  /\ UNCHANGED <<tableVars, issued>>

\* Mutant: the inventory is left for the next synchronisation.
RecordNothing(p) ==
  /\ ex[p].pc = "record"
  /\ GoTo(p, [ex[p] EXCEPT !.pc = "conclude", !.goal = "succeeded"])
  /\ UNCHANGED <<tableVars, issued>>

\* succeed: UpdateRemote, before the operation itself is marked.
Record(p) ==
  /\ ex[p].pc = "record"
  /\ \/ /\ ~inv[Op(p).server].hidden
        /\ inv' = [inv EXCEPT ![Op(p).server].state = ex[p].seen]
        /\ GoTo(p, [ex[p] EXCEPT !.pc = "conclude", !.goal = "succeeded"])
     \/ inv[Op(p).server].hidden /\ Returns(p, "permanent") /\ UNCHANGED inv
  /\ UNCHANGED <<ops, audit, issued>>

Recheck(p) ==
  /\ ex[p].pc = "recheck"
  /\ \/ Op(p).status \in Terminal /\ Returns(p, ex[p].result)
     \/ /\ Op(p).status \notin Terminal
        /\ GoTo(p, [ex[p] EXCEPT !.pc = "conclude", !.goal = "failed"])
  /\ UNCHANGED <<tableVars, issued>>

\* errors.Join keeps the original error's retryability.
ErrorOf(p) ==
  IF ex[p].pc = "recheck" \/ ex[p].goal = "failed" THEN ex[p].result
                                                   ELSE "permanent"

Conclude(p) ==
  /\ ex[p].pc = "conclude"
  /\ \/ /\ Transition(proc[p].job, ex[p].goal)
        /\ GoTo(p, [ex[p] EXCEPT !.pc = "audit"])
     \/ ~CanMove(proc[p].job, ex[p].goal) /\ Returns(p, ErrorOf(p)) /\ UNCHANGED ops
  /\ UNCHANGED <<inv, audit, issued>>

AppendOutcome(p) ==
  /\ ex[p].pc = "audit"
  /\ audit' = audit \cup {<<proc[p].job, ex[p].goal>>}
  /\ Returns(p, IF ex[p].goal = "failed" THEN ex[p].result ELSE "ok")
  /\ UNCHANGED <<ops, inv, issued>>

\* The steps that end by themselves, unlike a poll whose answer may stay the
\* same.
PromptStep(p) ==
  \/ FindOperation(p) \/ StartOperation(p) \/ Inspect(p) \/ Act(p)
  \/ MarkVerifying(p) \/ TimeOut(p) \/ Record(p) \/ Recheck(p)
  \/ Conclude(p) \/ AppendOutcome(p)

\* A database statement of Execute fails: only the inventory lookup takes the
\* path through finishError, every other error is returned as it is.
ExecutorFault(p) ==
  /\ faults < MaxFaults
  /\ faults' = faults + 1
  /\ \/ ex[p].pc = "inspect" /\ FinishError(p, "permanent")
     \/ /\ ex[p].pc \in {"find", "start", "mark", "record", "recheck",
                         "conclude", "audit"}
        /\ Returns(p, ErrorOf(p))
  /\ UNCHANGED <<tableVars, issued>>

-----------------------------------------------------------------------------
(* The worker loop of JobQueue, with Execute as its handler.               *)

PollOrSettle(p) ==
  /\ \/ StartPoll(p) /\ UNCHANGED jobs
     \/ LeaseNothing(p)
     \/ Complete(p) \/ Fail(p) \/ Retry(p)
     \/ Restart(p)
  /\ UNCHANGED <<ex, req>>

TakeOperation(p) ==
  /\ \E o \in Jobs : LeaseJob(p, o)
  /\ ex' = [ex EXCEPT ![p] = Begin]
  /\ UNCHANGED req

\* What a process loses when it goes down: the handler that was running and
\* the requests it was serving.
Volatile(p) ==
  /\ ex' = [ex EXCEPT ![p] = NoExecution]
  /\ req' = [c \in Clients |-> IF Home[c] = p THEN NoRequest ELSE req[c]]

PowerLeaseLost(p) == LeaseLost(p) /\ Volatile(p)

PowerCrash(p) ==
  /\ Crash(p) /\ Volatile(p)
  /\ UNCHANGED <<tableVars, issued, boundVars, now>>

(***************************************************************************)
(* A synchronisation, which the same worker runs as a job of its own,      *)
(* writes what the provider reports into the inventory or hides a server   *)
(* that is no longer listed.                                               *)
(***************************************************************************)
SyncInventory(p, s) ==
  /\ proc[p].pc = "idle"
  /\ \/ \E state \in RemoteStates :
          inv' = [inv EXCEPT ![s] = [state |-> state, hidden |-> FALSE]]
     \/ inv' = [inv EXCEPT ![s].hidden = TRUE]
  /\ UNCHANGED <<queueVars, ops, audit, issued, req, ex, boundVars>>

\* The clock runs on while a deadline of the queue or of a verification lies
\* ahead.
PowerTick ==
  /\ \/ DeadlineAhead \/ now < Horizon
     \/ \E p \in Processes : ex[p].pc = "verify" /\ now <= ex[p].deadline
  /\ PassTime
  /\ UNCHANGED powerVars

-----------------------------------------------------------------------------

Init ==
  /\ QueueInit
  /\ ops = [o \in Jobs |-> NoOperation]
  /\ inv \in [Servers -> [state: RemoteStates, hidden: {FALSE}]]
  /\ issued = [o \in Jobs |-> 0]
  /\ audit = {}
  /\ req = [c \in Clients |-> NoRequest]
  /\ ex = [p \in Processes |-> NoExecution]
  /\ faults = 0
  /\ departures = 0

RequestAction(c) ==
  /\ \/ \E key \in Keys, s \in Servers, action \in Actions : Ask(c, key, s, action)
     \/ HandlerStep(c)
     \/ Finished(c)
  /\ UNCHANGED <<proc, now, crashes, issued, ex, boundVars>>

RequestTrouble(c) ==
  /\ Depart(c) \/ RequestFault(c)
  /\ UNCHANGED <<proc, now, crashes, issued, ex>>

WorkerAction(p) ==
  /\ PollOrSettle(p) \/ TakeOperation(p) \/ PowerLeaseLost(p)
  /\ UNCHANGED <<now, crashes, tableVars, issued, boundVars>>

PromptAction(p) ==
  PromptStep(p) /\ UNCHANGED <<jobs, now, crashes, req, boundVars>>

PollAction(p) == Poll(p) /\ UNCHANGED <<jobs, now, crashes, req, boundVars>>

ExecutorTrouble(p) ==
  /\ ExecutorFault(p)
  /\ UNCHANGED <<jobs, now, crashes, req, departures>>

PowerNext ==
  \/ \E c \in Clients : RequestAction(c) \/ RequestTrouble(c)
  \/ \E p \in Processes :
       \/ WorkerAction(p) \/ PromptAction(p) \/ PollAction(p)
       \/ ExecutorTrouble(p)
       \/ PowerCrash(p)
       \/ \E s \in Servers : SyncInventory(p, s)
  \/ PowerTick

PowerSpec == Init /\ [][PowerNext]_vars

HandlerAction(c) ==
  HandlerStep(c) /\ UNCHANGED <<proc, now, crashes, issued, ex, boundVars>>

\* A request is served to its end, the worker and the executor keep going, a
\* stopped process is restarted and time passes.  Nothing is assumed of the
\* polls: the provider need never report the target state.
PowerFairSpec ==
  /\ PowerSpec
  /\ \A c \in Clients : WF_vars(HandlerAction(c))
  /\ \A p \in Processes : WF_vars(WorkerAction(p)) /\ WF_vars(PromptAction(p))
  /\ WF_vars(PowerTick)

-----------------------------------------------------------------------------

(***************************************************************************)
(* Every row, request and execution is well formed; an operation holds its *)
(* server's marker exactly until Transition writes a final status; and an  *)
(* executor runs exactly while its worker is inside the handler.           *)
(***************************************************************************)
PowerTypeOK ==
  /\ TypeOK
  /\ ops \in [Jobs -> Operations]
  /\ \A o \in Jobs : ops[o].active <=> ops[o].status \in ActiveStatus
  /\ inv \in [Servers -> [state: RemoteStates, hidden: BOOLEAN]]
  /\ issued \in [Jobs -> Nat]
  /\ audit \subseteq Jobs \X ({"queued"} \cup Terminal)
  /\ req \in [Clients -> Requests]
  /\ ex \in [Processes -> Executions]
  /\ \A p \in Processes : proc[p].pc = "handling" <=> ex[p].pc # "none"
  /\ faults \in Nat /\ departures \in Nat

(***************************************************************************)
(* The implementation relation: operations obey the abstract lifecycle,    *)
(* one unfinished operation per server included, and what is written into  *)
(* the audit log is true of them, whichever of requests, workers,          *)
(* compensations and crashes come between two statements.                  *)
(***************************************************************************)
Lifecycle == INSTANCE OperationLifecycle
               WITH Ops <- Jobs, NoServer <- NoValue,
                    status <- [o \in Jobs |-> ops[o].status],
                    server <- [o \in Jobs |-> ops[o].server], log <- audit

ImplementsLifecycle == Lifecycle!Spec

(***************************************************************************)
(* An idempotency key belongs to one operation, although two requests with *)
(* the same key may both miss it in FindByIdempotencyKey.                  *)
(***************************************************************************)
KeysIdentifyOperations ==
  \A o1, o2 \in Jobs :
    ops[o1].key = ops[o2].key /\ ops[o1].key # NoValue => o1 = o2

(***************************************************************************)
(* A client that is told 202 Accepted has its operation in the job table   *)
(* and in the audit log, whatever failed or crashed meanwhile.             *)
(***************************************************************************)
AcceptedIsQueued ==
  \A c \in Clients :
    req[c].reply = "accepted" =>
      /\ jobs[req[c].op].status # "absent"
      /\ <<req[c].op, "queued">> \in audit

(***************************************************************************)
(* "succeeded: the target state is confirmed and the local index updated"  *)
(* (docs/operations.md:34): at the moment an operation is marked succeeded *)
(* the inventory shows the server in the state the action aims at.         *)
(***************************************************************************)
SuccessIsRecorded ==
  [][\A o \in Jobs :
       ops'[o].status = "succeeded" /\ ops[o].status # "succeeded" =>
         VerificationTargetReached(ops[o].action, inv[ops[o].server].state)]_vars

(***************************************************************************)
(* An operation is stranded when its job is finished and it is not: its    *)
(* server's marker stays and no worker comes back.  An error path of       *)
(* Execute strands one when a database statement fails: the error goes to  *)
(* RunOnce as it is, which fails the job (executor.go:75, 83, 115, 133,    *)
(* 199, 204), and finishError's own two statements may fail as well.  In   *)
(* the deployed application nothing else does: no error of the provider,   *)
(* no exhausted attempt, no compensation and no crash.                     *)
(***************************************************************************)
Stranded == {o \in Jobs : ops[o].active /\ jobs[o].status \in TerminalJob}

StrandedOnlyByFaults == Cardinality(Stranded) <= faults

(***************************************************************************)
(* The provider is written to on behalf of an unfinished operation, so     *)
(* that the server marker also excludes two operations writing to a server *)
(* (docs/operations.md:35), or of one whose request took it back while the *)
(* worker was at it: Request failed to write the audit entry and marked    *)
(* the operation failed (service.go:121).  In particular a retry, a second *)
(* lease or a restart never repeats the write of a finished operation.     *)
(***************************************************************************)
WritesOnlyWhileActive ==
  [][\A o \in Jobs : issued'[o] # issued[o] =>
       \/ ops[o].active
       \/ ops[o].status = "failed" /\ <<o, "queued">> \notin audit]_vars

(***************************************************************************)
(* However its workers, crashes and lost answers interleave, an operation  *)
(* is written to the provider at most once for every claim of its job.     *)
(***************************************************************************)
WritesOncePerAttempt == \A o \in Jobs : issued[o] <= jobs[o].attempts

(***************************************************************************)
(* Every operation with a job reaches a final status: retries, exhausted   *)
(* attempts, verification deadlines and crashes included; failing          *)
(* statements of the executor are not (executor.go:83 and its like).       *)
(***************************************************************************)
EnqueuedOperationFinishes ==
  \A o \in Jobs : (jobs[o].status # "absent") ~> (ops[o].status \in Terminal)

(***************************************************************************)
(* "queued: persisted, waiting for a worker to take it"                    *)
(* (docs/operations.md:31): once its request is over, an operation that is *)
(* still queued has a job a worker can take.                               *)
(***************************************************************************)
QueuedAwaitsWorker ==
  \A o \in Jobs :
    /\ ops[o].status = "queued"
    /\ \A c \in Clients : req[c].op = o => req[c].pc \in {"idle", "replied"}
    => jobs[o].status \in {"queued", "running"}
=============================================================================
