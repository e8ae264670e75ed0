----------------------- MODULE PowerOperationsProofs -----------------------
(***************************************************************************)
(* Proofs about PowerOperations, for any number of operations, servers,    *)
(* clients, keys and processes and for any value of the bounds.  Requests, *)
(* workers and compensations only meet in the tables, so the argument goes *)
(* variable by variable: for each one, a lemma says what any step of the   *)
(* system may do to it, and the invariants follow from those.              *)
(***************************************************************************)
EXTENDS PowerOperations, JobQueueProofs, FiniteSetTheorems

(***************************************************************************)
(* The inductive invariant, in parts.  A request that is past CreateQueued *)
(* has an operation; an execution carries a verdict before it writes one;  *)
(* and nothing is in the job table without being in the operations table.  *)
(***************************************************************************)
RequestOK(r) ==
  /\ r \in Requests
  /\ r.pc \in {"lookup", "check", "create"} =>
       r.server \in Servers /\ r.action \in Actions /\ r.key \in Keys
  /\ r.pc \in {"enqueue", "unqueue", "audit", "unaudit"} => r.op \in Jobs

ReqInv == /\ req \in [Clients -> Requests]
          /\ \A c \in Clients : RequestOK(req[c])

ExecutionOK(e) ==
  /\ e \in Executions
  /\ e.pc \in {"conclude", "audit"} => e.goal \in Terminal
  /\ e.pc = "record" => e.seen \in RemoteStates

ExInv == /\ ex \in [Processes -> Executions]
         /\ \A p \in Processes :
              /\ ExecutionOK(ex[p])
              /\ ex[p].pc # "none" <=> proc[p].pc = "handling"

OpsInv ==
  /\ ops \in [Jobs -> Operations]
  /\ \A o \in Jobs :
       /\ ops[o].active <=> ops[o].status \in ActiveStatus
       /\ ops[o].status = "absent" <=> ops[o].server = NoValue
       /\ ops[o].status = "absent" <=> ops[o].key = NoValue

-----------------------------------------------------------------------------

\* A call of Execute that ends hands its result to the worker; one that goes on
\* leaves the worker where it is.
LEMMA ResultsReturned ==
  ASSUME ExInv, NEW p \in Processes,
         PromptAction(p) \/ PollAction(p) \/ ExecutorTrouble(p)
  PROVE  /\ UNCHANGED <<jobs, now, crashes, req>>
         /\ \/ UNCHANGED proc
            \/ \E result \in Results : HandlerReturns(p, result)
<1>1. UNCHANGED <<jobs, now, crashes, req>>
  BY DEF PromptAction, PollAction, ExecutorTrouble
<1>2. ex[p].result \in Results /\ ErrorOf(p) \in Results
  BY DEF ExInv, Executions, ErrorOf, Results
<1>3. \A result \in Results : FinishError(p, result) =>
        UNCHANGED proc \/ HandlerReturns(p, result)
  BY DEF FinishError, Returns, GoTo
<1>4. ProviderErrors \subseteq Results /\ "ok" \in Results /\ "permanent" \in Results
      /\ "retryable" \in Results
  BY DEF ProviderErrors, Results
<1>5. CASE PollAction(p)
  BY <1>3, <1>4, <1>1, <1>5 DEF PollAction, Poll, GoTo
<1>6. CASE ExecutorTrouble(p)
  BY <1>1, <1>2, <1>3, <1>4, <1>6 DEF ExecutorTrouble, ExecutorFault, Returns
<1>7. CASE PromptAction(p)
  <2>1. CASE FindOperation(p) \/ StartOperation(p) \/ MarkVerifying(p) \/ TimeOut(p) \/ Record(p)
    BY <1>1, <1>4, <2>1 DEF FindOperation, StartOperation, MarkVerifying, TimeOut, Record,
                       Returns, GoTo
  <2>2. CASE Inspect(p)
    BY <1>1, <1>3, <1>4, <2>2 DEF Inspect, GoTo
  <2>3. CASE Act(p)
    BY <1>1, <1>3, <1>4, <2>3 DEF Act, GoTo
  <2>4. CASE Recheck(p) \/ Conclude(p)
    BY <1>1, <1>2, <2>4 DEF Recheck, Conclude, Returns, GoTo
  <2>5. CASE AppendOutcome(p)
    BY <1>1, <1>2, <1>4, <2>5 DEF AppendOutcome, Returns
  <2>. QED
    BY <1>7, <2>1, <2>2, <2>3, <2>4, <2>5 DEF PromptAction, PromptStep
<1>. QED
  BY <1>5, <1>6, <1>7

\* A request touches the job table only to enqueue its own operation.
LEMMA RequestsEnqueue ==
  ASSUME ReqInv, NEW c \in Clients, RequestAction(c) \/ RequestTrouble(c)
  PROVE  /\ UNCHANGED <<proc, now, crashes>>
         /\ \/ UNCHANGED jobs
            \/ Enqueue(req[c].op) /\ req[c].op \in Jobs
<1>1. UNCHANGED <<proc, now, crashes>>
  BY DEF RequestAction, RequestTrouble
<1>2. CASE EnqueueJob(c)
  BY <1>1, <1>2 DEF EnqueueJob, ReqInv, RequestOK
<1>3. StatementError(c) => UNCHANGED jobs
  BY DEF StatementError
<1>4. HandlerStep(c) => UNCHANGED jobs \/ EnqueueJob(c)
  BY <1>3 DEF HandlerStep, Lookup, Check, CreateQueued, AppendQueued, Compensate
<1>5. \A key \in Keys, s \in Servers, action \in Actions :
        Ask(c, key, s, action) => UNCHANGED jobs
  BY DEF Ask
<1>6. RequestAction(c) => UNCHANGED jobs \/ EnqueueJob(c)
  BY <1>4, <1>5 DEF RequestAction, Finished
<1>7. RequestTrouble(c) => UNCHANGED jobs
  BY <1>3 DEF RequestTrouble, Depart, RequestFault
<1>. QED
  BY <1>1, <1>2, <1>6, <1>7

(***************************************************************************)
(* Every step of the whole system is a step of the job queue or leaves it  *)
(* alone: the executor only ever returns one of the three kinds of result. *)
(***************************************************************************)
LEMMA QueueStep ==
  ASSUME ReqInv, ExInv, [PowerNext]_vars
  PROVE  [OpenNext]_queueVars
<1>. USE DEF OpenNext, Step
<1>1. CASE UNCHANGED vars
  BY <1>1 DEF vars
<1>2. ASSUME NEW c \in Clients, RequestAction(c) \/ RequestTrouble(c)
      PROVE  [OpenNext]_queueVars
  BY <1>2, RequestsEnqueue DEF queueVars
<1>3. ASSUME NEW p \in Processes, WorkerAction(p)
      PROVE  [OpenNext]_queueVars
  <2>1. UNCHANGED <<now, crashes>>
    BY <1>3 DEF WorkerAction
  <2>2. WorkerStep(p)
    BY <1>3 DEF WorkerAction, PollOrSettle, TakeOperation, PowerLeaseLost, WorkerStep,
                Lease, Settle
  <2>. QED
    BY <2>1, <2>2
<1>4. ASSUME NEW p \in Processes, PromptAction(p) \/ PollAction(p) \/ ExecutorTrouble(p)
      PROVE  [OpenNext]_queueVars
  BY <1>4, ResultsReturned DEF Return, queueVars
<1>5. ASSUME NEW p \in Processes, PowerCrash(p)
      PROVE  [OpenNext]_queueVars
  BY <1>5 DEF PowerCrash
<1>6. ASSUME NEW p \in Processes, NEW s \in Servers, SyncInventory(p, s)
      PROVE  [OpenNext]_queueVars
  BY <1>6 DEF SyncInventory
<1>7. CASE PowerTick
  BY <1>7 DEF PowerTick
<1>. QED
  BY <1>1, <1>2, <1>3, <1>4, <1>5, <1>6, <1>7 DEF PowerNext

-----------------------------------------------------------------------------
(* Requests and executions.                                                *)

\* Writing a well-formed request keeps the invariant of the requests.
LEMMA ReqReplaced ==
  ASSUME ReqInv, NEW c \in Clients, NEW r, RequestOK(r), req' = [req EXCEPT ![c] = r]
  PROVE  ReqInv'
BY DEF ReqInv, RequestOK

\* Answering a request keeps it.
LEMMA ReqReplied ==
  ASSUME ReqInv, NEW c \in Clients, NEW reply \in {"accepted", "existing", "error"},
         NEW op \in Jobs \cup {NoValue}, Reply(c, reply, op)
  PROVE  ReqInv'
<1> DEFINE r == [req[c] EXCEPT !.pc = "replied", !.reply = reply, !.op = op]
<1>1. req[c] \in Requests
  BY DEF ReqInv
<1>2. RequestOK(r)
  BY <1>1 DEF RequestOK, Requests
<1>3. req' = [req EXCEPT ![c] = r]
  BY DEF Reply
<1>. HIDE DEF r
<1>. QED
  BY <1>2, <1>3, ReqReplaced

\* So does moving a request to its next statement.
LEMMA ReqMoved ==
  ASSUME ReqInv, NEW c \in Clients, NEW pc, req' = [req EXCEPT ![c].pc = pc],
         \/ req[c].pc = "lookup" /\ pc = "check"
         \/ req[c].pc = "check" /\ pc = "create"
         \/ req[c].pc = "enqueue" /\ pc \in {"unqueue", "audit"}
         \/ req[c].pc = "audit" /\ pc = "unaudit"
  PROVE  ReqInv'
<1> DEFINE r == [req[c] EXCEPT !.pc = pc]
<1>1. RequestOK(req[c])
  BY DEF ReqInv
<1>2. RequestOK(r)
  BY <1>1 DEF RequestOK, Requests
<1>3. req' = [req EXCEPT ![c] = r]
  OBVIOUS
<1>. HIDE DEF r
<1>. QED
  BY <1>2, <1>3, ReqReplaced

\* A connection without a request is well formed.
LEMMA NoRequestOK == RequestOK(NoRequest)
BY DEF RequestOK, Requests, NoRequest

\* A statement that fails answers the request or starts its compensation.
LEMMA ReqErrors ==
  ASSUME ReqInv, NEW c \in Clients, StatementError(c)
  PROVE  ReqInv'
<1>1. \/ Reply(c, "error", NoValue)
      \/ req[c].pc = "enqueue" /\ req' = [req EXCEPT ![c].pc = "unqueue"]
      \/ req[c].pc = "audit" /\ req' = [req EXCEPT ![c].pc = "unaudit"]
  BY DEF StatementError, AfterError
<1>. QED
  BY <1>1, ReqReplied, ReqMoved

\* The invariant of the requests is inductive.
LEMMA ReqInvNext == ReqInv /\ [PowerNext]_vars => ReqInv'
<1>. SUFFICES ASSUME ReqInv, [PowerNext]_vars PROVE ReqInv'
  OBVIOUS
<1>1. CASE UNCHANGED req
  BY <1>1 DEF ReqInv
<1>2. ASSUME NEW c \in Clients, NEW key \in Keys, NEW s \in Servers,
             NEW action \in Actions, Ask(c, key, s, action)
      PROVE  ReqInv'
  <2> DEFINE r == [NoRequest EXCEPT !.pc = "lookup", !.key = key, !.server = s,
                                    !.action = action]
  <2>1. NoRequest \in Requests
    BY NoRequestOK DEF RequestOK
  <2>2. RequestOK(r)
    BY <2>1 DEF RequestOK, Requests
  <2>3. req' = [req EXCEPT ![c] = r]
    BY <1>2 DEF Ask
  <2>. HIDE DEF r
  <2>. QED
    BY <2>2, <2>3, ReqReplaced
<1>3. ASSUME NEW c \in Clients, Lookup(c) \/ Check(c) \/ EnqueueJob(c)
      PROVE  ReqInv'
  BY <1>3, ReqReplied, ReqMoved DEF Lookup, Check, EnqueueJob, WithKey
<1>4. ASSUME NEW c \in Clients, CreateQueued(c)
      PROVE  ReqInv'
  <2>1. ASSUME NEW o \in Jobs, req[c].pc = "create",
               req' = [req EXCEPT ![c].pc = "enqueue", ![c].op = o]
        PROVE  ReqInv'
    <3> DEFINE r == [req[c] EXCEPT !.pc = "enqueue", !.op = o]
    <3>1. RequestOK(req[c])
      BY DEF ReqInv
    <3>2. RequestOK(r)
      BY <3>1 DEF RequestOK, Requests
    <3>3. req' = [req EXCEPT ![c] = r]
      BY <2>1
    <3>. HIDE DEF r
    <3>. QED
      BY <3>2, <3>3, ReqReplaced
  <2>. WithKey(req[c].key) \subseteq Jobs
    BY DEF WithKey
  <2>2. \/ \E o \in Jobs : Reply(c, "existing", o)
        \/ Reply(c, "error", NoValue)
        \/ \E o \in Jobs : req' = [req EXCEPT ![c].pc = "enqueue", ![c].op = o]
    BY <1>4, Zenon DEF CreateQueued
  <2>3. req[c].pc = "create"
    BY <1>4 DEF CreateQueued
  <2>. QED
    BY <2>1, <2>2, <2>3, ReqReplied
<1>5. ASSUME NEW c \in Clients, AppendQueued(c) \/ Compensate(c)
      PROVE  ReqInv'
  BY <1>5, ReqReplied DEF AppendQueued, Compensate, ReqInv, RequestOK
<1>6. ASSUME NEW c \in Clients, Finished(c)
      PROVE  ReqInv'
  BY <1>6, NoRequestOK, ReqReplaced DEF Finished
<1>7. ASSUME NEW c \in Clients, Depart(c)
      PROVE  ReqInv'
  <2> DEFINE r == [req[c] EXCEPT !.live = FALSE]
  <2>1. RequestOK(req[c])
    BY DEF ReqInv
  <2>2. RequestOK(r)
    BY <2>1 DEF RequestOK, Requests
  <2>3. req' = [req EXCEPT ![c] = r]
    BY <1>7 DEF Depart
  <2>. HIDE DEF r
  <2>. QED
    BY <2>2, <2>3, ReqReplaced
<1>8. ASSUME NEW p \in Processes, Volatile(p)
      PROVE  ReqInv'
  BY <1>8, NoRequestOK DEF Volatile, ReqInv, RequestOK
<1>9. ASSUME NEW c \in Clients, RequestAction(c) \/ RequestTrouble(c)
      PROVE  ReqInv'
  BY <1>2, <1>3, <1>4, <1>5, <1>6, <1>7, <1>9, ReqErrors
  DEF RequestAction, RequestTrouble, HandlerStep, RequestFault
<1>10. ASSUME NEW p \in Processes, WorkerAction(p) \/ PowerCrash(p)
       PROVE  ReqInv'
  BY <1>1, <1>8, <1>10 DEF WorkerAction, PollOrSettle, TakeOperation, PowerLeaseLost, PowerCrash
<1>11. ASSUME NEW p \in Processes,
              \/ PromptAction(p) \/ PollAction(p) \/ ExecutorTrouble(p)
              \/ \E s \in Servers : SyncInventory(p, s)
       PROVE  ReqInv'
  BY <1>1, <1>11 DEF PromptAction, PollAction, ExecutorTrouble, SyncInventory
<1>. QED
  BY <1>1, <1>9, <1>10, <1>11 DEF PowerNext, PowerTick, powerVars, vars

-----------------------------------------------------------------------------

\* A worker without an execution, and one that begins, are well formed.
LEMMA NoExecutionOK == ExecutionOK(NoExecution) /\ ExecutionOK(Begin)
BY DEF ExecutionOK, Executions, NoExecution, Begin, ActiveStatus, Results

\* Writing a well-formed execution together with its loop keeps the invariant.
LEMMA ExReplaced ==
  ASSUME ExInv, TypeOK, NEW p \in Processes, NEW e, ExecutionOK(e), NEW loop,
         ex' = [ex EXCEPT ![p] = e], proc' = [proc EXCEPT ![p] = loop],
         e.pc # "none" <=> loop.pc = "handling"
  PROVE  ExInv'
BY DEF ExInv, ExecutionOK, TypeOK

\* An execution that goes on keeps it.
LEMMA ExGoesOn ==
  ASSUME ExInv, TypeOK, NEW p \in Processes, NEW e, ExecutionOK(e), e.pc # "none",
         ex[p].pc # "none", GoTo(p, e)
  PROVE  ExInv'
BY DEF ExInv, ExecutionOK, GoTo

\* An execution that returns leaves its worker settling.
LEMMA ExReturned ==
  ASSUME ExInv, TypeOK, NEW p \in Processes, NEW result, Returns(p, result)
  PROVE  ExInv'
<1> DEFINE loop == [proc[p] EXCEPT !.pc = "settling", !.result = result,
                                   !.at = SettleAt(p, result)]
<1>1. proc[p] \in Loops
  BY DEF TypeOK
<1>2. loop.pc = "settling"
  BY <1>1 DEF Loops
<1>3. proc' = [proc EXCEPT ![p] = loop] /\ ex' = [ex EXCEPT ![p] = NoExecution]
  BY DEF Returns, HandlerReturns
<1>4. NoExecution.pc = "none"
  BY DEF NoExecution
<1>. HIDE DEF loop
<1>. QED
  BY <1>2, <1>3, <1>4, NoExecutionOK, ExReplaced

\* finishError either returns or goes on to the re-check.
LEMMA ExFinishes ==
  ASSUME ExInv, TypeOK, NEW p \in Processes, NEW result \in Results, ex[p].pc # "none",
         FinishError(p, result)
  PROVE  ExInv'
<1> DEFINE e == [ex[p] EXCEPT !.pc = "recheck", !.result = result]
<1>1. ex[p] \in Executions
  BY DEF ExInv
<1>2. ExecutionOK(e) /\ e.pc # "none"
  BY <1>1 DEF ExecutionOK, Executions
<1>3. Returns(p, result) \/ GoTo(p, e)
  BY DEF FinishError
<1>. HIDE DEF e
<1>. QED
  BY <1>2, <1>3, ExReturned, ExGoesOn

\* Every statement and provider call of Execute keeps it.
LEMMA PromptExInv ==
  ASSUME ExInv, TypeOK, NEW p \in Processes, PromptStep(p) \/ Poll(p)
  PROVE  ExInv'
<1>1. ex[p] \in Executions /\ ExecutionOK(ex[p])
  BY DEF ExInv
<1>2. "ok" \in Results /\ "permanent" \in Results /\ "retryable" \in Results
      /\ ProviderErrors \subseteq Results
  BY DEF Results, ProviderErrors
<1>3. now + VerifyTimeout \in Nat
  BY PowerBoundAssumption DEF TypeOK
<1>4. ASSUME NEW e, GoTo(p, e), ex[p].pc # "none",
             \/ \E pc \in {"start", "act", "mark"} : e = [ex[p] EXCEPT !.pc = pc]
             \/ \E st \in ActiveStatus : e = [ex[p] EXCEPT !.pc = "inspect", !.status = st]
             \/ \E st \in RemoteStates : e = [ex[p] EXCEPT !.pc = "record", !.seen = st]
             \/ \E goal \in Terminal : e = [ex[p] EXCEPT !.pc = "conclude", !.goal = goal]
             \/ ex[p].pc = "conclude" /\ e = [ex[p] EXCEPT !.pc = "audit"]
             \/ e = [ex[p] EXCEPT !.pc = "verify", !.deadline = now + VerifyTimeout]
             \/ e = [ex[p] EXCEPT !.pc = "verify", !.status = "verifying",
                                   !.deadline = now + VerifyTimeout]
      PROVE  ExInv'
  <2>1. ExecutionOK(e) /\ e.pc # "none"
    BY <1>1, <1>3, <1>4 DEF ExecutionOK, Executions, ActiveStatus
  <2>. QED
    BY <1>4, <2>1, ExGoesOn
<1>5. CASE FindOperation(p)
  BY <1>2, <1>4, <1>5, ExReturned DEF FindOperation, ActiveStatus
<1>6. CASE StartOperation(p)
  BY <1>2, <1>4, <1>6, ExReturned DEF StartOperation, ActiveStatus
<1>7. CASE Inspect(p)
  <2>1. ASSUME NEW state \in RemoteStates, GoTo(p, AfterInspection(p, state))
        PROVE  ExInv'
    BY <1>4, <1>7, <2>1 DEF Inspect, AfterInspection
  <2>2. ASSUME NEW result \in Results, FinishError(p, result)
        PROVE  ExInv'
    BY <1>7, <2>2, ExFinishes DEF Inspect
  <2>. QED
    BY <1>2, <1>7, <2>1, <2>2 DEF Inspect
<1>8. CASE Act(p)
  BY <1>2, <1>4, <1>8, ExFinishes DEF Act
<1>9. CASE MarkVerifying(p)
  BY <1>2, <1>4, <1>9, ExReturned DEF MarkVerifying
<1>10. CASE TimeOut(p)
  BY <1>4, <1>10 DEF TimeOut, Terminal
<1>11. CASE Record(p)
  BY <1>2, <1>4, <1>11, ExReturned DEF Record, Terminal
<1>12. CASE Recheck(p)
  BY <1>4, <1>12, ExReturned DEF Recheck, Terminal
<1>13. CASE Conclude(p)
  BY <1>4, <1>13, ExReturned DEF Conclude
<1>14. CASE AppendOutcome(p)
  BY <1>14, ExReturned DEF AppendOutcome
<1>15. CASE Poll(p)
  <2>1. ASSUME NEW result \in Results, FinishError(p, result)
        PROVE  ExInv'
    BY <1>15, <2>1, ExFinishes DEF Poll
  <2>. QED
    BY <1>2, <1>4, <1>15, <2>1 DEF Poll
<1>. QED
  BY <1>5, <1>6, <1>7, <1>8, <1>9, <1>10, <1>11, <1>12, <1>13, <1>14, <1>15 DEF PromptStep

\* The invariant of the executions is inductive.
LEMMA ExInvNext == ExInv /\ TypeOK /\ [PowerNext]_vars => ExInv'
<1>. SUFFICES ASSUME ExInv, TypeOK, [PowerNext]_vars PROVE ExInv'
  OBVIOUS
<1>1. CASE UNCHANGED <<ex, proc>>
  BY <1>1 DEF ExInv
<1>2. ASSUME NEW p \in Processes, ExecutorTrouble(p)
      PROVE  ExInv'
  <2>1. "permanent" \in Results
    BY DEF Results
  <2>. QED
    BY <1>2, <2>1, ExReturned, ExFinishes DEF ExecutorTrouble, ExecutorFault
<1>3. ASSUME NEW p \in Processes, TakeOperation(p)
      PROVE  ExInv'
  <2>1. PICK o \in Jobs : LeaseJob(p, o)
    BY <1>3 DEF TakeOperation
  <2> DEFINE loop == Handling(o, jobs[o].attempts + 1, proc[p].at + LeaseDuration)
  <2>3. proc' = [proc EXCEPT ![p] = loop] /\ loop.pc = "handling"
    BY <2>1 DEF LeaseJob, Handling
  <2>2. ex' = [ex EXCEPT ![p] = Begin] /\ Begin.pc = "find"
    BY <1>3, NoExecutionOK DEF TakeOperation, Begin, ExecutionOK, Executions, NoExecution
  <2>. HIDE DEF loop
  <2>. QED
    BY <2>2, <2>3, NoExecutionOK, ExReplaced
<1>4. ASSUME NEW p \in Processes, Volatile(p), proc' = [proc EXCEPT ![p] = Down]
      PROVE  ExInv'
  <2>1. Down.pc = "down" /\ NoExecution.pc = "none" /\ ex' = [ex EXCEPT ![p] = NoExecution]
    BY <1>4 DEF Down, Loop, NoExecution, Volatile
  <2>. QED
    BY <1>4, <2>1, NoExecutionOK, ExReplaced
<1>5. ASSUME NEW p \in Processes, PollOrSettle(p)
      PROVE  ExInv'
  <2>1. proc[p].pc # "handling" /\ ex' = ex
    BY <1>5 DEF PollOrSettle, StartPoll, LeaseNothing, Complete, Fail, Finish, Retry, Restart
  <2>2. \/ proc' = [proc EXCEPT ![p] = Loop("leasing", now)]
        \/ proc' = [proc EXCEPT ![p] = Idle]
    BY <1>5 DEF PollOrSettle, StartPoll, LeaseNothing, Complete, Fail, Finish, Retry, Restart
  <2>3. Loop("leasing", now).pc = "leasing" /\ Idle.pc = "idle"
    BY DEF Loop, Idle
  <2>. QED
    BY <2>1, <2>2, <2>3 DEF ExInv, TypeOK
<1>6. ASSUME NEW p \in Processes, WorkerAction(p) \/ PowerCrash(p)
      PROVE  ExInv'
  BY <1>3, <1>4, <1>5, <1>6 DEF WorkerAction, PowerLeaseLost, LeaseLost, PowerCrash, Crash
<1>7. ASSUME NEW c \in Clients, RequestAction(c) \/ RequestTrouble(c)
      PROVE  ExInv'
  BY <1>1, <1>7 DEF RequestAction, RequestTrouble
<1>8. ASSUME NEW p \in Processes, NEW s \in Servers, SyncInventory(p, s)
      PROVE  ExInv'
  BY <1>1, <1>8 DEF SyncInventory, queueVars
<1>9. CASE PowerTick
  BY <1>1, <1>9 DEF PowerTick, PassTime, powerVars
<1>10. ASSUME NEW p \in Processes, PromptAction(p) \/ PollAction(p)
       PROVE  ExInv'
  BY <1>10, PromptExInv DEF PromptAction, PollAction
<1>. QED
  BY <1>1, <1>2, <1>6, <1>7, <1>8, <1>9, <1>10 DEF PowerNext, vars, powerVars, queueVars

-----------------------------------------------------------------------------
(* The operations table.                                                   *)

Accepted(r) == [status |-> "queued", active |-> TRUE, server |-> r.server,
                action |-> r.action, key |-> r.key]

Accepts(c, o) ==
  /\ req[c].pc = "create" /\ WithKey(req[c].key) = {} /\ ServerFree(req[c].server)
  /\ ops[o].status = "absent"
  /\ ops' = [ops EXCEPT ![o] = Accepted(req[c])]

(***************************************************************************)
(* Two statements write the table: CreateQueued inserts a row when both    *)
(* unique constraints let it, and Transition moves one row along a valid   *)
(* transition.                                                             *)
(***************************************************************************)
LEMMA OpsSteps ==
  ASSUME ReqInv, ExInv, TypeOK, [PowerNext]_vars
  PROVE  \/ UNCHANGED ops
         \/ \E c \in Clients, o \in Jobs : Accepts(c, o)
         \/ \E o \in Jobs, next \in {"running", "verifying"} \cup Terminal : Transition(o, next)
<1> DEFINE Goal == \/ UNCHANGED ops
                   \/ \E c \in Clients, o \in Jobs : Accepts(c, o)
                   \/ \E o \in Jobs, next \in {"running", "verifying"} \cup Terminal :
                        Transition(o, next)
<1>1. ASSUME NEW c \in Clients, CreateQueued(c)
      PROVE  Goal
  <2>1. CASE UNCHANGED ops
    BY <2>1
  <2>2. CASE \E o \in Jobs :
               /\ WithKey(req[c].key) = {} /\ ServerFree(req[c].server)
               /\ ops[o].status = "absent"
               /\ ops' = [ops EXCEPT ![o] =
                            [status |-> "queued", active |-> TRUE,
                             server |-> req[c].server, action |-> req[c].action,
                             key |-> req[c].key]]
    BY <1>1, <2>2 DEF CreateQueued, Accepts, Accepted
  <2>. QED
    BY <1>1, <2>1, <2>2, Zenon DEF CreateQueued
<1>2. ASSUME NEW c \in Clients, Compensate(c)
      PROVE  Goal
  <2>1. req[c].op \in Jobs
    BY <1>2 DEF Compensate, ReqInv, RequestOK
  <2>. QED
    BY <1>2, <2>1 DEF Compensate, Terminal
<1>3. ASSUME NEW c \in Clients,
             \/ Lookup(c) \/ Check(c) \/ EnqueueJob(c) \/ AppendQueued(c) \/ StatementError(c)
             \/ Finished(c) \/ Depart(c) \/ RequestFault(c)
             \/ \E key \in Keys, s \in Servers, action \in Actions : Ask(c, key, s, action)
      PROVE  UNCHANGED ops
  BY <1>3 DEF Lookup, Check, EnqueueJob, AppendQueued, StatementError, Finished, Depart,
              RequestFault, Ask, tableVars
<1>4. ASSUME NEW c \in Clients, RequestAction(c) \/ RequestTrouble(c)
      PROVE  Goal
  <2>. HIDE DEF Goal
  <2>1. UNCHANGED ops => Goal
    BY DEF Goal
  <2>. QED
    BY <1>1, <1>2, <1>3, <1>4, <2>1 DEF RequestAction, RequestTrouble, HandlerStep
<1>5. ASSUME NEW p \in Processes, ex[p].pc # "none"
      PROVE  proc[p].job \in Jobs
  BY <1>5 DEF ExInv, TypeOK, Executing
<1>6. ASSUME NEW p \in Processes, StartOperation(p) \/ MarkVerifying(p) \/ Conclude(p)
      PROVE  Goal
  <2>1. proc[p].job \in Jobs /\ (ex[p].pc = "conclude" => ex[p].goal \in Terminal)
    BY <1>5, <1>6 DEF StartOperation, MarkVerifying, Conclude, ExInv, ExecutionOK
  <2>. QED
    BY <1>6, <2>1 DEF StartOperation, MarkVerifying, Conclude
<1>7. ASSUME NEW p \in Processes,
             \/ FindOperation(p) \/ Inspect(p) \/ Act(p) \/ TimeOut(p) \/ Record(p)
             \/ Recheck(p) \/ AppendOutcome(p) \/ Poll(p) \/ ExecutorFault(p)
      PROVE  UNCHANGED ops
  BY <1>7 DEF FindOperation, Inspect, Act, TimeOut, Record, Recheck, AppendOutcome, Poll,
              ExecutorFault, tableVars
<1>8. ASSUME NEW p \in Processes, PromptAction(p) \/ PollAction(p) \/ ExecutorTrouble(p)
      PROVE  Goal
  <2>. HIDE DEF Goal
  <2>1. UNCHANGED ops => Goal
    BY DEF Goal
  <2>. QED
    BY <1>6, <1>7, <1>8, <2>1 DEF PromptAction, PromptStep, PollAction, ExecutorTrouble
<1>9. ASSUME NEW p \in Processes,
             \/ WorkerAction(p) \/ PowerCrash(p) \/ \E s \in Servers : SyncInventory(p, s)
      PROVE  UNCHANGED ops
  BY <1>9 DEF WorkerAction, PowerCrash, SyncInventory, tableVars
<1>. HIDE DEF Goal
<1>10. UNCHANGED ops => Goal
  BY DEF Goal
<1>11. PowerTick \/ UNCHANGED vars => UNCHANGED ops
  BY DEF PowerTick, powerVars, vars
<1>12. Goal
  BY <1>4, <1>8, <1>9, <1>10, <1>11 DEF PowerNext
<1>. QED
  BY <1>12 DEF Goal

\* The invariant of the operations table is inductive.
LEMMA OpsInvNext ==
  ASSUME OpsInv, ReqInv, ExInv, TypeOK, [PowerNext]_vars
  PROVE  OpsInv'
<1>1. CASE UNCHANGED ops
  BY <1>1 DEF OpsInv
<1>2. ASSUME NEW c \in Clients, NEW o \in Jobs, Accepts(c, o)
      PROVE  OpsInv'
  <2>1. req[c].server \in Servers /\ req[c].action \in Actions /\ req[c].key \in Keys
    BY <1>2 DEF Accepts, ReqInv, RequestOK
  <2>2. Accepted(req[c]) \in Operations
    BY <2>1 DEF Accepted, Operations, ActiveStatus
  <2>3. /\ Accepted(req[c]).status = "queued" /\ Accepted(req[c]).active
        /\ Accepted(req[c]).server # NoValue /\ Accepted(req[c]).key # NoValue
    BY <2>1, NoValueAssumption DEF Accepted
  <2>. QED
    BY <1>2, <2>2, <2>3 DEF Accepts, OpsInv, ActiveStatus
<1>3. ASSUME NEW o \in Jobs, NEW next \in {"running", "verifying"} \cup Terminal,
             Transition(o, next)
      PROVE  OpsInv'
  <2> DEFINE row == Moved(ops[o], next)
  <2>1. ops[o] \in Operations
    BY DEF OpsInv
  <2>2. /\ row \in Operations /\ row.status = next /\ row.active = (next \notin Terminal)
        /\ row.server = ops[o].server /\ row.key = ops[o].key
    BY <2>1 DEF Moved, Operations, ActiveStatus
  <2>3. ops[o].status # "absent" /\ next # "absent"
    BY <1>3 DEF Transition, CanMove, ValidTransition, Terminal
  <2>4. ops' = [ops EXCEPT ![o] = row]
    BY <1>3 DEF Transition
  <2>5. (next \notin Terminal) <=> next \in ActiveStatus
    BY DEF Terminal, ActiveStatus
  <2>. HIDE DEF row
  <2>6. ops' \in [Jobs -> Operations]
    BY <2>2, <2>4 DEF OpsInv
  <2>7. ASSUME NEW k \in Jobs
        PROVE  /\ ops'[k].active <=> ops'[k].status \in ActiveStatus
               /\ ops'[k].status = "absent" <=> ops'[k].server = NoValue
               /\ ops'[k].status = "absent" <=> ops'[k].key = NoValue
    <3>1. CASE k = o
      BY <2>2, <2>3, <2>4, <2>5, <3>1 DEF OpsInv
    <3>2. CASE k # o
      BY <2>4, <3>2 DEF OpsInv
    <3>. QED
      BY <3>1, <3>2
  <2>. QED
    BY <2>6, <2>7 DEF OpsInv
<1>. QED
  BY <1>1, <1>2, <1>3, OpsSteps

-----------------------------------------------------------------------------

PowerInv == QueueInv /\ OpsInv /\ ReqInv /\ ExInv

\* The initial states satisfy the invariant.
LEMMA PowerInvInit == Init => PowerInv
<1>. SUFFICES ASSUME Init PROVE PowerInv
  OBVIOUS
<1>1. QueueInv
  BY QueueInvInit DEF Init
<1>2. OpsInv
  BY DEF Init, OpsInv, NoOperation, Operations, ActiveStatus
<1>3. ReqInv
  BY NoRequestOK DEF Init, ReqInv, RequestOK
<1>4. ExInv
  <2>1. NoExecution.pc = "none"
    BY DEF NoExecution
  <2>2. \A p \in Processes : proc[p].pc = "idle"
    BY DEF Init, QueueInit, Idle, Loop
  <2>. QED
    BY <2>1, <2>2, NoExecutionOK DEF Init, ExInv, ExecutionOK
<1>. QED
  BY <1>1, <1>2, <1>3, <1>4 DEF PowerInv

\* The invariant is inductive.
LEMMA PowerInvNext == PowerInv /\ [PowerNext]_vars => PowerInv'
<1>. SUFFICES ASSUME PowerInv, [PowerNext]_vars PROVE PowerInv'
  OBVIOUS
<1>1. TypeOK /\ QueueInv /\ OpsInv /\ ReqInv /\ ExInv
  BY DEF PowerInv, QueueInv
<1>2. QueueInv'
  BY <1>1, QueueStep, QueueInvNext
<1>3. OpsInv'
  BY <1>1, OpsInvNext
<1>4. ReqInv'
  BY <1>1, ReqInvNext
<1>5. ExInv'
  BY <1>1, ExInvNext
<1>. QED
  BY <1>2, <1>3, <1>4, <1>5 DEF PowerInv

\* So it holds in every reachable state.
LEMMA PowerInvariant == PowerSpec => []PowerInv
BY PowerInvInit, PowerInvNext, PTL DEF PowerSpec

(***************************************************************************)
(* Composition: the system as a whole drives the job queue as JobQueue     *)
(* says, so whatever is proved of the queue holds inside it: the executor, *)
(* the handlers, faults, departures and crashes add no step of their own.  *)
(***************************************************************************)
THEOREM PowerRefinesQueue == PowerSpec => OpenSpec
<1>1. Init => QueueInit
  BY DEF Init
<1>2. PowerInv /\ [PowerNext]_vars => [OpenNext]_queueVars
  BY QueueStep DEF PowerInv
<1>. QED
  BY <1>1, <1>2, PowerInvariant, PTL DEF PowerSpec, OpenSpec

-----------------------------------------------------------------------------
(* Operations, jobs and requests.                                          *)

\* A job has its operation, and so has a request that is past CreateQueued.
Backed ==
  /\ \A o \in Jobs : jobs[o].status # "absent" => ops[o].status # "absent"
  /\ \A c \in Clients : req[c].pc \in {"enqueue", "unqueue", "audit", "unaudit"} =>
                          ops[req[c].op].status # "absent"

\* A transition writes the status and leaves server and action.
LEMMA Transits ==
  ASSUME PowerInv, NEW o \in Jobs, NEW next, Transition(o, next)
  PROVE  /\ ops'[o].status = next /\ ops'[o].server = ops[o].server
         /\ ops'[o].action = ops[o].action
         /\ ops'[o].active <=> next \notin Terminal
         /\ \A k \in Jobs \ {o} : ops'[k] = ops[k]
<1>1. ops \in [Jobs -> Operations] /\ ops[o] \in Operations
  BY DEF PowerInv, OpsInv
<1>2. /\ Moved(ops[o], next).status = next /\ Moved(ops[o], next).server = ops[o].server
      /\ Moved(ops[o], next).action = ops[o].action
      /\ Moved(ops[o], next).active <=> next \notin Terminal
  BY <1>1 DEF Moved, Operations
<1>3. ops' = [ops EXCEPT ![o] = Moved(ops[o], next)]
  BY DEF Transition
<1>. QED
  BY <1>1, <1>2, <1>3

Past == {"enqueue", "unqueue", "audit", "unaudit"}
Doing == {"enqueue", "audit"}

\* Past CreateQueued a request keeps its operation and, once it undoes, does not
\* go on; it gets there with an operation that was not there before.
RequestMoves(d) ==
  req'[d].pc \in Past =>
    \/ /\ req[d].pc \in Past /\ req'[d].op = req[d].op
       /\ req'[d].pc \in Doing => req[d].pc \in Doing
    \/ /\ ops[req'[d].op].status = "absent" /\ ops'[req'[d].op].status # "absent"
       /\ \A c \in Clients \ {d} : req'[c] = req[c]

\* A request that is replaced by one that is not past CreateQueued.
LEMMA RequestReset ==
  ASSUME PowerInv, NEW c \in Clients, NEW r, req' = [req EXCEPT ![c] = r], r.pc \notin Past
  PROVE  \A d \in Clients : RequestMoves(d)
BY DEF PowerInv, ReqInv, RequestMoves, Past

\* One that is answered.
LEMMA RequestReplies ==
  ASSUME PowerInv, NEW c \in Clients, NEW reply, NEW op, Reply(c, reply, op)
  PROVE  \A d \in Clients : RequestMoves(d)
<1> DEFINE r == [req[c] EXCEPT !.pc = "replied", !.reply = reply, !.op = op]
<1>1. r.pc = "replied" /\ req' = [req EXCEPT ![c] = r]
  BY DEF PowerInv, ReqInv, Requests, Reply
<1>. HIDE DEF r
<1>. QED
  BY <1>1, RequestReset DEF Past

\* One that goes on to its next statement.
LEMMA RequestGoes ==
  ASSUME PowerInv, NEW c \in Clients, NEW pc, req' = [req EXCEPT ![c].pc = pc],
         pc \in Past => req[c].pc \in Past, pc \in Doing => req[c].pc \in Doing
  PROVE  \A d \in Clients : RequestMoves(d)
<1> DEFINE r == [req[c] EXCEPT !.pc = pc]
<1>1. /\ r.pc = pc /\ r.op = req[c].op
      /\ req' = [req EXCEPT ![c] = r] /\ req \in [Clients -> Requests]
  BY DEF PowerInv, ReqInv, Requests
<1>. HIDE DEF r
<1>2. \A d \in Clients : req'[d] = IF d = c THEN r ELSE req[d]
  BY <1>1
<1>3. ASSUME NEW d \in Clients, d # c PROVE RequestMoves(d)
  BY <1>2, <1>3 DEF RequestMoves
<1>4. RequestMoves(c)
  BY <1>1, <1>2 DEF RequestMoves
<1>. QED
  BY <1>3, <1>4

\* A statement that fails starts the undoing, or the request ends.
LEMMA RequestErrs ==
  ASSUME PowerInv, NEW c \in Clients, StatementError(c)
  PROVE  \A d \in Clients : RequestMoves(d)
<1>1. \/ Reply(c, "error", NoValue)
      \/ req[c].pc = "enqueue" /\ req' = [req EXCEPT ![c].pc = "unqueue"]
      \/ req[c].pc = "audit" /\ req' = [req EXCEPT ![c].pc = "unaudit"]
  BY DEF StatementError, AfterError
<1>. QED
  BY <1>1, RequestReplies, RequestGoes DEF Past, Doing

\* Every step does this much to every request.
LEMMA RequestsMove ==
  ASSUME PowerInv, [PowerNext]_vars
  PROVE  \A d \in Clients : RequestMoves(d)
<1> DEFINE Goal == \A d \in Clients : RequestMoves(d)
<1>0. NoRequest.pc = "idle"
  BY DEF NoRequest
<1>1. CASE UNCHANGED req
  BY <1>1 DEF RequestMoves
<1>2. ASSUME NEW c \in Clients, NEW key, NEW s, NEW action, Ask(c, key, s, action)
      PROVE  Goal
  <2> DEFINE r == [NoRequest EXCEPT !.pc = "lookup", !.key = key, !.server = s,
                                    !.action = action]
  <2>1. req' = [req EXCEPT ![c] = r] /\ r.pc = "lookup"
    BY <1>2 DEF Ask, NoRequest
  <2>. HIDE DEF r
  <2>. QED
    BY <2>1, RequestReset DEF Past
<1>3. ASSUME NEW c \in Clients, Lookup(c) \/ Check(c) \/ AppendQueued(c) \/ Compensate(c)
      PROVE  Goal
  BY <1>3, RequestReplies, RequestGoes
  DEF Lookup, Check, AppendQueued, Compensate, Past, Doing
<1>4. ASSUME NEW c \in Clients, CreateQueued(c)
      PROVE  Goal
  <2>1. ASSUME NEW o \in Jobs, ops[o].status = "absent",
               req' = [req EXCEPT ![c].pc = "enqueue", ![c].op = o],
               ops' = [ops EXCEPT ![o] = Accepted(req[c])]
        PROVE  Goal
    <3> DEFINE r == [req[c] EXCEPT !.pc = "enqueue", !.op = o]
    <3>1. /\ r.pc = "enqueue" /\ r.op = o
          /\ req' = [req EXCEPT ![c] = r] /\ req \in [Clients -> Requests]
      BY <2>1 DEF PowerInv, ReqInv, Requests
    <3>. HIDE DEF r
    <3>2. \A d \in Clients : req'[d] = IF d = c THEN r ELSE req[d]
      BY <3>1
    <3>3. ops'[o].status = "queued"
      BY <2>1 DEF PowerInv, OpsInv, Accepted
    <3>4. ASSUME NEW d \in Clients, d # c PROVE RequestMoves(d)
      BY <3>2, <3>4 DEF RequestMoves
    <3>5. RequestMoves(c)
      BY <2>1, <3>1, <3>2, <3>3 DEF RequestMoves
    <3>. QED
      BY <3>4, <3>5
  <2>2. \/ \E o \in WithKey(req[c].key) : Reply(c, "existing", o)
        \/ Reply(c, "error", NoValue)
        \/ \E o \in Jobs : /\ ops[o].status = "absent"
                           /\ ops' = [ops EXCEPT ![o] = Accepted(req[c])]
                           /\ req' = [req EXCEPT ![c].pc = "enqueue", ![c].op = o]
    BY <1>4, Zenon DEF CreateQueued, Accepted
  <2>. QED
    BY <2>1, <2>2, RequestReplies
<1>5. ASSUME NEW c \in Clients, EnqueueJob(c)
      PROVE  Goal
  BY <1>5, RequestGoes DEF EnqueueJob, Past, Doing
<1>6. ASSUME NEW c \in Clients, Finished(c)
      PROVE  Goal
  BY <1>0, <1>6, RequestReset DEF Finished, Past
<1>7. ASSUME NEW c \in Clients, Depart(c)
      PROVE  Goal
  <2> DEFINE r == [req[c] EXCEPT !.live = FALSE]
  <2>1. /\ r.pc = req[c].pc /\ r.op = req[c].op
        /\ req' = [req EXCEPT ![c] = r] /\ req \in [Clients -> Requests]
    BY <1>7 DEF Depart, PowerInv, ReqInv, Requests
  <2>. HIDE DEF r
  <2>2. \A d \in Clients : req'[d] = IF d = c THEN r ELSE req[d]
    BY <2>1
  <2>. QED
    BY <2>1, <2>2 DEF RequestMoves
<1>8. ASSUME NEW p \in Processes, Volatile(p)
      PROVE  Goal
  <2>. SUFFICES ASSUME NEW d \in Clients PROVE RequestMoves(d)
    OBVIOUS
  <2>1. req'[d] = NoRequest \/ req'[d] = req[d]
    BY <1>8 DEF Volatile
  <2>. QED
    BY <1>0, <2>1 DEF RequestMoves, Past
<1>9. ASSUME NEW c \in Clients, RequestAction(c) \/ RequestTrouble(c)
      PROVE  Goal
  BY <1>2, <1>3, <1>4, <1>5, <1>6, <1>7, <1>9, RequestErrs
  DEF RequestAction, RequestTrouble, HandlerStep, RequestFault
<1>10. ASSUME NEW p \in Processes, WorkerAction(p) \/ PowerCrash(p)
       PROVE  Goal
  BY <1>1, <1>8, <1>10 DEF WorkerAction, PollOrSettle, TakeOperation, PowerLeaseLost, PowerCrash
<1>11. ASSUME NEW p \in Processes,
              \/ PromptAction(p) \/ PollAction(p) \/ ExecutorTrouble(p)
              \/ \E s \in Servers : SyncInventory(p, s)
       PROVE  Goal
  BY <1>1, <1>11 DEF PromptAction, PollAction, ExecutorTrouble, SyncInventory
<1>. QED
  BY <1>1, <1>9, <1>10, <1>11 DEF PowerNext, PowerTick, powerVars, vars

\* An operation does not go away.
LEMMA OpsStay ==
  ASSUME PowerInv, [PowerNext]_vars, NEW o \in Jobs, ops[o].status # "absent"
  PROVE  ops'[o].status # "absent"
<1>1. ASSUME NEW c \in Clients, NEW k \in Jobs, Accepts(c, k)
      PROVE  ops'[o].status # "absent"
  BY <1>1 DEF Accepts, Accepted, PowerInv, OpsInv
<1>2. ASSUME NEW k \in Jobs, NEW next \in {"running", "verifying"} \cup Terminal,
             Transition(k, next)
      PROVE  ops'[o].status # "absent"
  BY <1>2, Transits DEF Terminal
<1>. QED
  BY <1>1, <1>2, OpsSteps DEF PowerInv, QueueInv

\* Only a request puts a row into the job table: that of its operation.
LEMMA JobsArrive ==
  ASSUME PowerInv, [PowerNext]_vars, NEW o \in Jobs,
         jobs[o].status = "absent", jobs'[o].status # "absent"
  PROVE  \E c \in Clients : req[c].pc = "enqueue" /\ req[c].op = o
<1>0. jobs \in [Jobs -> Rows]
  BY DEF PowerInv, QueueInv, TypeOK
<1>1. ASSUME NEW c \in Clients, RequestAction(c) \/ RequestTrouble(c)
      PROVE  EnqueueJob(c)
  BY <1>1 DEF RequestAction, RequestTrouble, HandlerStep, Ask, Lookup, Check, CreateQueued,
              AppendQueued, Compensate, StatementError, Finished, Depart, RequestFault
<1>2. ASSUME NEW c \in Clients, EnqueueJob(c)
      PROVE  req[c].pc = "enqueue" /\ req[c].op = o
  BY <1>0, <1>2 DEF EnqueueJob, Enqueue
<1>3. ASSUME NEW p \in Processes, WorkerAction(p)
      PROVE  FALSE
  <2>1. \A j \in Jobs : ~LeaseJob(p, j)
    BY <1>0 DEF LeaseJob, NextJobs, Claimable
  <2>2. HoldsRow(p) => jobs[proc[p].job].status = "running"
    BY DEF HoldsRow
  <2>3. ~Complete(p) /\ ~Fail(p) /\ ~Retry(p)
    BY <1>0, <2>2 DEF Complete, Fail, Finish, Retry
  <2>. QED
    BY <1>3, <2>1, <2>3
    DEF WorkerAction, PollOrSettle, LeaseNothing, Restart, TakeOperation, PowerLeaseLost, LeaseLost
<1>4. ASSUME NEW p \in Processes,
             \/ PromptAction(p) \/ PollAction(p) \/ ExecutorTrouble(p) \/ PowerCrash(p)
             \/ \E s \in Servers : SyncInventory(p, s)
      PROVE  FALSE
  BY <1>4 DEF PromptAction, PollAction, ExecutorTrouble, PowerCrash, Crash, SyncInventory,
              queueVars
<1>. QED
  BY <1>1, <1>2, <1>3, <1>4 DEF PowerNext, PowerTick, PassTime, vars, queueVars

\* Jobs and requests keep their operations.
LEMMA BackedNext ==
  ASSUME PowerInv, Backed, [PowerNext]_vars
  PROVE  Backed'
<1>1. ASSUME NEW o \in Jobs, jobs'[o].status # "absent"
      PROVE  ops'[o].status # "absent"
  <2>1. ops[o].status # "absent"
    BY <1>1, JobsArrive DEF Backed
  <2>. QED
    BY <2>1, OpsStay
<1>2. ASSUME NEW c \in Clients, req'[c].pc \in Past
      PROVE  ops'[req'[c].op].status # "absent"
  <2>1. CASE req[c].pc \in Past /\ req'[c].op = req[c].op
    <3>1. req[c].op \in Jobs /\ ops[req[c].op].status # "absent"
      BY <2>1 DEF Backed, PowerInv, ReqInv, RequestOK, Past
    <3>. QED
      BY <2>1, <3>1, OpsStay
  <2>. QED
    BY <1>2, <2>1, RequestsMove DEF RequestMoves
<1>. QED
  BY <1>1, <1>2 DEF Backed, Past

\* An execution that returns or goes on leaves the others alone.
LEMMA OneExecution ==
  ASSUME PowerInv, NEW p \in Processes, ex[p].pc # "none", NEW e,
         \/ GoTo(p, e)
         \/ e = NoExecution /\ \E result : Returns(p, result)
  PROVE  /\ ex'[p] = e /\ proc'[p].job = proc[p].job
         /\ \A q \in Processes \ {p} : ex'[q] = ex[q] /\ proc'[q] = proc[q]
<1>1. ex \in [Processes -> Executions] /\ proc \in [Processes -> Loops]
  BY DEF PowerInv, ExInv, QueueInv, TypeOK
<1>2. CASE GoTo(p, e)
  BY <1>1, <1>2 DEF GoTo
<1>3. ASSUME NEW result, Returns(p, result), e = NoExecution
      PROVE  /\ ex'[p] = e /\ proc'[p].job = proc[p].job
             /\ \A q \in Processes \ {p} : ex'[q] = ex[q] /\ proc'[q] = proc[q]
  <2>1. proc'[p].job = proc[p].job
    BY <1>1, <1>3 DEF Returns, HandlerReturns, Loops
  <2>. QED
    BY <1>1, <1>3, <2>1 DEF Returns, HandlerReturns
<1>. QED
  BY <1>2, <1>3

\* An execution is about to report a verdict only after it has written it.
LEMMA VerdictSteps ==
  ASSUME PowerInv, [PowerNext]_vars, NEW p \in Processes, ex'[p].pc = "audit"
  PROVE  /\ proc'[p].job = proc[p].job /\ ex'[p].goal = ex[p].goal
         /\ \/ ex[p].pc = "audit"
            \/ ex[p].pc = "conclude" /\ Transition(proc[p].job, ex[p].goal)
<1> DEFINE Goal == /\ proc'[p].job = proc[p].job /\ ex'[p].goal = ex[p].goal
                   /\ \/ ex[p].pc = "audit"
                      \/ ex[p].pc = "conclude" /\ Transition(proc[p].job, ex[p].goal)
<1>0. /\ ex \in [Processes -> Executions] /\ proc \in [Processes -> Loops]
      /\ \A q \in Processes : ex[q].pc # "none" <=> proc[q].pc = "handling"
      /\ NoExecution.pc = "none" /\ Begin.pc = "find"
  BY DEF PowerInv, ExInv, QueueInv, TypeOK, NoExecution, Begin
<1>1. CASE ex'[p] = ex[p] /\ proc'[p].job = proc[p].job
  BY <1>1
<1>. HIDE DEF Goal
<1>2. ASSUME NEW q \in Processes, ex[q].pc # "none", NEW e, GoTo(q, e), e.pc # "audit"
      PROVE  Goal
  BY <1>1, <1>2, OneExecution DEF Goal
<1>3. ASSUME NEW q \in Processes, ex[q].pc # "none", NEW result, Returns(q, result)
      PROVE  Goal
  BY <1>0, <1>1, <1>3, OneExecution DEF Goal
<1>4. ASSUME NEW q \in Processes, ex[q].pc # "none", NEW result, FinishError(q, result)
      PROVE  Goal
  <2> DEFINE e == [ex[q] EXCEPT !.pc = "recheck", !.result = result]
  <2>1. e.pc = "recheck" /\ (Returns(q, result) \/ GoTo(q, e))
    BY <1>0, <1>4 DEF FinishError, Executions
  <2>. HIDE DEF e
  <2>. QED
    BY <1>2, <1>3, <1>4, <2>1
<1>5. ASSUME NEW q \in Processes, PromptStep(q) \/ Poll(q)
      PROVE  Goal
  <2>0. ex[q].pc # "none" /\ ex[q] \in Executions
    BY <1>0, <1>5 DEF PromptStep, FindOperation, StartOperation, Inspect, Act, MarkVerifying,
         TimeOut, Record, Recheck, Conclude, AppendOutcome, Poll
  <2>1. ASSUME NEW e, GoTo(q, e),
               \/ \E pc \in {"start", "mark", "act"} : e = [ex[q] EXCEPT !.pc = pc]
               \/ \E st : e = [ex[q] EXCEPT !.pc = "inspect", !.status = st]
               \/ \E st : e = [ex[q] EXCEPT !.pc = "record", !.seen = st]
               \/ \E goal : e = [ex[q] EXCEPT !.pc = "conclude", !.goal = goal]
               \/ \E at : e = [ex[q] EXCEPT !.pc = "verify", !.deadline = at]
               \/ \E at : e = [ex[q] EXCEPT !.pc = "verify", !.status = "verifying",
                                            !.deadline = at]
        PROVE  Goal
    <3>1. e.pc # "audit"
      BY <2>0, <2>1 DEF Executions
    <3>. QED
      BY <1>2, <2>0, <2>1, <3>1
  <2>2. CASE FindOperation(q)
    BY <1>3, <2>0, <2>1, <2>2 DEF FindOperation
  <2>3. CASE StartOperation(q) \/ MarkVerifying(q)
    BY <1>3, <2>0, <2>1, <2>3 DEF StartOperation, MarkVerifying
  <2>4. CASE Inspect(q)
    <3>1. ASSUME NEW state \in RemoteStates, GoTo(q, AfterInspection(q, state))
          PROVE  Goal
      BY <2>1, <3>1 DEF AfterInspection
    <3>. QED
      BY <1>4, <2>0, <2>4, <3>1 DEF Inspect
  <2>5. CASE Act(q)
    BY <1>4, <2>0, <2>1, <2>5 DEF Act
  <2>6. CASE Poll(q)
    BY <1>4, <2>0, <2>1, <2>6 DEF Poll
  <2>7. CASE TimeOut(q) \/ Record(q) \/ Recheck(q)
    BY <1>3, <2>0, <2>1, <2>7 DEF TimeOut, Record, Recheck
  <2>8. CASE Conclude(q)
    <3>1. CASE Transition(proc[q].job, ex[q].goal) /\ GoTo(q, [ex[q] EXCEPT !.pc = "audit"])
      <4> DEFINE e == [ex[q] EXCEPT !.pc = "audit"]
      <4>1. GoTo(q, e) /\ e.goal = ex[q].goal
        BY <2>0, <3>1 DEF Executions
      <4>. HIDE DEF e
      <4>2. CASE q = p
        BY <2>0, <2>8, <3>1, <4>1, <4>2, OneExecution DEF Goal, Conclude
      <4>3. CASE q # p
        BY <1>1, <2>0, <4>1, <4>3, OneExecution DEF Goal
      <4>. QED
        BY <4>2, <4>3
    <3>. QED
      BY <1>3, <2>0, <2>8, <3>1 DEF Conclude
  <2>9. CASE AppendOutcome(q)
    BY <1>3, <2>0, <2>9 DEF AppendOutcome
  <2>. QED
    BY <1>5, <2>2, <2>3, <2>4, <2>5, <2>6, <2>7, <2>8, <2>9 DEF PromptStep
<1>6. ASSUME NEW q \in Processes, ExecutorTrouble(q)
      PROVE  Goal
  <2>1. ex[q].pc # "none"
    BY <1>6 DEF ExecutorTrouble, ExecutorFault
  <2>. QED
    BY <1>3, <1>4, <1>6, <2>1 DEF ExecutorTrouble, ExecutorFault
<1>7. ASSUME NEW q \in Processes, PollOrSettle(q)
      PROVE  Goal
  <2>1. ex' = ex /\ proc[q].pc # "handling" /\ \A k \in Processes \ {q} : proc'[k] = proc[k]
    BY <1>0, <1>7
    DEF PollOrSettle, StartPoll, LeaseNothing, Complete, Fail, Finish, Retry, Restart
  <2>. QED
    BY <1>0, <1>1, <2>1 DEF Goal
<1>8. ASSUME NEW q \in Processes, TakeOperation(q)
      PROVE  Goal
  <2>1. ex'[q].pc = "find"
        /\ \A k \in Processes \ {q} : ex'[k] = ex[k] /\ proc'[k] = proc[k]
    BY <1>0, <1>8 DEF TakeOperation, LeaseJob
  <2>. QED
    BY <1>1, <2>1 DEF Goal
<1>9. ASSUME NEW q \in Processes, Volatile(q), proc' = [proc EXCEPT ![q] = Down]
      PROVE  Goal
  <2>1. ex'[q] = NoExecution
        /\ \A k \in Processes \ {q} : ex'[k] = ex[k] /\ proc'[k] = proc[k]
    BY <1>0, <1>9 DEF Volatile
  <2>. QED
    BY <1>0, <1>1, <2>1 DEF Goal
<1>10. UNCHANGED <<ex, proc>> => Goal
  BY <1>1 DEF Goal
<1>11. ASSUME NEW c \in Clients, RequestAction(c) \/ RequestTrouble(c)
       PROVE  UNCHANGED <<ex, proc>>
  BY <1>11 DEF RequestAction, RequestTrouble
<1>12. ASSUME NEW q \in Processes, NEW s \in Servers, SyncInventory(q, s)
       PROVE  UNCHANGED <<ex, proc>>
  BY <1>12 DEF SyncInventory, queueVars
<1>13. PowerTick \/ UNCHANGED vars => UNCHANGED <<ex, proc>>
  BY DEF PowerTick, PassTime, powerVars, queueVars, vars
<1>14. ASSUME NEW q \in Processes, WorkerAction(q) \/ PowerCrash(q)
       PROVE  Goal
  BY <1>7, <1>8, <1>9, <1>14
  DEF WorkerAction, PowerLeaseLost, LeaseLost, PowerCrash, Crash
<1>15. Goal
  BY <1>5, <1>6, <1>10, <1>11, <1>12, <1>13, <1>14 DEF PowerNext, PromptAction, PollAction
<1>. QED
  BY <1>15 DEF Goal

\* An execution reports the verdict it has written, which nothing overwrites.
Verdicts == \A p \in Processes : ex[p].pc = "audit" => ops[proc[p].job].status = ex[p].goal

LEMMA VerdictsNext ==
  ASSUME PowerInv, Verdicts, [PowerNext]_vars
  PROVE  Verdicts'
<1>. SUFFICES ASSUME NEW p \in Processes, ex'[p].pc = "audit"
              PROVE  ops'[proc'[p].job].status = ex'[p].goal
  BY DEF Verdicts
<1>1. proc'[p].job = proc[p].job /\ ex'[p].goal = ex[p].goal
  BY VerdictSteps
<1>2. CASE Transition(proc[p].job, ex[p].goal) /\ ex[p].pc = "conclude"
  <2>1. proc[p].job \in Jobs
    BY <1>2 DEF PowerInv, ExInv, QueueInv, TypeOK, Executing
  <2>. QED
    BY <1>1, <1>2, <2>1, Transits
<1>3. CASE ex[p].pc = "audit"
  <2>1. /\ proc[p].job \in Jobs /\ ex[p].goal \in Terminal
        /\ ops[proc[p].job].status = ex[p].goal
    BY <1>3 DEF PowerInv, ExInv, ExecutionOK, QueueInv, TypeOK, Executing, Verdicts
  <2>2. ASSUME NEW c \in Clients, NEW o \in Jobs, Accepts(c, o)
        PROVE  ops'[proc[p].job] = ops[proc[p].job]
    BY <2>1, <2>2 DEF Accepts, Terminal, PowerInv, OpsInv
  <2>3. ASSUME NEW o \in Jobs, NEW next, Transition(o, next)
        PROVE  ops'[proc[p].job] = ops[proc[p].job]
    <3>1. ops[o].status \notin Terminal
      BY <2>3 DEF Transition, CanMove, ValidTransition, Terminal
    <3>. QED
      BY <2>1, <2>3, <3>1, Transits
  <2>. QED
    BY <1>1, <2>1, <2>2, <2>3, OpsSteps DEF PowerInv, QueueInv
<1>. QED
  BY <1>2, <1>3, VerdictSteps

\* What stands behind an entry holds in every reachable state.
LEMMA ReportsInvariant == PowerSpec => [](PowerInv /\ Backed /\ Verdicts)
<1>1. Init => Backed /\ Verdicts
  BY DEF Init, QueueInit, Backed, Verdicts, NoRow, NoRequest, NoExecution
<1>. QED
  BY <1>1, BackedNext, VerdictsNext, PowerInvariant, PTL DEF PowerSpec

\* Two statements append to the audit log, and neither changes an operation.
LEMMA AuditSteps ==
  ASSUME [PowerNext]_vars
  PROVE  \/ UNCHANGED audit
         \/ \E c \in Clients : AppendQueued(c)
         \/ \E p \in Processes : AppendOutcome(p)
<1>1. ASSUME NEW c \in Clients, RequestAction(c) \/ RequestTrouble(c)
      PROVE  UNCHANGED audit \/ AppendQueued(c)
  BY <1>1 DEF RequestAction, RequestTrouble, HandlerStep, Ask, Lookup, Check, CreateQueued,
              EnqueueJob, Compensate, StatementError, Finished, Depart, RequestFault, tableVars
<1>2. ASSUME NEW p \in Processes, PromptAction(p) \/ PollAction(p) \/ ExecutorTrouble(p)
      PROVE  UNCHANGED audit \/ AppendOutcome(p)
  BY <1>2 DEF PromptAction, PromptStep, PollAction, ExecutorTrouble, ExecutorFault,
              FindOperation, StartOperation, Inspect, Act, MarkVerifying, TimeOut, Record,
              Recheck, Conclude, Poll, tableVars
<1>3. ASSUME NEW p \in Processes,
             \/ WorkerAction(p) \/ PowerCrash(p) \/ \E s \in Servers : SyncInventory(p, s)
      PROVE  UNCHANGED audit
  BY <1>3 DEF WorkerAction, PowerCrash, SyncInventory, tableVars
<1>. QED
  BY <1>1, <1>2, <1>3 DEF PowerNext, PowerTick, powerVars, vars

-----------------------------------------------------------------------------
(***************************************************************************)
(* Operations table and audit log implement the abstract lifecycle: every  *)
(* step is Accept for a free server, one Advance, one Report of what is    *)
(* true, or a stutter.                                                     *)
(***************************************************************************)
LEMMA LifecycleInit == Init => Lifecycle!Init
BY DEF Init, NoOperation, Lifecycle!Init

\* Every step of the system is a lifecycle step or a stutter.
LEMMA LifecycleStep ==
  ASSUME PowerInv, Backed, Verdicts, [PowerNext]_vars
  PROVE  [Lifecycle!Next]_Lifecycle!vars
<1>. USE DEF Lifecycle!Unfinished, Lifecycle!Finished
<1>0. OpsInv /\ ReqInv /\ ExInv /\ TypeOK
  BY DEF PowerInv, QueueInv
<1>1. CASE UNCHANGED <<ops, audit>>
  BY <1>1 DEF Lifecycle!vars
<1>2. ASSUME NEW c \in Clients, NEW o \in Jobs, Accepts(c, o), UNCHANGED audit
      PROVE  Lifecycle!Next
  <2>1. PICK s \in Servers : s = req[c].server
    BY <1>0, <1>2 DEF Accepts, ReqInv, RequestOK
  <2>2. ~Lifecycle!Busy(s)
    BY <1>0, <1>2, <2>1, NoValueAssumption DEF Accepts, ServerFree, Lifecycle!Busy, OpsInv, ActiveStatus
  <2>3. ops' = [ops EXCEPT ![o] = Accepted(req[c])] /\ ops[o].status = "absent"
    BY <1>2 DEF Accepts
  <2>4. Accepted(req[c]).status = "queued" /\ Accepted(req[c]).server = s
    BY <2>1 DEF Accepted
  <2>5. [k \in Jobs |-> ops'[k].status]
          = [[k \in Jobs |-> ops[k].status] EXCEPT ![o] = "queued"]
    BY <1>0, <2>3, <2>4 DEF OpsInv
  <2>6. [k \in Jobs |-> ops'[k].server]
          = [[k \in Jobs |-> ops[k].server] EXCEPT ![o] = s]
    BY <1>0, <2>3, <2>4 DEF OpsInv
  <2>7. Lifecycle!Accept(o, s)
    BY <1>2, <2>2, <2>3, <2>5, <2>6 DEF Lifecycle!Accept
  <2>. QED
    BY <2>7 DEF Lifecycle!Next
<1>3. ASSUME NEW o \in Jobs, NEW next \in {"running", "verifying"} \cup Terminal,
             Transition(o, next), UNCHANGED audit
      PROVE  Lifecycle!Next
  <2>1. ops[o] \in Operations
    BY <1>0 DEF OpsInv
  <2>2. Moved(ops[o], next).status = next /\ Moved(ops[o], next).server = ops[o].server
    BY <2>1 DEF Moved, Operations
  <2>3. ops' = [ops EXCEPT ![o] = Moved(ops[o], next)]
    BY <1>3 DEF Transition
  <2>4. [k \in Jobs |-> ops'[k].status]
          = [[k \in Jobs |-> ops[k].status] EXCEPT ![o] = next]
    BY <1>0, <2>2, <2>3 DEF OpsInv
  <2>5. [k \in Jobs |-> ops'[k].server] = [k \in Jobs |-> ops[k].server]
    BY <1>0, <2>2, <2>3 DEF OpsInv
  <2>6. /\ ops[o].status \in {"queued", "running", "verifying"}
        /\ next \in {"succeeded", "timed_out"} => ops[o].status # "queued"
        /\ Lifecycle!Rank(next) > Lifecycle!Rank(ops[o].status)
    BY <1>3 DEF Transition, CanMove, ValidTransition, Terminal, Lifecycle!Rank
  <2>7. Lifecycle!Advance(o, next)
    BY <1>3, <2>4, <2>5, <2>6 DEF Lifecycle!Advance
  <2>. QED
    BY <2>7 DEF Lifecycle!Next, Terminal
<1>4. ASSUME NEW c \in Clients, AppendQueued(c)
      PROVE  Lifecycle!Next
  <2>1. req[c].op \in Jobs /\ ops[req[c].op].status # "absent"
    BY <1>0, <1>4 DEF AppendQueued, ReqInv, RequestOK, Backed
  <2>2. Lifecycle!Report(req[c].op, "queued")
    BY <1>4, <2>1 DEF AppendQueued, Lifecycle!Report
  <2>. QED
    BY <2>1, <2>2 DEF Lifecycle!Next
<1>5. ASSUME NEW p \in Processes, AppendOutcome(p)
      PROVE  Lifecycle!Next
  <2>1. /\ proc[p].job \in Jobs /\ ex[p].goal \in Terminal
        /\ ops[proc[p].job].status = ex[p].goal
    BY <1>0, <1>5 DEF AppendOutcome, ExInv, ExecutionOK, TypeOK, Executing, Verdicts
  <2>2. Lifecycle!Report(proc[p].job, ex[p].goal)
    BY <1>5, <2>1 DEF AppendOutcome, Lifecycle!Report, Terminal
  <2>. QED
    BY <2>1, <2>2 DEF Lifecycle!Next, Terminal
<1>6. ~UNCHANGED audit => Lifecycle!Next
  BY <1>4, <1>5, AuditSteps
<1>. QED
  BY <1>0, <1>1, <1>2, <1>3, <1>6, OpsSteps

\* Whichever statements of requests, workers and compensations interleave, the
\* operations table and the audit log implement OperationLifecycle.
THEOREM PowerImplementsLifecycle == PowerSpec => ImplementsLifecycle
BY LifecycleInit, LifecycleStep, ReportsInvariant, PTL
DEF PowerSpec, ImplementsLifecycle, Lifecycle!Spec

\* The abstract lifecycle keeps its log true.
LEMMA LogTrueNext == Lifecycle!LogTrue /\ [Lifecycle!Next]_Lifecycle!vars => Lifecycle!LogTrue'
<1>. SUFFICES ASSUME Lifecycle!LogTrue, [Lifecycle!Next]_Lifecycle!vars
              PROVE  Lifecycle!LogTrue'
  OBVIOUS
<1>1. CASE UNCHANGED Lifecycle!vars
  BY <1>1 DEF Lifecycle!vars, Lifecycle!LogTrue
<1>2. ASSUME NEW o \in Jobs, NEW s \in Servers, Lifecycle!Accept(o, s)
      PROVE  Lifecycle!LogTrue'
  BY <1>2 DEF Lifecycle!Accept, Lifecycle!LogTrue
<1>3. ASSUME NEW o \in Jobs, NEW next \in Lifecycle!Unfinished \cup Lifecycle!Finished,
             Lifecycle!Advance(o, next)
      PROVE  Lifecycle!LogTrue'
  BY <1>3
  DEF Lifecycle!Advance, Lifecycle!LogTrue, Lifecycle!Unfinished, Lifecycle!Finished
<1>4. ASSUME NEW o \in Jobs, NEW event \in {"queued"} \cup Lifecycle!Finished,
             Lifecycle!Report(o, event)
      PROVE  Lifecycle!LogTrue'
  BY <1>4 DEF Lifecycle!Report, Lifecycle!LogTrue, Lifecycle!Finished
<1>. QED
  BY <1>1, <1>2, <1>3, <1>4 DEF Lifecycle!Next

(***************************************************************************)
(* The final status and its audit entry are two statements                 *)
(* (executor.go:204 and 207).  What comes between them may lose the entry  *)
(* but never makes it wrong: an outcome in the log is the operation's.     *)
(***************************************************************************)
THEOREM PowerLogTrue == PowerSpec => []Lifecycle!LogTrue
<1>1. Lifecycle!Init => Lifecycle!LogTrue
  BY DEF Lifecycle!Init, Lifecycle!LogTrue
<1>2. ImplementsLifecycle => []Lifecycle!LogTrue
  BY <1>1, LogTrueNext, PTL DEF ImplementsLifecycle, Lifecycle!Spec
<1>. QED
  BY <1>2, PowerImplementsLifecycle, PTL

(***************************************************************************)
(* An idempotency key names one operation: CreateQueued inserts only when  *)
(* no row has the key, and Transition keeps it.                            *)
(***************************************************************************)
LEMMA KeysNext ==
  ASSUME PowerInv, KeysIdentifyOperations, [PowerNext]_vars
  PROVE  KeysIdentifyOperations'
<1>0. OpsInv /\ ReqInv /\ ExInv /\ TypeOK
  BY DEF PowerInv, QueueInv
<1>1. CASE UNCHANGED ops
  BY <1>1 DEF KeysIdentifyOperations
<1>2. ASSUME NEW c \in Clients, NEW o \in Jobs, Accepts(c, o)
      PROVE  KeysIdentifyOperations'
  <2>1. Accepted(req[c]).key = req[c].key
    BY DEF Accepted
  <2>2. \A k \in Jobs : ops[k].key # req[c].key
    BY <1>2 DEF Accepts, WithKey
  <2>. QED
    BY <1>0, <1>2, <2>1, <2>2 DEF Accepts, KeysIdentifyOperations, OpsInv
<1>3. ASSUME NEW o \in Jobs, NEW next, Transition(o, next)
      PROVE  KeysIdentifyOperations'
  <2>1. ops[o] \in Operations
    BY <1>0 DEF OpsInv
  <2>2. Moved(ops[o], next).key = ops[o].key
    BY <2>1 DEF Moved, Operations
  <2>. QED
    BY <1>0, <1>3, <2>2 DEF Transition, KeysIdentifyOperations, OpsInv
<1>. QED
  BY <1>0, <1>1, <1>2, <1>3, OpsSteps

\* No interleaving of two requests gives two operations the same key.
THEOREM PowerKeys == PowerSpec => []KeysIdentifyOperations
<1>1. Init => KeysIdentifyOperations
  BY DEF Init, KeysIdentifyOperations, NoOperation
<1>. QED
  BY <1>1, KeysNext, PowerInvariant, PTL DEF PowerSpec

-----------------------------------------------------------------------------
(* What is proved of the job queue holds inside the system.                *)

(***************************************************************************)
(* No step of a request, an executor or a crash touches a finished job.    *)
(***************************************************************************)
THEOREM PowerFinal == PowerSpec => FinishedRowsFinal
BY PowerRefinesQueue, QueueFinal, PTL

-----------------------------------------------------------------------------
(* A 202 answer.                                                           *)

\* A row of the job table is never deleted, and nor is an audit entry.
LEMMA JobsStay ==
  ASSUME PowerInv, [PowerNext]_vars, NEW o \in Jobs, jobs[o].status # "absent"
  PROVE  jobs'[o].status # "absent"
<1>1. [OpenNext]_queueVars /\ QueueInv
  BY QueueStep DEF PowerInv, QueueInv
<1>2. CASE jobs'[o] = jobs[o]
  BY <1>2
<1>3. CASE jobs'[o] # jobs[o]
  BY <1>1, <1>3, RowChanges DEF TerminalJob, RetryStatus
<1>. QED
  BY <1>2, <1>3

\* No entry of the audit log is removed.
LEMMA AuditGrows == [PowerNext]_vars => audit \subseteq audit'
<1>. SUFFICES ASSUME [PowerNext]_vars PROVE audit \subseteq audit'
  OBVIOUS
<1>1. ASSUME NEW c \in Clients, RequestAction(c) \/ RequestTrouble(c)
      PROVE  audit \subseteq audit'
  BY <1>1 DEF RequestAction, RequestTrouble, HandlerStep, Ask, Lookup, Check, CreateQueued,
              EnqueueJob, AppendQueued, Compensate, StatementError, Finished, Depart,
              RequestFault, tableVars
<1>2. ASSUME NEW p \in Processes, PromptAction(p) \/ PollAction(p) \/ ExecutorTrouble(p)
      PROVE  audit \subseteq audit'
  BY <1>2 DEF PromptAction, PromptStep, PollAction, ExecutorTrouble, ExecutorFault,
              FindOperation, StartOperation, Inspect, Act, MarkVerifying, TimeOut, Record,
              Recheck, Conclude, AppendOutcome, Poll, tableVars
<1>3. ASSUME NEW p \in Processes,
             \/ WorkerAction(p) \/ PowerCrash(p) \/ \E s \in Servers : SyncInventory(p, s)
      PROVE  UNCHANGED audit
  BY <1>3 DEF WorkerAction, PowerCrash, SyncInventory, tableVars
<1>. QED
  BY <1>1, <1>2, <1>3 DEF PowerNext, PowerTick, powerVars, vars

\* Behind the answer: a request answers once, and it is past EnqueueJob only
\* with a job in the table.
AnswerOK(r) ==
  /\ r.reply # "none" => r.pc = "replied"
  /\ r.pc \in {"audit", "unaudit"} => jobs[r.op].status # "absent"
  /\ r.reply = "accepted" => /\ r.op \in Jobs /\ jobs[r.op].status # "absent"
                             /\ <<r.op, "queued">> \in audit

AnswersOK == \A c \in Clients : AnswerOK(req[c])

\* A step of others keeps what stands behind an answer.
LEMMA AnswerKept ==
  ASSUME PowerInv, [PowerNext]_vars, NEW r, RequestOK(r), AnswerOK(r)
  PROVE  /\ r.reply # "none" => r.pc = "replied"
         /\ r.pc \in {"audit", "unaudit"} => jobs'[r.op].status # "absent"
         /\ r.reply = "accepted" => /\ r.op \in Jobs /\ jobs'[r.op].status # "absent"
                                    /\ <<r.op, "queued">> \in audit'
BY JobsStay, AuditGrows DEF AnswerOK, RequestOK

Unanswered(r) == /\ r.pc \notin {"audit", "unaudit"} /\ r.reply # "accepted"
                 /\ r.reply # "none" => r.pc = "replied"

\* What stands behind every answer is inductive.
LEMMA AnswersNext ==
  ASSUME PowerInv, AnswersOK, [PowerNext]_vars
  PROVE  AnswersOK'
<1>0. ReqInv /\ TypeOK /\ req \in [Clients -> Requests]
  BY DEF PowerInv, QueueInv, ReqInv
<1>1. ASSUME NEW d \in Clients, req'[d] = req[d]
      PROVE  AnswerOK(req[d])'
  BY <1>0, <1>1, AnswerKept DEF AnswersOK, AnswerOK, ReqInv
<1>2. ASSUME NEW d \in Clients, Unanswered(req'[d])
      PROVE  AnswerOK(req[d])'
  BY <1>2 DEF Unanswered, AnswerOK
<1>3. ASSUME NEW c \in Clients, NEW r, req' = [req EXCEPT ![c] = r],
             req'[c] = r => AnswerOK(req[c])'
      PROVE  AnswersOK'
  BY <1>0, <1>1, <1>3 DEF AnswersOK
<1>4. ASSUME NEW c \in Clients, NEW r, req' = [req EXCEPT ![c] = r], Unanswered(r)
      PROVE  AnswersOK'
  BY <1>2, <1>3, <1>4
<1>5. CASE UNCHANGED req
  BY <1>1, <1>5 DEF AnswersOK
<1>6. ASSUME NEW c \in Clients, NEW reply \in {"existing", "error"}, NEW op,
             Reply(c, reply, op)
      PROVE  AnswersOK'
  <2> DEFINE r == [req[c] EXCEPT !.pc = "replied", !.reply = reply, !.op = op]
  <2>1. req' = [req EXCEPT ![c] = r] /\ r.pc = "replied" /\ r.reply = reply
    BY <1>0, <1>6 DEF Reply, Requests
  <2>. HIDE DEF r
  <2>. QED
    BY <1>4, <2>1 DEF Unanswered
<1>7. ASSUME NEW c \in Clients, NEW pc \in {"check", "create", "unqueue"},
             req[c].pc # "replied", req' = [req EXCEPT ![c].pc = pc]
      PROVE  AnswersOK'
  <2> DEFINE r == [req[c] EXCEPT !.pc = pc]
  <2>1. req' = [req EXCEPT ![c] = r] /\ r.pc = pc /\ r.reply = req[c].reply
    BY <1>0, <1>7 DEF Requests
  <2>2. req[c].reply = "none"
    BY <1>7 DEF AnswersOK, AnswerOK
  <2>. HIDE DEF r
  <2>. QED
    BY <1>4, <2>1, <2>2 DEF Unanswered
<1>8. ASSUME NEW c \in Clients, NEW key, NEW s, NEW action, Ask(c, key, s, action)
      PROVE  AnswersOK'
  <2> DEFINE r == [NoRequest EXCEPT !.pc = "lookup", !.key = key, !.server = s,
                                    !.action = action]
  <2>1. req' = [req EXCEPT ![c] = r] /\ r.pc = "lookup" /\ r.reply = "none"
    BY <1>8 DEF Ask, NoRequest
  <2>. HIDE DEF r
  <2>. QED
    BY <1>4, <2>1 DEF Unanswered
<1>9. ASSUME NEW c \in Clients, Lookup(c) \/ Check(c)
      PROVE  AnswersOK'
  BY <1>6, <1>7, <1>9 DEF Lookup, Check
<1>10. ASSUME NEW c \in Clients, CreateQueued(c)
       PROVE  AnswersOK'
  <2>1. ASSUME NEW o \in Jobs, req' = [req EXCEPT ![c].pc = "enqueue", ![c].op = o]
        PROVE  AnswersOK'
    <3> DEFINE r == [req[c] EXCEPT !.pc = "enqueue", !.op = o]
    <3>1. req' = [req EXCEPT ![c] = r] /\ r.pc = "enqueue" /\ r.reply = req[c].reply
      BY <1>0, <2>1 DEF Requests
    <3>2. req[c].reply = "none"
      BY <1>10 DEF CreateQueued, AnswersOK, AnswerOK
    <3>. HIDE DEF r
    <3>. QED
      BY <1>4, <3>1, <3>2 DEF Unanswered
  <2>2. \/ \E o \in WithKey(req[c].key) : Reply(c, "existing", o)
        \/ Reply(c, "error", NoValue)
        \/ \E o \in Jobs : req' = [req EXCEPT ![c].pc = "enqueue", ![c].op = o]
    BY <1>10, Zenon DEF CreateQueued
  <2>. QED
    BY <1>6, <2>1, <2>2
<1>11. ASSUME NEW c \in Clients, EnqueueJob(c)
       PROVE  AnswersOK'
  <2> DEFINE r == [req[c] EXCEPT !.pc = "audit"]
  <2>1. /\ req' = [req EXCEPT ![c] = r] /\ r.pc = "audit" /\ r.reply = req[c].reply
        /\ r.op = req[c].op
    BY <1>0, <1>11 DEF EnqueueJob, Requests
  <2>2. req[c].reply = "none" /\ req[c].op \in Jobs
    BY <1>0, <1>11 DEF EnqueueJob, AnswersOK, AnswerOK, ReqInv, RequestOK
  <2>3. jobs'[req[c].op].status = "queued"
    <3> DEFINE row == [NoRow EXCEPT !.status = "queued", !.availableAt = now,
                                    !.createdAt = now]
    <3>1. jobs' = [jobs EXCEPT ![req[c].op] = row] /\ row.status = "queued"
      BY <1>11 DEF EnqueueJob, Enqueue, NoRow
    <3>. HIDE DEF row
    <3>. QED
      BY <1>0, <2>2, <3>1 DEF TypeOK
  <2>. HIDE DEF r
  <2>4. req'[c] = r => AnswerOK(req[c])'
    BY <2>1, <2>2, <2>3 DEF AnswerOK
  <2>. QED
    BY <1>3, <2>1, <2>4
<1>12. ASSUME NEW c \in Clients, AppendQueued(c)
       PROVE  AnswersOK'
  <2> DEFINE r == [req[c] EXCEPT !.pc = "replied", !.reply = "accepted", !.op = req[c].op]
  <2>1. /\ req' = [req EXCEPT ![c] = r] /\ r.pc = "replied" /\ r.reply = "accepted"
        /\ r.op = req[c].op
    BY <1>0, <1>12 DEF AppendQueued, Reply, Requests
  <2>2. /\ req[c].op \in Jobs /\ jobs[req[c].op].status # "absent"
        /\ jobs' = jobs /\ <<req[c].op, "queued">> \in audit'
    BY <1>0, <1>12 DEF AppendQueued, AnswersOK, AnswerOK, ReqInv, RequestOK
  <2>. HIDE DEF r
  <2>3. req'[c] = r => AnswerOK(req[c])'
    BY <2>1, <2>2 DEF AnswerOK
  <2>. QED
    BY <1>3, <2>1, <2>3
<1>13. ASSUME NEW c \in Clients, req[c].pc = "audit", req' = [req EXCEPT ![c].pc = "unaudit"]
       PROVE  AnswersOK'
  <2> DEFINE r == [req[c] EXCEPT !.pc = "unaudit"]
  <2>1. /\ req' = [req EXCEPT ![c] = r] /\ r.pc = "unaudit" /\ r.reply = req[c].reply
        /\ r.op = req[c].op
    BY <1>0, <1>13 DEF Requests
  <2>2. /\ req[c].reply = "none" /\ req[c].op \in Jobs
        /\ jobs[req[c].op].status # "absent"
    BY <1>0, <1>13 DEF AnswersOK, AnswerOK, ReqInv, RequestOK
  <2>3. jobs'[req[c].op].status # "absent"
    BY <2>2, JobsStay
  <2>. HIDE DEF r
  <2>4. req'[c] = r => AnswerOK(req[c])'
    BY <2>1, <2>2, <2>3 DEF AnswerOK
  <2>. QED
    BY <1>3, <2>1, <2>4
<1>14. ASSUME NEW c \in Clients, StatementError(c)
       PROVE  AnswersOK'
  BY <1>6, <1>7, <1>13, <1>14 DEF StatementError, AfterError
<1>15. ASSUME NEW c \in Clients, Finished(c)
       PROVE  AnswersOK'
  <2>1. Unanswered(NoRequest)
    BY DEF Unanswered, NoRequest
  <2>. QED
    BY <1>4, <1>15, <2>1 DEF Finished
<1>16. ASSUME NEW c \in Clients, Depart(c)
       PROVE  AnswersOK'
  <2> DEFINE r == [req[c] EXCEPT !.live = FALSE]
  <2>1. /\ req' = [req EXCEPT ![c] = r] /\ r.pc = req[c].pc /\ r.reply = req[c].reply
        /\ r.op = req[c].op /\ jobs' = jobs /\ audit' = audit
    BY <1>0, <1>16 DEF Depart, Requests, tableVars
  <2>. HIDE DEF r
  <2>2. req'[c] = r => AnswerOK(req[c])'
    BY <2>1 DEF AnswersOK, AnswerOK
  <2>. QED
    BY <1>3, <2>1, <2>2
<1>17. ASSUME NEW p \in Processes, Volatile(p)
       PROVE  AnswersOK'
  <2>1. Unanswered(NoRequest)
    BY DEF Unanswered, NoRequest
  <2>. QED
    BY <1>1, <1>2, <1>17, <2>1 DEF Volatile, AnswersOK
<1>18. ASSUME NEW c \in Clients, RequestAction(c) \/ RequestTrouble(c)
       PROVE  AnswersOK'
  <2>1. Compensate(c) => AnswersOK'
    BY <1>6 DEF Compensate
  <2>. QED
    BY <1>8, <1>9, <1>10, <1>11, <1>12, <1>14, <1>15, <1>16, <1>18, <2>1
    DEF RequestAction, RequestTrouble, HandlerStep, RequestFault
<1>19. ASSUME NEW p \in Processes, WorkerAction(p) \/ PowerCrash(p)
       PROVE  AnswersOK'
  BY <1>5, <1>17, <1>19 DEF WorkerAction, PollOrSettle, TakeOperation, PowerLeaseLost, PowerCrash
<1>20. ASSUME NEW p \in Processes,
              \/ PromptAction(p) \/ PollAction(p) \/ ExecutorTrouble(p)
              \/ \E s \in Servers : SyncInventory(p, s)
       PROVE  AnswersOK'
  BY <1>5, <1>20 DEF PromptAction, PollAction, ExecutorTrouble, SyncInventory
<1>. QED
  BY <1>5, <1>18, <1>19, <1>20 DEF PowerNext, PowerTick, powerVars, vars

(***************************************************************************)
(* A client is told 202 only with its operation's job in the table and the *)
(* request in the audit log, whatever fails or crashes meanwhile.          *)
(***************************************************************************)
THEOREM PowerAccepted == PowerSpec => []AcceptedIsQueued
<1>1. Init => AnswersOK
  BY DEF Init, AnswersOK, AnswerOK, NoRequest
<1>2. AnswersOK => AcceptedIsQueued
  BY DEF AnswersOK, AnswerOK, AcceptedIsQueued
<1>. QED
  BY <1>1, <1>2, AnswersNext, PowerInvariant, PTL DEF PowerSpec

-----------------------------------------------------------------------------
(* The remaining tables and counters, and type correctness as a whole.     *)

TablesOK ==
  /\ inv \in [Servers -> [state: RemoteStates, hidden: BOOLEAN]]
  /\ issued \in [Jobs -> Nat]
  /\ audit \subseteq Jobs \X ({"queued"} \cup Terminal)
  /\ faults \in Nat /\ departures \in Nat

\* UpdateRemote and a synchronisation write well-formed views.
LEMMA ViewUpdated ==
  ASSUME TablesOK, NEW s, NEW state \in RemoteStates, NEW hidden \in BOOLEAN,
         \/ inv' = [inv EXCEPT ![s] = [state |-> state, hidden |-> hidden]]
         \/ inv' = [inv EXCEPT ![s].state = state]
         \/ inv' = [inv EXCEPT ![s].hidden = hidden]
  PROVE  inv' \in [Servers -> [state: RemoteStates, hidden: BOOLEAN]]
BY DEF TablesOK

\* Every step keeps the remaining tables and counters well formed.
LEMMA TablesNext ==
  ASSUME PowerInv, TablesOK, [PowerNext]_vars
  PROVE  TablesOK'
<1>0. ReqInv /\ ExInv /\ TypeOK
  BY DEF PowerInv, QueueInv
<1>1. ASSUME UNCHANGED <<inv, issued, audit>>, faults' \in Nat, departures' \in Nat
      PROVE  TablesOK'
  BY <1>1 DEF TablesOK
<1>2. ASSUME NEW c \in Clients, RequestAction(c) \/ RequestTrouble(c)
      PROVE  TablesOK'
  <2>1. UNCHANGED <<inv, issued>>
    BY <1>2 DEF RequestAction, RequestTrouble, HandlerStep, Ask, Lookup, Check, CreateQueued,
                EnqueueJob, AppendQueued, Compensate, StatementError, Finished, Depart,
                RequestFault, tableVars
  <2>2. audit' \subseteq Jobs \X ({"queued"} \cup Terminal)
    <3>1. CASE AppendQueued(c)
      BY <1>0, <3>1 DEF AppendQueued, TablesOK, ReqInv, RequestOK
    <3>2. CASE UNCHANGED audit
      BY <3>2 DEF TablesOK
    <3>. QED
      BY <1>2, <3>1, <3>2
      DEF RequestAction, RequestTrouble, HandlerStep, Ask, Lookup, Check, CreateQueued,
          EnqueueJob, Compensate, StatementError, Finished, Depart, RequestFault, tableVars
  <2>3. faults' \in Nat /\ departures' \in Nat
    BY <1>2 DEF RequestAction, RequestTrouble, Depart, RequestFault, boundVars, TablesOK
  <2>. QED
    BY <2>1, <2>2, <2>3 DEF TablesOK
<1>3. ASSUME NEW p \in Processes, PromptAction(p) \/ PollAction(p) \/ ExecutorTrouble(p)
      PROVE  TablesOK'
  <2>1. ex[p].pc # "none" => proc[p].job \in Jobs
    BY <1>0 DEF ExInv, TypeOK, Executing
  <2>2. inv' \in [Servers -> [state: RemoteStates, hidden: BOOLEAN]]
    <3>1. CASE Record(p)
      BY <1>0, <3>1, ViewUpdated DEF Record, ExInv, ExecutionOK, TablesOK
    <3>2. CASE UNCHANGED inv
      BY <3>2 DEF TablesOK
    <3>. QED
      BY <1>3, <3>1, <3>2
      DEF PromptAction, PromptStep, PollAction, ExecutorTrouble, ExecutorFault, FindOperation,
          StartOperation, Inspect, Act, MarkVerifying, TimeOut, Recheck, Conclude,
          AppendOutcome, Poll, tableVars
  <2>3. issued' \in [Jobs -> Nat]
    <3>1. CASE Act(p) /\ ProviderWrites(p)
      <4>1. issued \in [Jobs -> Nat] /\ proc[p].job \in Jobs
        BY <2>1, <3>1 DEF Act, TablesOK
      <4>2. issued[proc[p].job] + 1 \in Nat
        BY <4>1
      <4>. QED
        BY <3>1, <4>1, <4>2 DEF ProviderWrites
    <3>2. CASE UNCHANGED issued
      BY <3>2 DEF TablesOK
    <3>. QED
      BY <1>3, <3>1, <3>2
      DEF PromptAction, PromptStep, PollAction, ExecutorTrouble, ExecutorFault, FindOperation,
          StartOperation, Inspect, Act, MarkVerifying, TimeOut, Record, Recheck, Conclude,
          AppendOutcome, Poll
  <2>4. audit' \subseteq Jobs \X ({"queued"} \cup Terminal)
    <3>1. CASE AppendOutcome(p)
      BY <1>0, <2>1, <3>1 DEF AppendOutcome, ExInv, ExecutionOK, TablesOK
    <3>2. CASE UNCHANGED audit
      BY <3>2 DEF TablesOK
    <3>. QED
      BY <1>3, <3>1, <3>2
      DEF PromptAction, PromptStep, PollAction, ExecutorTrouble, ExecutorFault, FindOperation,
          StartOperation, Inspect, Act, MarkVerifying, TimeOut, Record, Recheck, Conclude,
          Poll, tableVars
  <2>5. faults' \in Nat /\ departures' \in Nat
    BY <1>3 DEF PromptAction, PollAction, ExecutorTrouble, ExecutorFault, boundVars, TablesOK
  <2>. QED
    BY <2>2, <2>3, <2>4, <2>5 DEF TablesOK
<1>4. ASSUME NEW p \in Processes, NEW s \in Servers, SyncInventory(p, s)
      PROVE  TablesOK'
  <2>1. UNCHANGED <<issued, audit, faults, departures>>
    BY <1>4 DEF SyncInventory, boundVars
  <2>2. inv' \in [Servers -> [state: RemoteStates, hidden: BOOLEAN]]
    <3>1. CASE \E state \in RemoteStates :
                 inv' = [inv EXCEPT ![s] = [state |-> state, hidden |-> FALSE]]
      <4>1. FALSE \in BOOLEAN
        OBVIOUS
      <4>. QED
        BY <3>1, <4>1, ViewUpdated
    <3>2. CASE inv' = [inv EXCEPT ![s].hidden = TRUE]
      <4>1. inv[s].state \in RemoteStates /\ TRUE \in BOOLEAN
        BY DEF TablesOK
      <4>. QED
        BY <3>2, <4>1, ViewUpdated
    <3>. QED
      BY <1>4, <3>1, <3>2 DEF SyncInventory
  <2>. QED
    BY <2>1, <2>2 DEF TablesOK
<1>5. ASSUME NEW p \in Processes, WorkerAction(p) \/ PowerCrash(p)
      PROVE  TablesOK'
  BY <1>1, <1>5 DEF WorkerAction, PowerCrash, tableVars, boundVars, TablesOK
<1>6. CASE PowerTick \/ UNCHANGED vars
  BY <1>1, <1>6 DEF PowerTick, powerVars, vars, TablesOK
<1>. QED
  BY <1>2, <1>3, <1>4, <1>5, <1>6 DEF PowerNext

(***************************************************************************)
(* Type correctness of the whole system.                                   *)
(***************************************************************************)
THEOREM PowerTypeCorrect == PowerSpec => []PowerTypeOK
<1>1. Init => TablesOK
  <2>1. [state: RemoteStates, hidden: {FALSE}] \subseteq [state: RemoteStates, hidden: BOOLEAN]
    OBVIOUS
  <2>. SUFFICES ASSUME Init PROVE TablesOK
    OBVIOUS
  <2>2. inv \in [Servers -> [state: RemoteStates, hidden: BOOLEAN]]
    BY <2>1 DEF Init
  <2>3. issued \in [Jobs -> Nat] /\ audit = {} /\ faults \in Nat /\ departures \in Nat
    BY DEF Init
  <2>. QED
    BY <2>2, <2>3 DEF TablesOK
<1>2. PowerInv /\ TablesOK => PowerTypeOK
  BY DEF PowerInv, QueueInv, OpsInv, ReqInv, ExInv, RequestOK, ExecutionOK, TablesOK, PowerTypeOK
<1>. QED
  BY <1>1, <1>2, TablesNext, PowerInvariant, PTL DEF PowerSpec

(***************************************************************************)
(* At most one unfinished operation per server: CreateQueued inserts only  *)
(* for a server without a marker, and the marker outlasts every status but *)
(* a final one.                                                            *)
(***************************************************************************)
LEMMA ExclusiveNext ==
  ASSUME PowerInv, Lifecycle!OneUnfinishedPerServer, [PowerNext]_vars
  PROVE  Lifecycle!OneUnfinishedPerServer'
<1>. USE DEF Lifecycle!Unfinished, ActiveStatus
<1>0. OpsInv /\ ReqInv /\ ExInv /\ TypeOK
  BY DEF PowerInv, QueueInv
<1>1. CASE UNCHANGED ops
  BY <1>1 DEF Lifecycle!OneUnfinishedPerServer
<1>2. ASSUME NEW c \in Clients, NEW o \in Jobs, Accepts(c, o)
      PROVE  Lifecycle!OneUnfinishedPerServer'
  <2>1. /\ ops' = [ops EXCEPT ![o] = Accepted(req[c])]
        /\ Accepted(req[c]).server = req[c].server
    BY <1>2 DEF Accepts, Accepted
  <2>2. \A k \in Jobs : ops[k].status \in ActiveStatus => ops[k].server # req[c].server
    BY <1>0, <1>2 DEF Accepts, ServerFree, OpsInv
  <2>. QED
    BY <1>0, <2>1, <2>2 DEF Lifecycle!OneUnfinishedPerServer, OpsInv
<1>3. ASSUME NEW o \in Jobs, NEW next, Transition(o, next)
      PROVE  Lifecycle!OneUnfinishedPerServer'
  <2>1. ops[o] \in Operations
    BY <1>0 DEF OpsInv
  <2>2. Moved(ops[o], next).server = ops[o].server
    BY <2>1 DEF Moved, Operations
  <2>3. ops[o].status \in ActiveStatus
    BY <1>3 DEF Transition, CanMove, ValidTransition
  <2>. QED
    BY <1>0, <1>3, <2>2, <2>3 DEF Transition, Lifecycle!OneUnfinishedPerServer, OpsInv
<1>. QED
  BY <1>0, <1>1, <1>2, <1>3, OpsSteps

\* Two unfinished operations never share a server.
THEOREM PowerExclusive == PowerSpec => []Lifecycle!OneUnfinishedPerServer
<1>1. Init => Lifecycle!OneUnfinishedPerServer
  BY DEF Init, NoOperation, Lifecycle!OneUnfinishedPerServer, Lifecycle!Unfinished
<1>. QED
  BY <1>1, ExclusiveNext, PowerInvariant, PTL DEF PowerSpec

-----------------------------------------------------------------------------
(* Writes and claims.                                                      *)

\* The executions that may still write: a claim begins one, Act ends it.
Early == {"find", "start", "inspect", "act"}
Due(o) == {p \in Processes : ex[p].pc \in Early /\ proc[p].job = o}

WritesInv == \A o \in Jobs : issued[o] + Cardinality(Due(o)) <= jobs[o].attempts

\* p begins an execution, p carries out its write, or neither: then no execution
\* comes back before its write.
Begins(p, o) ==
  /\ ex[p].pc = "none" /\ ex'[p].pc = "find" /\ proc'[p].job = o
  /\ \A q \in Processes \ {p} : ex'[q] = ex[q] /\ proc'[q] = proc[q]
  /\ jobs'[o].attempts = jobs[o].attempts + 1
  /\ UNCHANGED issued

Writes(p) ==
  /\ ex[p].pc = "act" /\ ex'[p].pc \notin Early
  /\ \A q \in Processes \ {p} : ex'[q] = ex[q] /\ proc'[q] = proc[q]
  /\ issued' = [issued EXCEPT ![proc[p].job] = @ + 1]

StaysEarly(p) == ex'[p].pc \in Early => ex[p].pc \in Early /\ proc'[p].job = proc[p].job

Neither == UNCHANGED issued /\ \A p \in Processes : StaysEarly(p)

\* finishError ends the part of the execution that may write.
LEMMA ErrorIsLate ==
  ASSUME PowerInv, NEW p \in Processes, ex[p].pc # "none", NEW result, FinishError(p, result)
  PROVE  /\ ex'[p].pc \notin Early
         /\ \A q \in Processes \ {p} : ex'[q] = ex[q] /\ proc'[q] = proc[q]
<1> DEFINE e == [ex[p] EXCEPT !.pc = "recheck", !.result = result]
<1>1. e.pc = "recheck" /\ NoExecution.pc = "none"
  BY DEF PowerInv, ExInv, Executions, NoExecution
<1>2. Returns(p, result) \/ GoTo(p, e)
  BY DEF FinishError
<1>. HIDE DEF e
<1>. QED
  BY <1>1, <1>2, OneExecution DEF Early

\* The statements and calls of Execute.
LEMMA ExecutorWrites ==
  ASSUME PowerInv, NEW p \in Processes, PromptStep(p) \/ Poll(p)
  PROVE  Neither \/ Writes(p)
<1>0. ex[p].pc # "none" /\ ex[p] \in Executions
  BY DEF PromptStep, FindOperation, StartOperation, Inspect, Act, MarkVerifying, TimeOut,
         Record, Recheck, Conclude, AppendOutcome, Poll, PowerInv, ExInv
<1>1. NoExecution.pc = "none"
  BY DEF NoExecution
<1>2. ASSUME NEW result, FinishError(p, result), UNCHANGED issued PROVE Neither
  BY <1>0, <1>2, ErrorIsLate DEF Neither, StaysEarly
<1>3. ASSUME NEW result, Returns(p, result), UNCHANGED issued PROVE Neither
  BY <1>0, <1>1, <1>3, OneExecution DEF Neither, StaysEarly, Early
<1>4. ASSUME NEW e, GoTo(p, e), ex[p].pc \in Early \/ e.pc \notin Early, UNCHANGED issued
      PROVE  Neither
  BY <1>0, <1>4, OneExecution DEF Neither, StaysEarly
<1>5. CASE Act(p)
  <2>1. CASE ProviderWrites(p) /\ GoTo(p, [ex[p] EXCEPT !.pc = "mark"])
    <3> DEFINE e == [ex[p] EXCEPT !.pc = "mark"]
    <3>1. e.pc = "mark" /\ GoTo(p, e)
      BY <1>0, <2>1 DEF Executions
    <3>. HIDE DEF e
    <3>. QED
      BY <1>0, <1>5, <2>1, <3>1, OneExecution DEF Act, Writes, ProviderWrites, Early
  <2>2. CASE ProviderWrites(p) /\ FinishError(p, "retryable")
    BY <1>0, <1>5, <2>2, ErrorIsLate DEF Act, Writes, ProviderWrites
  <2>3. CASE (\E result \in ProviderErrors : FinishError(p, result)) /\ UNCHANGED issued
    BY <1>2, <2>3
  <2>. QED
    BY <1>5, <2>1, <2>2, <2>3 DEF Act
<1>6. CASE Poll(p)
  <2>1. ASSUME NEW state \in RemoteStates,
               GoTo(p, [ex[p] EXCEPT !.pc = "record", !.seen = state]), UNCHANGED issued
        PROVE  Neither
    <3> DEFINE e == [ex[p] EXCEPT !.pc = "record", !.seen = state]
    <3>1. e.pc = "record" /\ GoTo(p, e)
      BY <1>0, <2>1 DEF Executions
    <3>. HIDE DEF e
    <3>. QED
      BY <1>4, <2>1, <3>1 DEF Early
  <2>. QED
    BY <1>2, <1>6, <2>1 DEF Poll
<1>7. ASSUME NEW pc, NEW goal,
             \/ GoTo(p, [ex[p] EXCEPT !.pc = pc, !.goal = goal])
             \/ GoTo(p, [ex[p] EXCEPT !.pc = pc]),
             pc \in {"conclude", "audit"}, UNCHANGED issued
      PROVE  Neither
  <2>1. /\ [ex[p] EXCEPT !.pc = pc, !.goal = goal].pc = pc
        /\ [ex[p] EXCEPT !.pc = pc].pc = pc
    BY <1>0 DEF Executions
  <2>. QED
    BY <1>4, <1>7, <2>1 DEF Early
<1>8. CASE FindOperation(p) \/ StartOperation(p) \/ Inspect(p)
  <2>1. ex[p].pc \in Early /\ UNCHANGED issued
    BY <1>8 DEF FindOperation, StartOperation, Inspect, Early
  <2>2. \/ \E e : GoTo(p, e)
        \/ \E result : Returns(p, result)
        \/ \E result : FinishError(p, result)
    BY <1>8 DEF FindOperation, StartOperation, Inspect
  <2>. QED
    BY <1>2, <1>3, <1>4, <2>1, <2>2
<1>9. CASE MarkVerifying(p)
  <2> DEFINE e == [ex[p] EXCEPT !.pc = "verify", !.status = "verifying",
                                !.deadline = now + VerifyTimeout]
  <2>1. e.pc = "verify" /\ UNCHANGED issued
    BY <1>0, <1>9 DEF Executions, MarkVerifying
  <2>2. GoTo(p, e) \/ Returns(p, "permanent")
    BY <1>9 DEF MarkVerifying
  <2>. HIDE DEF e
  <2>. QED
    BY <1>3, <1>4, <2>1, <2>2 DEF Early
<1>10. CASE TimeOut(p) \/ Record(p) \/ Recheck(p) \/ Conclude(p) \/ AppendOutcome(p)
  BY <1>3, <1>7, <1>10 DEF TimeOut, Record, Recheck, Conclude, AppendOutcome
<1>. QED
  BY <1>5, <1>6, <1>8, <1>9, <1>10 DEF PromptStep

\* The steps of the whole system.
LEMMA WriteSteps ==
  ASSUME PowerInv, [PowerNext]_vars
  PROVE  \/ Neither
         \/ \E p \in Processes : Writes(p)
         \/ \E p \in Processes, o \in Jobs : Begins(p, o)
<1>0. /\ ex \in [Processes -> Executions] /\ proc \in [Processes -> Loops]
      /\ \A p \in Processes : ex[p].pc # "none" <=> proc[p].pc = "handling"
  BY DEF PowerInv, ExInv, QueueInv, TypeOK
<1>1. ASSUME UNCHANGED <<issued, ex, proc>> PROVE Neither
  BY <1>1 DEF Neither, StaysEarly
<1>2. NoExecution.pc = "none" /\ Begin.pc = "find"
  BY DEF NoExecution, Begin
<1>3. ASSUME NEW c \in Clients, RequestAction(c) \/ RequestTrouble(c)
      PROVE  UNCHANGED <<issued, ex, proc>>
  BY <1>3 DEF RequestAction, RequestTrouble
<1>4. ASSUME NEW p \in Processes, PollOrSettle(p), UNCHANGED issued PROVE Neither
  <2>1. ex' = ex /\ proc[p].pc # "handling"
        /\ \A q \in Processes \ {p} : proc'[q] = proc[q]
    BY <1>0, <1>4
    DEF PollOrSettle, StartPoll, LeaseNothing, Complete, Fail, Finish, Retry, Restart
  <2>2. ex[p].pc \notin Early
    BY <1>0, <2>1 DEF Early
  <2>. QED
    BY <1>4, <2>1, <2>2 DEF Neither, StaysEarly
<1>5. ASSUME NEW p \in Processes, TakeOperation(p), UNCHANGED issued
      PROVE  \E o \in Jobs : Begins(p, o)
  <2>1. PICK o \in Jobs : LeaseJob(p, o)
    BY <1>5 DEF TakeOperation
  <2>2. /\ proc' = [proc EXCEPT ![p] = Handling(o, jobs[o].attempts + 1,
                                               proc[p].at + LeaseDuration)]
        /\ jobs' = [jobs EXCEPT ![o] = Claimed(jobs[o], Owner[p],
                                               proc[p].at + LeaseDuration)]
        /\ proc[p].pc = "leasing"
    BY <2>1 DEF LeaseJob
  <2>3. /\ jobs \in [Jobs -> Rows] /\ jobs[o] \in Rows
        /\ proc[p].at + LeaseDuration \in Nat /\ Owner[p] \in Owners
    BY <1>0, DurationAssumption, OwnerAssumption DEF PowerInv, QueueInv, TypeOK, Loops
  <2>4. jobs'[o].attempts = jobs[o].attempts + 1
    BY <2>2, <2>3, ClaimTypes
  <2>5. proc'[p].job = o /\ \A q \in Processes \ {p} : proc'[q] = proc[q]
    BY <1>0, <2>2 DEF Handling
  <2>6. /\ ex[p].pc = "none" /\ ex'[p].pc = "find"
        /\ \A q \in Processes \ {p} : ex'[q] = ex[q]
    BY <1>0, <1>2, <1>5, <2>2 DEF TakeOperation
  <2>. QED
    BY <1>5, <2>4, <2>5, <2>6 DEF Begins
<1>6. ASSUME NEW p \in Processes, Volatile(p), proc' = [proc EXCEPT ![p] = Down],
             UNCHANGED issued
      PROVE  Neither
  <2>1. ex'[p] = NoExecution
        /\ \A q \in Processes \ {p} : ex'[q] = ex[q] /\ proc'[q] = proc[q]
    BY <1>0, <1>6 DEF Volatile
  <2>. QED
    BY <1>2, <1>6, <2>1 DEF Neither, StaysEarly, Early
<1>7. ASSUME NEW p \in Processes, WorkerAction(p) \/ PowerCrash(p)
      PROVE  Neither \/ \E o \in Jobs : Begins(p, o)
  BY <1>4, <1>5, <1>6, <1>7
  DEF WorkerAction, PowerLeaseLost, LeaseLost, PowerCrash, Crash
<1>8. ASSUME NEW p \in Processes, PromptAction(p) \/ PollAction(p)
      PROVE  Neither \/ Writes(p)
  BY <1>8, ExecutorWrites DEF PromptAction, PollAction
<1>9. ASSUME NEW p \in Processes, ExecutorTrouble(p)
      PROVE  Neither
  <2>1. ex[p].pc # "none" /\ UNCHANGED issued
    BY <1>9 DEF ExecutorTrouble, ExecutorFault
  <2>2. CASE FinishError(p, "permanent")
    BY <2>1, <2>2, ErrorIsLate DEF Neither, StaysEarly
  <2>3. CASE Returns(p, ErrorOf(p))
    BY <1>2, <2>1, <2>3, OneExecution DEF Neither, StaysEarly, Early
  <2>. QED
    BY <1>9, <2>2, <2>3 DEF ExecutorTrouble, ExecutorFault
<1>10. ASSUME NEW p \in Processes, NEW s \in Servers, SyncInventory(p, s)
       PROVE  UNCHANGED <<issued, ex, proc>>
  BY <1>10 DEF SyncInventory, queueVars
<1>11. PowerTick \/ UNCHANGED vars => UNCHANGED <<issued, ex, proc>>
  BY DEF PowerTick, PassTime, powerVars, queueVars, vars
<1>. QED
  BY <1>1, <1>3, <1>7, <1>8, <1>9, <1>10, <1>11 DEF PowerNext

\* Claims pay for the executions they begin, executions for their writes.
LEMMA WritesNext ==
  ASSUME IsFiniteSet(Processes), PowerInv, issued \in [Jobs -> Nat], WritesInv,
         [PowerNext]_vars
  PROVE  WritesInv'
<1>. SUFFICES ASSUME NEW o \in Jobs
              PROVE  issued'[o] + Cardinality(Due(o)') <= jobs'[o].attempts
  BY DEF WritesInv
<1>1. /\ jobs[o].attempts \in Nat /\ jobs'[o].attempts \in Nat
      /\ jobs'[o].attempts >= jobs[o].attempts
  BY QueueStep, AttemptsGrow DEF PowerInv
<1>2. /\ IsFiniteSet(Due(o)) /\ IsFiniteSet(Due(o)')
      /\ Cardinality(Due(o)) \in Nat /\ Cardinality(Due(o)') \in Nat
  <2>1. Due(o) \subseteq Processes /\ Due(o)' \subseteq Processes
    BY DEF Due
  <2>2. IsFiniteSet(Due(o)) /\ IsFiniteSet(Due(o)')
    BY <2>1, FS_Subset
  <2>. QED
    BY <2>2, FS_CardinalityType
<1>3. issued[o] \in Nat /\ issued[o] + Cardinality(Due(o)) <= jobs[o].attempts
  BY DEF WritesInv
<1>4. ASSUME Due(o)' \subseteq Due(o), issued'[o] = issued[o]
      PROVE  issued'[o] + Cardinality(Due(o)') <= jobs'[o].attempts
  <2>1. Cardinality(Due(o)') <= Cardinality(Due(o))
    BY <1>2, <1>4, FS_Subset
  <2>. QED
    BY <1>1, <1>2, <1>3, <1>4, <2>1
<1>5. CASE Neither
  BY <1>4, <1>5 DEF Neither, StaysEarly, Due
<1>6. ASSUME NEW p \in Processes, Writes(p)
      PROVE  issued'[o] + Cardinality(Due(o)') <= jobs'[o].attempts
  <2>1. Due(o)' = Due(o) \ {p} /\ (p \in Due(o) <=> proc[p].job = o)
    BY <1>6 DEF Writes, Due, Early
  <2>2. CASE proc[p].job # o
    BY <1>4, <1>6, <2>1, <2>2 DEF Writes
  <2>3. CASE proc[p].job = o
    <3>1. issued'[o] = issued[o] + 1
      BY <1>6, <2>3 DEF Writes
    <3>2. Cardinality(Due(o)') = Cardinality(Due(o)) - 1
      BY <1>2, <2>1, <2>3, FS_RemoveElement
    <3>. QED
      BY <1>1, <1>2, <1>3, <3>1, <3>2
  <2>. QED
    BY <2>2, <2>3
<1>7. ASSUME NEW p \in Processes, NEW k \in Jobs, Begins(p, k)
      PROVE  issued'[o] + Cardinality(Due(o)') <= jobs'[o].attempts
  <2>1. p \notin Due(o) /\ Due(o)' = IF k = o THEN Due(o) \cup {p} ELSE Due(o)
    BY <1>7 DEF Begins, Due, Early
  <2>2. CASE k # o
    BY <1>4, <1>7, <2>1, <2>2 DEF Begins
  <2>3. CASE k = o
    <3>1. issued'[o] = issued[o] /\ jobs'[o].attempts = jobs[o].attempts + 1
      BY <1>7, <2>3 DEF Begins
    <3>2. Cardinality(Due(o)') = Cardinality(Due(o)) + 1
      BY <1>2, <2>1, <2>3, FS_AddElement
    <3>. QED
      BY <1>1, <1>2, <1>3, <3>1, <3>2
  <2>. QED
    BY <2>2, <2>3
<1>. QED
  BY <1>5, <1>6, <1>7, WriteSteps

\* The counts hold in every reachable state.
LEMMA WritesInvariant ==
  ASSUME IsFiniteSet(Processes)
  PROVE  PowerSpec => [](PowerInv /\ TablesOK /\ WritesInv)
<1> DEFINE I == PowerInv /\ TablesOK /\ WritesInv
<1>1. Init => I
  <2>. SUFFICES ASSUME Init PROVE TablesOK /\ WritesInv
    BY PowerInvInit
  <2>1. TablesOK
    BY DEF Init, TablesOK
  <2>2. ASSUME NEW o \in Jobs PROVE issued[o] + Cardinality(Due(o)) <= jobs[o].attempts
    <3>1. Due(o) = {}
      BY DEF Init, Due, Early, NoExecution
    <3>. QED
      BY <3>1, FS_EmptySet DEF Init, QueueInit, NoRow
  <2>. QED
    BY <2>1, <2>2 DEF WritesInv
<1>2. I /\ [PowerNext]_vars => I'
  BY PowerInvNext, TablesNext, WritesNext DEF TablesOK
<1>. HIDE DEF I
<1>3. PowerSpec => []I
  BY <1>1, <1>2, PTL DEF PowerSpec
<1>. QED
  BY <1>3 DEF I

(***************************************************************************)
(* The provider is written to at most once for every claim of a job,       *)
(* whatever crashes, expires or gets lost between the write and its record *)
(* (executor.go:107): a repeated write is always a new attempt.            *)
(***************************************************************************)
THEOREM PowerWritesOnce ==
  ASSUME IsFiniteSet(Processes)
  PROVE  PowerSpec => []WritesOncePerAttempt
<1>1. PowerInv /\ TablesOK /\ WritesInv => WritesOncePerAttempt
  <2>. SUFFICES ASSUME PowerInv, TablesOK, WritesInv, NEW o \in Jobs
                PROVE  issued[o] <= jobs[o].attempts
    BY DEF WritesOncePerAttempt
  <2>1. Due(o) \subseteq Processes
    BY DEF Due
  <2>2. Cardinality(Due(o)) \in Nat
    BY <2>1, FS_Subset, FS_CardinalityType
  <2>3. issued[o] \in Nat /\ jobs[o].attempts \in Nat
    BY DEF TablesOK, PowerInv, QueueInv, TypeOK, Rows
  <2>. QED
    BY <2>2, <2>3 DEF WritesInv
<1>. QED
  BY <1>1, WritesInvariant, PTL

=============================================================================
