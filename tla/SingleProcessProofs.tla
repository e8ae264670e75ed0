------------------------- MODULE SingleProcessProofs -------------------------
(***************************************************************************)
(* What PowerOperations keeps when one process runs, which is how the      *)
(* application is deployed.  Then nobody claims a job while it is being    *)
(* executed and nobody synchronises the inventory meanwhile, so that the   *)
(* executor's local copies agree with the tables: the invariant says at    *)
(* each of its statements which status, and which view of the server, it   *)
(* works with.  Only a request that compensates may get in between.        *)
(***************************************************************************)
EXTENDS PowerOperationsProofs

\* What a request took back: it marked the operation failed before its audit
\* entry was written, and no request works with it any more.
Abandoned ==
  {o \in Jobs : /\ ops[o].status = "failed" /\ <<o, "queued">> \notin audit
                /\ \A c \in Clients : req[c].pc \in Doing => req[c].op # o}

\* The statuses an executor may find besides the one it works with.
Late(o, abandoned) == IF o \in abandoned THEN {"failed"} ELSE {}

\* What an execution that is about to make its next call knows of its operation
\* and of the view of its server.
Known(e, op, view, late) ==
  /\ e.pc = "start" => op.status \in {"queued"} \cup late
  /\ e.pc = "inspect" => /\ e.status \in {"running", "verifying"}
                         /\ op.status \in {e.status} \cup late
  /\ e.pc \in {"act", "mark"} => op.status \in {"running"} \cup late
  /\ e.pc = "verify" => op.status \in {"verifying"} \cup late
  /\ e.pc \in {"record", "recheck", "conclude"} =>
       op.status \in {"running", "verifying"} \cup late
  /\ e.pc = "audit" => op.status \in Terminal
  /\ e.pc \in {"act", "mark", "verify", "record"} => ~view.hidden
  /\ e.pc = "record" => VerificationTargetReached(op.action, e.seen)
  /\ e.pc = "conclude" => e.goal \in {"succeeded", "failed", "timed_out"}
  /\ e.pc = "conclude" /\ e.goal = "succeeded" =>
       VerificationTargetReached(op.action, view.state)

\* A handler that has returned left its operation finished or its job with an
\* attempt to come.
Settled(loop, op) ==
  loop.pc = "settling" =>
    ~op.active \/ (loop.result = "retryable" /\ loop.attempt < MaxAttempts)

LoopOK(p) ==
  Executing(p) => /\ OwnsLease(p)
                  /\ Known(ex[p], Op(p), inv[Op(p).server], Late(proc[p].job, Abandoned))

\* A logged operation is there, and each request past CreateQueued has one of
\* its own, which is not logged yet.
Logged == \A o \in Jobs : <<o, "queued">> \in audit => ops[o].status # "absent"

Apart ==
  \A c \in Clients : req[c].pc \in Past =>
    /\ <<req[c].op, "queued">> \notin audit
    /\ \A d \in Clients \ {c} : req[d].pc \in Past => req[d].op # req[c].op

AloneInv ==
  /\ \A p \in Processes : LoopOK(p)
  /\ Backed /\ Logged /\ Apart

-----------------------------------------------------------------------------
(* Requests and the audit log.                                             *)

\* The audit entry of a new operation is that of the request it belongs to.
LEMMA LogArrives ==
  ASSUME [PowerNext]_vars, NEW o \in Jobs, <<o, "queued">> \notin audit,
         <<o, "queued">> \in audit', PowerInv
  PROVE  \E c \in Clients : /\ req[c].pc = "audit" /\ req[c].op = o
                            /\ req'[c].pc = "replied"
<1>1. ASSUME NEW c \in Clients, AppendQueued(c)
      PROVE  req[c].pc = "audit" /\ req[c].op = o /\ req'[c].pc = "replied"
  BY <1>1 DEF AppendQueued, Reply, PowerInv, ReqInv, Requests
<1>2. ASSUME NEW p \in Processes, AppendOutcome(p)
      PROVE  FALSE
  BY <1>2 DEF AppendOutcome, PowerInv, ExInv, ExecutionOK, Executions, Terminal
<1>. QED
  BY <1>1, <1>2, AuditSteps

\* What is logged is there.
LEMMA LoggedNext ==
  ASSUME PowerInv, Backed, Logged, [PowerNext]_vars
  PROVE  Logged'
<1>. SUFFICES ASSUME NEW o \in Jobs, <<o, "queued">> \in audit' PROVE ops'[o].status # "absent"
  BY DEF Logged
<1>1. ops[o].status # "absent"
  BY LogArrives DEF Logged, Backed
<1>. QED
  BY <1>1, OpsStay

\* Requests keep their operations apart.
LEMMA ApartNext ==
  ASSUME PowerInv, Backed, Logged, Apart, [PowerNext]_vars
  PROVE  Apart'
<1>. SUFFICES ASSUME NEW c \in Clients, req'[c].pc \in Past
              PROVE  /\ <<req'[c].op, "queued">> \notin audit'
                     /\ \A d \in Clients \ {c} : req'[d].pc \in Past => req'[d].op # req'[c].op
  BY DEF Apart
<1>0. PowerInv' /\ \A d \in Clients : RequestMoves(d)
  BY PowerInvNext, RequestsMove
<1>1. req'[c].op \in Jobs
  BY <1>0 DEF PowerInv, ReqInv, RequestOK, Past
<1>2. \A d \in Clients : req[d].pc \in Past => ops[req[d].op].status # "absent"
  BY DEF Backed, Past
<1>3. CASE req[c].pc \in Past /\ req'[c].op = req[c].op
  <2>1. <<req'[c].op, "queued">> \notin audit'
    <3>. SUFFICES ASSUME <<req'[c].op, "queued">> \in audit' PROVE FALSE
      OBVIOUS
    <3>1. PICK d \in Clients : /\ req[d].pc = "audit" /\ req[d].op = req[c].op
                               /\ req'[d].pc = "replied"
      BY <1>1, <1>3, LogArrives DEF Apart
    <3>. QED
      BY <1>3, <3>1 DEF Apart, Past
  <2>2. ASSUME NEW d \in Clients \ {c}, req'[d].pc \in Past PROVE req'[d].op # req'[c].op
    BY <1>0, <1>2, <1>3, <2>2 DEF Apart, RequestMoves
  <2>. QED
    BY <2>1, <2>2
<1>4. CASE ops[req'[c].op].status = "absent" /\ \A d \in Clients \ {c} : req'[d] = req[d]
  <2>1. <<req'[c].op, "queued">> \notin audit'
    BY <1>1, <1>2, <1>4, LogArrives DEF Logged, Past
  <2>2. ASSUME NEW d \in Clients \ {c}, req'[d].pc \in Past PROVE req'[d].op # req'[c].op
    BY <1>2, <1>4, <2>2
  <2>. QED
    BY <2>1, <2>2
<1>. QED
  BY <1>0, <1>3, <1>4 DEF RequestMoves

\* What was taken back stays so.
LEMMA AbandonedStays ==
  ASSUME PowerInv, Backed, [PowerNext]_vars
  PROVE  Abandoned \subseteq Abandoned'
<1>. SUFFICES ASSUME NEW o \in Abandoned PROVE o \in Abandoned'
  OBVIOUS
<1>0. o \in Jobs /\ ops[o].status = "failed"
  BY DEF Abandoned
<1>1. ops'[o].status = "failed"
  <2>1. ASSUME NEW c \in Clients, NEW k \in Jobs, Accepts(c, k)
        PROVE  ops'[o].status = "failed"
    BY <1>0, <2>1 DEF Accepts, PowerInv, OpsInv
  <2>2. ASSUME NEW k \in Jobs, NEW next \in {"running", "verifying"} \cup Terminal,
               Transition(k, next)
        PROVE  ops'[o].status = "failed"
    BY <1>0, <2>2, Transits DEF Transition, CanMove, ValidTransition
  <2>. QED
    BY <1>0, <2>1, <2>2, OpsSteps DEF PowerInv, QueueInv
<1>2. <<o, "queued">> \notin audit'
  BY <1>0, LogArrives DEF Abandoned, Doing
<1>3. ASSUME NEW c \in Clients, req'[c].pc \in Doing PROVE req'[c].op # o
  BY <1>0, <1>3, RequestsMove DEF RequestMoves, Abandoned, Past, Doing
<1>. QED
  BY <1>0, <1>1, <1>2, <1>3 DEF Abandoned

-----------------------------------------------------------------------------
(* What the steps do to one loop.                                          *)

\* What an execution knows goes for more late statuses too.
LEMMA KnownMore ==
  ASSUME NEW e, NEW op, NEW view, NEW late, NEW more, Known(e, op, view, late),
         late \subseteq more
  PROVE  Known(e, op, view, more)
BY DEF Known

\* A compensation finishes the operation and leaves what its executor knows.
LEMMA KnownLate ==
  ASSUME NEW e, NEW op \in Operations, NEW view, NEW late, NEW more, Known(e, op, view, late),
         "failed" \in more
  PROVE  Known(e, Moved(op, "failed"), view, more)
<1>1. /\ Moved(op, "failed").status = "failed"
      /\ Moved(op, "failed").action = op.action
  BY DEF Moved, Operations
<1>. QED
  BY <1>1 DEF Known, Terminal

\* A loop whose row, operation and view nobody touches, but for a compensation.
LEMMA LoopFrame ==
  ASSUME PowerInv, NEW p \in Processes, LoopOK(p), Abandoned \subseteq Abandoned',
         proc'[p] = proc[p], ex'[p] = ex[p], inv' = inv,
         Executing(p) => jobs'[proc[p].job] = jobs[proc[p].job],
         Executing(p) => \/ ops'[proc[p].job] = ops[proc[p].job]
                         \/ /\ ops'[proc[p].job] = Moved(ops[proc[p].job], "failed")
                            /\ proc[p].job \in Abandoned'
  PROVE  LoopOK(p)'
<1> DEFINE j == proc[p].job
           late == Late(j, Abandoned)
           more == Late(j, Abandoned')
<1>. SUFFICES ASSUME Executing(p)'
              PROVE  OwnsLease(p)' /\ Known(ex[p], ops'[j], inv[ops'[j].server], more)
  BY DEF LoopOK, Op, Late
<1>1. Executing(p) /\ j \in Jobs
  BY DEF Executing, PowerInv, QueueInv, TypeOK
<1>2. OwnsLease(p) /\ Known(ex[p], ops[j], inv[ops[j].server], late)
  BY <1>1 DEF LoopOK, Op
<1>3. OwnsLease(p)'
  BY <1>1, <1>2 DEF OwnsLease
<1>4. late \subseteq more
  BY DEF Late
<1>5. j \in Abandoned' => "failed" \in more
  BY DEF Late
<1>. HIDE DEF late, more
<1>6. CASE ops'[j] = ops[j]
  BY <1>2, <1>3, <1>4, <1>6, KnownMore
<1>7. CASE ops'[j] = Moved(ops[j], "failed") /\ j \in Abandoned'
  <2>1. ops[j] \in Operations
    BY <1>1 DEF PowerInv, OpsInv
  <2>2. ops'[j].server = ops[j].server
    BY <1>7, <2>1 DEF Moved, Operations
  <2>3. Known(ex[p], ops'[j], inv[ops[j].server], more)
    BY <1>2, <1>5, <1>7, <2>1, KnownLate
  <2>. QED
    BY <1>3, <2>2, <2>3
<1>. QED
  BY <1>1, <1>6, <1>7

\* Where a step leaves a loop that has not failed.
Fine(p) == LoopOK(p)' /\ Settled(proc[p], Op(p))'

\* An execution that goes on, with what it then knows.
LEMMA Goes ==
  ASSUME PowerInv, NEW p \in Processes, LoopOK(p), ex[p].pc # "none", UNCHANGED jobs,
         Abandoned \subseteq Abandoned', NEW e, GoTo(p, e),
         Known(e, ops'[proc[p].job], inv'[ops'[proc[p].job].server],
               Late(proc[p].job, Abandoned))
  PROVE  Fine(p)
<1>1. proc' = proc /\ ex'[p] = e /\ proc[p].pc = "handling"
  BY DEF GoTo, PowerInv, ExInv
<1>2. OwnsLease(p)'
  BY <1>1 DEF LoopOK, Executing, OwnsLease
<1>3. Late(proc[p].job, Abandoned) \subseteq Late(proc[p].job, Abandoned')
  BY DEF Late
<1>4. Known(e, ops'[proc[p].job], inv'[ops'[proc[p].job].server],
            Late(proc[p].job, Abandoned'))
  BY <1>3, KnownMore
<1>5. LoopOK(p)'
  BY <1>1, <1>2, <1>4 DEF LoopOK, Op, Late
<1>6. Settled(proc[p], Op(p))'
  BY <1>1 DEF Settled
<1>. QED
  BY <1>5, <1>6 DEF Fine

\* One that returns keeps its lease.
LEMMA Ends ==
  ASSUME PowerInv, NEW p \in Processes, LoopOK(p), ex[p].pc # "none", UNCHANGED jobs,
         NEW result, Returns(p, result)
  PROVE  /\ LoopOK(p)'
         /\ proc'[p].pc = "settling" /\ proc'[p].job = proc[p].job
         /\ proc'[p].attempt = proc[p].attempt /\ proc'[p].result = result
<1>1. proc[p].pc = "handling" /\ proc[p] \in Loops /\ proc \in [Processes -> Loops]
      /\ ex \in [Processes -> Executions]
  BY DEF PowerInv, ExInv, QueueInv, TypeOK
<1>2. /\ proc'[p].job = proc[p].job /\ proc'[p].attempt = proc[p].attempt
      /\ proc'[p].expires = proc[p].expires /\ proc'[p].result = result
      /\ proc'[p].pc = "settling" /\ ex'[p].pc = "none"
  BY <1>1 DEF Returns, HandlerReturns, NoExecution, Loops
<1>3. OwnsLease(p)'
  BY <1>1, <1>2 DEF LoopOK, Executing, OwnsLease
<1>4. Known(ex[p], Op(p), inv[Op(p).server], Late(proc[p].job, Abandoned))'
  BY <1>2 DEF Known
<1>. QED
  BY <1>2, <1>3, <1>4 DEF LoopOK

\* It is settled if it has finished its operation or has an attempt left.
LEMMA Comes ==
  ASSUME PowerInv, NEW p \in Processes, LoopOK(p), ex[p].pc # "none", UNCHANGED jobs,
         NEW result, Returns(p, result),
         \/ ~ops'[proc[p].job].active
         \/ result = "retryable" /\ proc[p].attempt < MaxAttempts
  PROVE  Fine(p)
BY Ends DEF Fine, Settled, Op

\* finishError returns with an attempt left, or goes on to the re-check.
LEMMA Errs ==
  ASSUME PowerInv, NEW p \in Processes, LoopOK(p), ex[p].pc # "none", UNCHANGED jobs,
         Abandoned \subseteq Abandoned', UNCHANGED ops, NEW result, FinishError(p, result),
         Op(p).status \in {"running", "verifying"} \cup Late(proc[p].job, Abandoned)
  PROVE  Fine(p)
<1>1. CASE Returns(p, result) /\ result = "retryable" /\ proc[p].attempt < MaxAttempts
  BY <1>1, Comes
<1>2. CASE GoTo(p, [ex[p] EXCEPT !.pc = "recheck", !.result = result])
  <2> DEFINE e == [ex[p] EXCEPT !.pc = "recheck", !.result = result]
  <2>1. e.pc = "recheck"
    BY DEF PowerInv, ExInv, Executions
  <2>2. GoTo(p, e)
    BY <1>2
  <2>. HIDE DEF e
  <2>3. Known(e, ops'[proc[p].job], inv'[ops'[proc[p].job].server],
              Late(proc[p].job, Abandoned))
    BY <2>1 DEF Known, Op
  <2>. QED
    BY <2>2, <2>3, Goes
<1>. QED
  BY <1>1, <1>2 DEF FinishError

-----------------------------------------------------------------------------
(* The executor.                                                           *)

\* A status the executor works with is none of an operation that is not there.
LEMMA Begun ==
  ASSUME PowerInv, Backed, NEW p \in Processes, LoopOK(p), ex[p].pc # "none"
  PROVE  /\ proc[p].job \in Jobs /\ ops \in [Jobs -> Operations] /\ Op(p) \in Operations
         /\ Op(p).status # "absent" /\ Op(p).server \in Servers
         /\ Op(p).active <=> Op(p).status \in ActiveStatus
         /\ ex[p] \in Executions /\ ExecutionOK(ex[p])
         /\ Known(ex[p], Op(p), inv[Op(p).server], Late(proc[p].job, Abandoned))
<1>1. Executing(p) /\ proc[p].job \in Jobs
  BY DEF PowerInv, ExInv, QueueInv, TypeOK, Executing
<1>2. jobs[proc[p].job].status = "running"
  BY <1>1 DEF LoopOK, OwnsLease
<1>3. Op(p).status # "absent"
  BY <1>1, <1>2 DEF Backed, Op
<1>4. Op(p).server # NoValue /\ Op(p) \in Operations
  BY <1>1, <1>3 DEF PowerInv, OpsInv, Op
<1>. QED
  BY <1>1, <1>3, <1>4 DEF PowerInv, OpsInv, ExInv, Op, Operations, LoopOK

\* The statuses: what is not final can be moved on.
LEMMA Moves ==
  ASSUME NEW o \in Jobs, ops[o] \in Operations, ops[o].status # "absent",
         ops[o].active <=> ops[o].status \in ActiveStatus
  PROVE  /\ ops[o].active <=> ops[o].status \notin Terminal
         /\ ops[o].status = "queued" => CanMove(o, "running")
         /\ ops[o].status = "running" => CanMove(o, "verifying")
         /\ ops[o].status \in {"running", "verifying"} =>
              \A goal \in {"succeeded", "failed", "timed_out"} : CanMove(o, goal)
BY DEF Operations, ActiveStatus, Terminal, CanMove, ValidTransition

\* Every statement and call of Execute leaves its successor with what it knows.
LEMMA ExecutorSteps ==
  ASSUME PowerInv, TablesOK, Backed, NEW p \in Processes, LoopOK(p), UNCHANGED jobs,
         Abandoned \subseteq Abandoned', PromptStep(p) \/ Poll(p)
  PROVE  Fine(p)
<1> DEFINE j == proc[p].job
           late == Late(j, Abandoned)
<1>0. ex[p].pc # "none"
  BY DEF PromptStep, FindOperation, StartOperation, Inspect, Act, MarkVerifying, TimeOut,
         Record, Recheck, Conclude, AppendOutcome, Poll
<1>1. /\ j \in Jobs /\ ops \in [Jobs -> Operations] /\ ops[j] \in Operations
      /\ ops[j].status # "absent" /\ ops[j].server \in Servers
      /\ ops[j].active <=> ops[j].status \in ActiveStatus
      /\ ex[p] \in Executions /\ ExecutionOK(ex[p])
      /\ Known(ex[p], ops[j], inv[ops[j].server], late)
  BY <1>0, Begun DEF Op
<1>2. /\ ops[j].active <=> ops[j].status \notin Terminal
      /\ ops[j].status = "queued" => CanMove(j, "running")
      /\ ops[j].status = "running" => CanMove(j, "verifying")
      /\ ops[j].status \in {"running", "verifying"} =>
           \A goal \in {"succeeded", "failed", "timed_out"} : CanMove(j, goal)
  BY <1>1, Moves
<1>3. late \subseteq Terminal
  BY DEF Late, Terminal
<1>4. ASSUME NEW result, Returns(p, result), ~ops'[j].active
      PROVE  Fine(p)
  BY <1>0, <1>4, Comes
<1>5. ASSUME NEW result, FinishError(p, result), UNCHANGED ops,
             ops[j].status \in {"running", "verifying"} \cup late
      PROVE  Fine(p)
  BY <1>0, <1>5, Errs DEF Op
<1>6. CASE FindOperation(p)
  <2>1. UNCHANGED <<ops, inv>>
    BY <1>6 DEF FindOperation, tableVars
  <2>2. CASE ops[j].status \in Terminal /\ Returns(p, "ok")
    BY <1>2, <1>4, <2>1, <2>2
  <2>3. CASE ops[j].status = "queued" /\ GoTo(p, [ex[p] EXCEPT !.pc = "start"])
    <3> DEFINE e == [ex[p] EXCEPT !.pc = "start"]
    <3>1. e.pc = "start"
      BY <1>1 DEF Executions
    <3>2. GoTo(p, e)
      BY <2>3
    <3>. HIDE DEF e
    <3>3. Known(e, ops'[j], inv'[ops'[j].server], late)
      BY <2>1, <2>3, <3>1 DEF Known
    <3>. QED
      BY <1>0, <3>2, <3>3, Goes
  <2>4. CASE /\ ops[j].status \in {"running", "verifying"}
             /\ GoTo(p, [ex[p] EXCEPT !.pc = "inspect", !.status = ops[j].status])
    <3> DEFINE e == [ex[p] EXCEPT !.pc = "inspect", !.status = ops[j].status]
    <3>1. e.pc = "inspect" /\ e.status = ops[j].status
      BY <1>1 DEF Executions
    <3>2. GoTo(p, e)
      BY <2>4
    <3>. HIDE DEF e
    <3>3. Known(e, ops'[j], inv'[ops'[j].server], late)
      BY <2>1, <2>4, <3>1 DEF Known
    <3>. QED
      BY <1>0, <3>2, <3>3, Goes
  <2>. QED
    BY <1>6, <2>2, <2>3, <2>4 DEF FindOperation, Op
<1>7. CASE StartOperation(p)
  <2>1. ops[j].status \in {"queued"} \cup late /\ inv' = inv
    BY <1>1, <1>7 DEF StartOperation, Known
  <2>2. CASE Transition(j, "running")
             /\ GoTo(p, [ex[p] EXCEPT !.pc = "inspect", !.status = "running"])
    <3> DEFINE e == [ex[p] EXCEPT !.pc = "inspect", !.status = "running"]
    <3>1. e.pc = "inspect" /\ e.status = "running"
      BY <1>1 DEF Executions
    <3>2. GoTo(p, e) /\ ops'[j].status = "running"
      BY <1>1, <2>2, Transits
    <3>. HIDE DEF e
    <3>3. Known(e, ops'[j], inv'[ops'[j].server], late)
      BY <3>1, <3>2 DEF Known
    <3>. QED
      BY <1>0, <3>2, <3>3, Goes
  <2>3. CASE ~CanMove(j, "running") /\ Returns(p, "permanent") /\ UNCHANGED ops
    BY <1>2, <1>3, <1>4, <2>1, <2>3
  <2>. QED
    BY <1>7, <2>2, <2>3 DEF StartOperation
<1>8. CASE Inspect(p)
  <2>1. /\ ex[p].status \in {"running", "verifying"}
        /\ ops[j].status \in {ex[p].status} \cup late
        /\ UNCHANGED <<ops, inv>>
    BY <1>1, <1>8 DEF Inspect, Known, tableVars
  <2>2. ASSUME NEW state \in RemoteStates, GoTo(p, AfterInspection(p, state)),
               ~inv[ops[j].server].hidden
        PROVE  Fine(p)
    <3> DEFINE e == AfterInspection(p, state)
    <3>1. CASE ActionAlreadySatisfied(ops[j].action, state)
      <4>1. e.pc = "record" /\ e.seen = state
        BY <1>1, <3>1 DEF AfterInspection, Executions, Op
      <4>2. VerificationTargetReached(ops[j].action, state)
        BY <3>1 DEF VerificationTargetReached, ActionAlreadySatisfied
      <4>. HIDE DEF e
      <4>3. Known(e, ops'[j], inv'[ops'[j].server], late)
        BY <2>1, <2>2, <4>1, <4>2 DEF Known
      <4>. QED
        BY <1>0, <2>2, <4>3, Goes DEF e
    <3>2. CASE ~ActionAlreadySatisfied(ops[j].action, state) /\ ex[p].status = "verifying"
      <4>1. e.pc = "verify"
        BY <1>1, <3>2 DEF AfterInspection, Executions, Op
      <4>. HIDE DEF e
      <4>3. Known(e, ops'[j], inv'[ops'[j].server], late)
        BY <2>1, <2>2, <3>2, <4>1 DEF Known
      <4>. QED
        BY <1>0, <2>2, <4>3, Goes DEF e
    <3>3. CASE ~ActionAlreadySatisfied(ops[j].action, state) /\ ex[p].status # "verifying"
      <4>1. e.pc = "act"
        BY <1>1, <3>3 DEF AfterInspection, Executions, Op
      <4>. HIDE DEF e
      <4>3. Known(e, ops'[j], inv'[ops'[j].server], late)
        BY <2>1, <2>2, <3>3, <4>1 DEF Known
      <4>. QED
        BY <1>0, <2>2, <4>3, Goes DEF e
    <3>. QED
      BY <3>1, <3>2, <3>3
  <2>. QED
    BY <1>5, <1>8, <2>1, <2>2 DEF Inspect, Op
<1>9. CASE Act(p)
  <2>1. ops[j].status \in {"running"} \cup late /\ ~inv[ops[j].server].hidden
        /\ UNCHANGED <<ops, inv>>
    BY <1>1, <1>9 DEF Act, Known, tableVars
  <2>2. CASE GoTo(p, [ex[p] EXCEPT !.pc = "mark"])
    <3> DEFINE e == [ex[p] EXCEPT !.pc = "mark"]
    <3>1. e.pc = "mark"
      BY <1>1 DEF Executions
    <3>2. GoTo(p, e)
      BY <2>2
    <3>. HIDE DEF e
    <3>3. Known(e, ops'[j], inv'[ops'[j].server], late)
      BY <2>1, <3>1 DEF Known
    <3>. QED
      BY <1>0, <3>2, <3>3, Goes
  <2>. QED
    BY <1>5, <1>9, <2>1, <2>2 DEF Act
<1>10. CASE MarkVerifying(p)
  <2>1. ops[j].status \in {"running"} \cup late /\ ~inv[ops[j].server].hidden /\ inv' = inv
    BY <1>1, <1>10 DEF MarkVerifying, Known
  <2>2. CASE Transition(j, "verifying")
             /\ GoTo(p, [ex[p] EXCEPT !.pc = "verify", !.status = "verifying",
                                      !.deadline = now + VerifyTimeout])
    <3> DEFINE e == [ex[p] EXCEPT !.pc = "verify", !.status = "verifying",
                                  !.deadline = now + VerifyTimeout]
    <3>1. e.pc = "verify"
      BY <1>1 DEF Executions
    <3>2. GoTo(p, e) /\ ops'[j].status = "verifying" /\ ops'[j].server = ops[j].server
      BY <1>1, <2>2, Transits
    <3>. HIDE DEF e
    <3>3. Known(e, ops'[j], inv'[ops'[j].server], late)
      BY <2>1, <3>1, <3>2 DEF Known
    <3>. QED
      BY <1>0, <3>2, <3>3, Goes
  <2>3. CASE ~CanMove(j, "verifying") /\ Returns(p, "permanent") /\ UNCHANGED ops
    BY <1>2, <1>3, <1>4, <2>1, <2>3
  <2>. QED
    BY <1>10, <2>2, <2>3 DEF MarkVerifying
<1>11. CASE Poll(p) \/ TimeOut(p)
  <2>1. ops[j].status \in {"verifying"} \cup late /\ ~inv[ops[j].server].hidden
        /\ UNCHANGED <<ops, inv>>
    BY <1>1, <1>11 DEF Poll, TimeOut, Known, tableVars
  <2>2. ASSUME NEW state \in RemoteStates, VerificationTargetReached(ops[j].action, state),
               GoTo(p, [ex[p] EXCEPT !.pc = "record", !.seen = state])
        PROVE  Fine(p)
    <3> DEFINE e == [ex[p] EXCEPT !.pc = "record", !.seen = state]
    <3>1. e.pc = "record" /\ e.seen = state
      BY <1>1 DEF Executions
    <3>2. GoTo(p, e)
      BY <2>2
    <3>. HIDE DEF e
    <3>3. Known(e, ops'[j], inv'[ops'[j].server], late)
      BY <2>1, <2>2, <3>1 DEF Known
    <3>. QED
      BY <1>0, <3>2, <3>3, Goes
  <2>3. CASE GoTo(p, [ex[p] EXCEPT !.pc = "conclude", !.goal = "timed_out"])
    <3> DEFINE e == [ex[p] EXCEPT !.pc = "conclude", !.goal = "timed_out"]
    <3>1. e.pc = "conclude" /\ e.goal = "timed_out"
      BY <1>1 DEF Executions
    <3>2. GoTo(p, e)
      BY <2>3
    <3>. HIDE DEF e
    <3>3. Known(e, ops'[j], inv'[ops'[j].server], late)
      BY <2>1, <3>1 DEF Known
    <3>. QED
      BY <1>0, <3>2, <3>3, Goes
  <2>. QED
    BY <1>5, <1>11, <2>1, <2>2, <2>3 DEF Poll, TimeOut, Op
<1>12. CASE Record(p)
  <2>1. /\ ops[j].status \in {"running", "verifying"} \cup late
        /\ ~inv[ops[j].server].hidden
        /\ VerificationTargetReached(ops[j].action, ex[p].seen) /\ ops' = ops
    BY <1>1, <1>12 DEF Record, Known
  <2>2. /\ inv' = [inv EXCEPT ![ops[j].server].state = ex[p].seen]
        /\ GoTo(p, [ex[p] EXCEPT !.pc = "conclude", !.goal = "succeeded"])
    BY <1>12, <2>1 DEF Record, Op
  <2> DEFINE e == [ex[p] EXCEPT !.pc = "conclude", !.goal = "succeeded"]
  <2>3. e.pc = "conclude" /\ e.goal = "succeeded" /\ GoTo(p, e)
    BY <1>1, <2>2 DEF Executions
  <2>. HIDE DEF e
  <2>4. inv'[ops[j].server].state = ex[p].seen
    BY <1>1, <2>2 DEF TablesOK
  <2>5. Known(e, ops'[j], inv'[ops'[j].server], late)
    BY <2>1, <2>3, <2>4 DEF Known
  <2>. QED
    BY <1>0, <2>3, <2>5, Goes
<1>13. CASE Recheck(p)
  <2>1. ops[j].status \in {"running", "verifying"} \cup late /\ UNCHANGED <<ops, inv>>
    BY <1>1, <1>13 DEF Recheck, Known, tableVars
  <2>2. CASE GoTo(p, [ex[p] EXCEPT !.pc = "conclude", !.goal = "failed"])
    <3> DEFINE e == [ex[p] EXCEPT !.pc = "conclude", !.goal = "failed"]
    <3>1. e.pc = "conclude" /\ e.goal = "failed"
      BY <1>1 DEF Executions
    <3>2. GoTo(p, e)
      BY <2>2
    <3>. HIDE DEF e
    <3>3. Known(e, ops'[j], inv'[ops'[j].server], late)
      BY <2>1, <3>1 DEF Known
    <3>. QED
      BY <1>0, <3>2, <3>3, Goes
  <2>3. CASE ops[j].status \in Terminal /\ Returns(p, ex[p].result)
    BY <1>2, <1>4, <2>1, <2>3
  <2>. QED
    BY <1>13, <2>2, <2>3 DEF Recheck, Op
<1>14. CASE Conclude(p)
  <2>1. /\ ops[j].status \in {"running", "verifying"} \cup late
        /\ ex[p].goal \in {"succeeded", "failed", "timed_out"}
    BY <1>1, <1>14 DEF Conclude, Known
  <2>2. CASE Transition(j, ex[p].goal) /\ GoTo(p, [ex[p] EXCEPT !.pc = "audit"])
    <3> DEFINE e == [ex[p] EXCEPT !.pc = "audit"]
    <3>1. e.pc = "audit"
      BY <1>1 DEF Executions
    <3>2. GoTo(p, e) /\ ops'[j].status = ex[p].goal
      BY <1>1, <2>2, Transits
    <3>. HIDE DEF e
    <3>3. Known(e, ops'[j], inv'[ops'[j].server], late)
      BY <2>1, <3>1, <3>2 DEF Known, Terminal
    <3>. QED
      BY <1>0, <3>2, <3>3, Goes
  <2>3. CASE ~CanMove(j, ex[p].goal) /\ Returns(p, ErrorOf(p)) /\ UNCHANGED ops
    BY <1>2, <1>3, <1>4, <2>1, <2>3
  <2>. QED
    BY <1>14, <2>2, <2>3 DEF Conclude
<1>15. CASE AppendOutcome(p)
  <2>1. ops[j].status \in Terminal /\ ops' = ops
    BY <1>1, <1>15 DEF AppendOutcome, Known
  <2>. QED
    BY <1>2, <1>4, <1>15, <2>1 DEF AppendOutcome
<1>. QED
  BY <1>6, <1>7, <1>8, <1>9, <1>10, <1>11, <1>12, <1>13, <1>14, <1>15 DEF PromptStep

-----------------------------------------------------------------------------
(* Every step keeps what the loops know.                                   *)

\* A failing statement returns, but after the inventory lookup.
LEMMA TroubleKeeps ==
  ASSUME PowerInv, Backed, NEW p \in Processes, LoopOK(p), ExecutorTrouble(p),
         Abandoned \subseteq Abandoned'
  PROVE  LoopOK(p)'
<1>0. UNCHANGED <<jobs, ops>> /\ ex[p].pc # "none"
  BY DEF ExecutorTrouble, ExecutorFault, tableVars
<1>1. CASE Returns(p, ErrorOf(p))
  BY <1>0, <1>1, Ends
<1>2. CASE ex[p].pc = "inspect" /\ FinishError(p, "permanent")
  <2>1. Op(p).status \in {"running", "verifying"} \cup Late(proc[p].job, Abandoned)
    BY <1>0, <1>2, Begun DEF Known
  <2>. QED
    BY <1>0, <1>2, <2>1, Errs DEF Fine
<1>. QED
  BY <1>1, <1>2 DEF ExecutorTrouble, ExecutorFault

\* A request that takes its operation back abandons it.
LEMMA Abandons ==
  ASSUME PowerInv, Apart, NEW c \in Clients, Compensate(c), ops' # ops
  PROVE  /\ req[c].op \in Jobs /\ req[c].op \in Abandoned'
         /\ ops' = [ops EXCEPT ![req[c].op] = Moved(ops[req[c].op], "failed")]
<1> DEFINE o == req[c].op
<1>1. o \in Jobs /\ Transition(o, "failed") /\ audit' = audit
  BY DEF Compensate, PowerInv, ReqInv, RequestOK
<1>2. ops'[o].status = "failed" /\ ops' = [ops EXCEPT ![o] = Moved(ops[o], "failed")]
  BY <1>1, Transits DEF Transition
<1>3. <<o, "queued">> \notin audit'
  BY <1>1 DEF Apart, Compensate, Past
<1>4. req'[c].pc = "replied" /\ \A d \in Clients \ {c} : req'[d] = req[d]
  BY DEF Compensate, Reply, PowerInv, ReqInv, Requests
<1>5. ASSUME NEW d \in Clients, req'[d].pc \in Doing PROVE req'[d].op # o
  BY <1>4, <1>5 DEF Apart, Compensate, Past, Doing
<1>. QED
  BY <1>1, <1>2, <1>3, <1>5 DEF Abandoned

\* A request writes no row or operation a loop works with, but to compensate.
LEMMA RequestKeeps ==
  ASSUME PowerInv, Backed, Apart, NEW p \in Processes, LoopOK(p),
         Abandoned \subseteq Abandoned',
         NEW c \in Clients, RequestAction(c) \/ RequestTrouble(c)
  PROVE  LoopOK(p)'
<1> DEFINE j == proc[p].job
<1>1. proc' = proc /\ ex' = ex
  BY DEF RequestAction, RequestTrouble
<1>2. Executing(p) => /\ j \in Jobs /\ jobs[j].status = "running" /\ ops[j].status # "absent"
  BY DEF PowerInv, QueueInv, TypeOK, LoopOK, OwnsLease, Backed
<1>3. jobs \in [Jobs -> Rows] /\ ops \in [Jobs -> Operations]
  BY DEF PowerInv, QueueInv, TypeOK, OpsInv
<1>4. CASE CreateQueued(c)
  <2>1. inv' = inv /\ jobs' = jobs
    BY <1>4 DEF CreateQueued
  <2>2. Executing(p) => ops'[j] = ops[j]
    BY <1>2, <1>3, <1>4 DEF CreateQueued
  <2>. QED
    BY <1>1, <2>1, <2>2, LoopFrame
<1>5. CASE EnqueueJob(c)
  <2>1. inv' = inv /\ ops' = ops
    BY <1>5 DEF EnqueueJob, tableVars
  <2>2. Executing(p) => jobs'[j] = jobs[j]
    BY <1>2, <1>3, <1>5 DEF EnqueueJob, Enqueue
  <2>. QED
    BY <1>1, <2>1, <2>2, LoopFrame
<1>6. CASE Compensate(c)
  <2>1. inv' = inv /\ jobs' = jobs
    BY <1>6 DEF Compensate
  <2>2. Executing(p) => \/ ops'[j] = ops[j]
                        \/ ops'[j] = Moved(ops[j], "failed") /\ j \in Abandoned'
    BY <1>2, <1>3, <1>6, Abandons
  <2>. QED
    BY <1>1, <2>1, <2>2, LoopFrame
<1>7. CASE UNCHANGED <<ops, inv, jobs>>
  BY <1>1, <1>7, LoopFrame
<1>8. \/ CreateQueued(c) \/ EnqueueJob(c) \/ Compensate(c) \/ UNCHANGED <<ops, inv, jobs>>
  BY DEF RequestAction, RequestTrouble, HandlerStep, Ask, Lookup, Check, AppendQueued,
         StatementError, Finished, Depart, RequestFault, tableVars
<1>. QED
  BY <1>4, <1>5, <1>6, <1>7, <1>8

\* A worker that takes a job knows its lease and nothing else; any other step
\* of its loop ends an execution or comes before one.
LEMMA WorkerKeeps ==
  ASSUME PowerInv, NEW p \in Processes, LoopOK(p), WorkerAction(p) \/ PowerCrash(p)
  PROVE  LoopOK(p)'
<1>0. /\ jobs \in [Jobs -> Rows] /\ proc \in [Processes -> Loops]
      /\ ex \in [Processes -> Executions]
  BY DEF PowerInv, QueueInv, TypeOK, ExInv
<1>1. ASSUME proc'[p].pc \in {"idle", "down", "leasing"}
      PROVE  LoopOK(p)'
  BY <1>1 DEF LoopOK, Executing
<1>2. CASE StartPoll(p)
  BY <1>0, <1>1, <1>2 DEF StartPoll, Loop
<1>3. CASE \/ LeaseNothing(p) \/ Complete(p) \/ Fail(p) \/ Retry(p) \/ Restart(p)
           \/ PowerLeaseLost(p) \/ PowerCrash(p)
  <2>1. proc' = [proc EXCEPT ![p] = Idle] \/ proc' = [proc EXCEPT ![p] = Down]
    BY <1>3 DEF LeaseNothing, Complete, Fail, Finish, Retry, Restart, PowerLeaseLost, LeaseLost,
                PowerCrash, Crash
  <2>2. proc'[p].pc \in {"idle", "down"}
    BY <1>0, <2>1 DEF Idle, Down, Loop
  <2>. QED
    BY <1>1, <2>2
<1>4. ASSUME NEW j \in Jobs, LeaseJob(p, j), ex' = [ex EXCEPT ![p] = Begin]
      PROVE  LoopOK(p)'
  <2> DEFINE attempt == jobs[j].attempts + 1
             expires == proc[p].at + LeaseDuration
  <2>1. /\ proc' = [proc EXCEPT ![p] = Handling(j, attempt, expires)]
        /\ jobs' = [jobs EXCEPT ![j] = Claimed(jobs[j], Owner[p], expires)]
    BY <1>4 DEF LeaseJob
  <2>2. /\ jobs[j] \in Rows /\ expires \in Nat /\ Owner[p] \in Owners
    BY <1>0, DurationAssumption, OwnerAssumption DEF Loops
  <2>3. /\ jobs'[j].status = "running" /\ jobs'[j].owner = Owner[p]
        /\ jobs'[j].attempts = attempt /\ jobs'[j].expiresAt = expires
    BY <1>0, <2>1, <2>2, ClaimTypes
  <2>4. /\ proc'[p].job = j /\ proc'[p].attempt = attempt /\ proc'[p].expires = expires
        /\ proc'[p].pc = "handling"
    BY <1>0, <2>1 DEF Handling
  <2>5. OwnsLease(p)'
    BY <2>3, <2>4 DEF OwnsLease
  <2>6. ex'[p].pc = "find"
    BY <1>0, <1>4 DEF Begin, NoExecution
  <2>7. Known(ex[p], Op(p), inv[Op(p).server], Late(proc[p].job, Abandoned))'
    BY <2>6 DEF Known
  <2>. QED
    BY <2>5, <2>7 DEF LoopOK
<1>. QED
  BY <1>2, <1>3, <1>4 DEF WorkerAction, PollOrSettle, TakeOperation

\* With one process no other loop, and no synchronisation, comes between the
\* statements of an execution.
LEMMA LoopsNext ==
  ASSUME SingleProcess, PowerInv, TablesOK, Backed, Apart, NEW p \in Processes, LoopOK(p),
         [PowerNext]_vars
  PROVE  LoopOK(p)'
<1>0. Abandoned \subseteq Abandoned'
  BY AbandonedStays
<1>1. CASE PowerTick \/ UNCHANGED vars
  <2>1. UNCHANGED <<proc, ex, inv, jobs, ops>>
    BY <1>1 DEF PowerTick, PassTime, powerVars, vars, queueVars
  <2>. QED
    BY <1>0, <2>1, LoopFrame
<1>2. CASE \E s \in Servers : SyncInventory(p, s)
  BY <1>2 DEF SyncInventory, queueVars, LoopOK, Executing
<1>3. CASE PromptAction(p) \/ PollAction(p)
  BY <1>0, <1>3, ExecutorSteps DEF PromptAction, PollAction, Fine
<1>4. \A q \in Processes : q = p
  BY DEF SingleProcess
<1>5. \/ \E c \in Clients : RequestAction(c) \/ RequestTrouble(c)
      \/ WorkerAction(p) \/ PowerCrash(p)
      \/ PromptAction(p) \/ PollAction(p)
      \/ ExecutorTrouble(p)
      \/ \E s \in Servers : SyncInventory(p, s)
      \/ PowerTick \/ UNCHANGED vars
  BY <1>4 DEF PowerNext
<1>. QED
  BY <1>0, <1>1, <1>2, <1>3, <1>5, TroubleKeeps, RequestKeeps, WorkerKeeps

-----------------------------------------------------------------------------
(* The properties.                                                         *)

\* A row is finished by the worker whose handler gave it up or ran out of
\* attempts.
LEMMA RowLeaves ==
  ASSUME QueueInv, [OpenNext]_queueVars, NEW k \in Jobs,
         jobs[k].status \notin TerminalJob, jobs'[k].status \in TerminalJob
  PROVE  \E p \in Processes :
           /\ proc[p].pc = "settling" /\ proc[p].job = k /\ jobs[k].status = "running"
           /\ proc[p].result = "retryable" => jobs[k].attempts >= MaxAttempts
<1>0. jobs \in [Jobs -> Rows]
  BY DEF QueueInv, TypeOK
<1>1. jobs'[k] # jobs[k]
  OBVIOUS
<1>2. \A j \in Jobs : ~Enqueue(j)
  BY <1>0, <1>1 DEF Enqueue, NoRow, TerminalJob
<1>3. ASSUME NEW p \in Processes, NEW j \in Jobs, LeaseJob(p, j)
      PROVE  FALSE
  <2> DEFINE row == Claimed(jobs[j], Owner[p], proc[p].at + LeaseDuration)
  <2>1. row.status = "running"
    BY <1>0, ClaimTypes, DurationAssumption, OwnerAssumption DEF QueueInv, TypeOK, Loops
  <2>2. jobs' = [jobs EXCEPT ![j] = row]
    BY <1>3 DEF LeaseJob
  <2>. HIDE DEF row
  <2>. QED
    BY <1>0, <1>1, <2>1, <2>2 DEF TerminalJob
<1>4. ASSUME NEW p \in Processes, Complete(p) \/ Fail(p)
      PROVE  /\ proc[p].pc = "settling" /\ proc[p].job = k /\ jobs[k].status = "running"
             /\ proc[p].result # "retryable"
  BY <1>0, <1>1, <1>4 DEF Complete, Fail, Finish, HoldsRow
<1>5. ASSUME NEW p \in Processes, Retry(p)
      PROVE  /\ proc[p].pc = "settling" /\ proc[p].job = k /\ jobs[k].status = "running"
             /\ jobs[k].attempts >= MaxAttempts
  <2>1. proc[p].pc = "settling" /\ proc[p].job = k /\ jobs[k].status = "running"
    BY <1>0, <1>1, <1>5 DEF Retry, HoldsRow
  <2> DEFINE freed == Released(jobs[k], RetryStatus(jobs[k]))
             next == [freed EXCEPT !.availableAt = proc[p].at]
  <2>2. freed \in Rows /\ freed.status = RetryStatus(jobs[k])
    BY <1>0, RowTypes DEF RetryStatus, TerminalJob
  <2>3. next.status = RetryStatus(jobs[k])
    BY <2>2 DEF Rows
  <2>4. jobs'[k] = next
    BY <1>0, <1>5, <2>1 DEF Retry
  <2>. QED
    BY <2>1, <2>3, <2>4, <1>0, BoundAssumption DEF RetryStatus, TerminalJob, Rows
<1>. QED
  BY <1>1, <1>2, <1>3, <1>4, <1>5, NextCases
  DEF queueVars, LeaseNothing, LeaseLost, Restart, Crash, PassTime

\* An operation becomes active only by being accepted.
LEMMA ActiveBefore ==
  ASSUME PowerInv, [PowerNext]_vars, NEW o \in Jobs, ops[o].status # "absent", ops'[o].active
  PROVE  ops[o].active
<1>1. ASSUME NEW c \in Clients, NEW k \in Jobs, Accepts(c, k)
      PROVE  ops[o].active
  BY <1>1 DEF Accepts, PowerInv, OpsInv
<1>2. ASSUME NEW k \in Jobs, NEW next \in {"running", "verifying"} \cup Terminal,
             Transition(k, next)
      PROVE  ops[o].active
  <2>1. ops[k].status \in ActiveStatus
    BY <1>2 DEF Transition, CanMove, ValidTransition, ActiveStatus
  <2>2. o # k => ops'[o] = ops[o]
    BY <1>2, Transits
  <2>. QED
    BY <2>1, <2>2 DEF PowerInv, OpsInv
<1>. QED
  BY <1>1, <1>2, OpsSteps DEF PowerInv, QueueInv

\* An operation that is stranded, or will be when its worker settles.
Lost ==
  {o \in Jobs : /\ ops[o].active
                /\ \/ jobs[o].status \in TerminalJob
                   \/ \E p \in Processes : /\ proc[p].pc = "settling" /\ proc[p].job = o
                                           /\ ~Settled(proc[p], ops[o])}

LostInv == IsFiniteSet(Lost) /\ Cardinality(Lost) <= faults

\* A handler returns only in a step of its execution.
LEMMA Returned ==
  ASSUME SingleProcess, PowerInv, [PowerNext]_vars, NEW p \in Processes,
         proc'[p].pc = "settling", proc'[p] # proc[p]
  PROVE  PromptAction(p) \/ PollAction(p) \/ ExecutorTrouble(p)
<1>0. proc \in [Processes -> Loops]
  BY DEF PowerInv, QueueInv, TypeOK
<1>1. ~WorkerAction(p)
  <2>1. ASSUME NEW o \in Jobs, LeaseJob(p, o) PROVE FALSE
    BY <1>0, <2>1 DEF LeaseJob, Handling
  <2>2. ~StartPoll(p)
    BY <1>0 DEF StartPoll, Loop
  <2>3. ASSUME \/ LeaseNothing(p) \/ Complete(p) \/ Fail(p) \/ Retry(p) \/ Restart(p)
               \/ PowerLeaseLost(p)
        PROVE  FALSE
    <3>1. proc' = [proc EXCEPT ![p] = Idle] \/ proc' = [proc EXCEPT ![p] = Down]
      BY <2>3 DEF LeaseNothing, Complete, Fail, Finish, Retry, Restart, PowerLeaseLost, LeaseLost
    <3>. QED
      BY <1>0, <3>1 DEF Idle, Down, Loop
  <2>. QED
    BY <2>1, <2>2, <2>3 DEF WorkerAction, PollOrSettle, TakeOperation
<1>2. ~PowerCrash(p)
  BY <1>0 DEF PowerCrash, Crash, Down, Loop
<1>3. /\ \A c \in Clients : ~RequestAction(c) /\ ~RequestTrouble(c)
      /\ \A s \in Servers : ~SyncInventory(p, s)
      /\ ~PowerTick /\ ~UNCHANGED vars
  BY DEF RequestAction, RequestTrouble, SyncInventory, PowerTick, PassTime, queueVars, vars
<1>4. \A q \in Processes : q = p
  BY DEF SingleProcess
<1>. QED
  BY <1>1, <1>2, <1>3, <1>4 DEF PowerNext

\* An operation is lost only by a failing statement of its executor.
LEMMA LostOnlyByTrouble ==
  ASSUME SingleProcess, PowerInv, TablesOK, AloneInv, [PowerNext]_vars, NEW o \in Lost' \ Lost
  PROVE  \E p \in Processes : ExecutorTrouble(p) /\ o = proc[p].job
<1>0. o \in Jobs /\ ops'[o].active /\ Abandoned \subseteq Abandoned'
  BY AbandonedStays DEF Lost, AloneInv
<1>1. [OpenNext]_queueVars /\ QueueInv /\ PowerInv'
  BY QueueStep, PowerInvNext DEF PowerInv, QueueInv
<1>2. jobs[o].status # "absent" => ops[o].active
  BY <1>0, ActiveBefore DEF AloneInv, Backed
<1>3. CASE jobs'[o].status \in TerminalJob
  <2>1. jobs[o].status \notin TerminalJob
    BY <1>0, <1>2 DEF Lost, TerminalJob
  <2>2. PICK p \in Processes :
          /\ proc[p].pc = "settling" /\ proc[p].job = o /\ jobs[o].status = "running"
          /\ proc[p].result = "retryable" => jobs[o].attempts >= MaxAttempts
    BY <1>0, <1>1, <1>3, <2>1, RowLeaves
  <2>3. ops[o].active /\ jobs[o].attempts \in Nat /\ MaxAttempts \in Nat
    BY <1>0, <1>1, <1>2, <2>2, BoundAssumption DEF QueueInv, TypeOK, Rows
  <2>4. jobs[o].attempts = proc[p].attempt
    BY <2>2 DEF AloneInv, LoopOK, Executing, OwnsLease
  <2>5. ~Settled(proc[p], ops[o])
    BY <2>2, <2>3, <2>4 DEF Settled
  <2>. QED
    BY <1>0, <2>2, <2>3, <2>5 DEF Lost
<1>4. ASSUME NEW p \in Processes, proc'[p].pc = "settling", proc'[p].job = o,
             ~Settled(proc'[p], ops'[o])
      PROVE  ExecutorTrouble(p) /\ o = proc[p].job
  <2>1. CASE proc'[p] = proc[p]
    <3>1. jobs[o].status = "running"
      BY <1>4, <2>1 DEF AloneInv, LoopOK, Executing, OwnsLease
    <3>2. ops[o].active
      BY <1>2, <3>1
    <3>. QED
      BY <1>0, <1>4, <2>1, <3>2 DEF Lost, Settled
  <2>2. CASE proc'[p] # proc[p]
    <3>1. PromptAction(p) \/ PollAction(p) \/ ExecutorTrouble(p)
      BY <1>4, <2>2, Returned
    <3>2. ~(PromptAction(p) \/ PollAction(p))
      <4>1. PromptAction(p) \/ PollAction(p) => Fine(p)
        BY <1>0, ExecutorSteps DEF PromptAction, PollAction, AloneInv
      <4>. QED
        BY <1>4, <4>1 DEF Fine, Op
    <3>3. ExecutorTrouble(p)
      BY <3>1, <3>2
    <3>4. ex[p].pc # "none" /\ UNCHANGED jobs
      BY <3>3 DEF ExecutorTrouble, ExecutorFault
    <3>5. proc'[p].job = proc[p].job
      <4>1. ASSUME NEW result, Returns(p, result) PROVE proc'[p].job = proc[p].job
        BY <3>4, <4>1, Ends DEF AloneInv
      <4>2. CASE UNCHANGED proc
        BY <4>2
      <4>. QED
        BY <3>3, <4>1, <4>2 DEF ExecutorTrouble, ExecutorFault, FinishError, GoTo
    <3>. QED
      BY <1>4, <3>3, <3>5
  <2>. QED
    BY <2>1, <2>2
<1>. QED
  BY <1>0, <1>3, <1>4 DEF Lost

\* Faults are only counted up.
LEMMA FaultsGrow ==
  ASSUME TablesOK, [PowerNext]_vars
  PROVE  faults' \in Nat /\ faults <= faults'
BY DEF TablesOK, PowerNext, RequestAction, RequestTrouble, Depart, RequestFault, WorkerAction,
       PromptAction, PollAction, ExecutorTrouble, ExecutorFault, PowerCrash, SyncInventory,
       PowerTick, powerVars, boundVars, vars

\* So there are never more of them than failed statements.
LEMMA LostNext ==
  ASSUME SingleProcess, PowerInv, TablesOK, AloneInv, LostInv, [PowerNext]_vars
  PROVE  LostInv'
<1>0. faults \in Nat /\ Cardinality(Lost) \in Nat
  BY FS_CardinalityType DEF TablesOK, LostInv
<1>1. ASSUME NEW p \in Processes, ExecutorTrouble(p)
      PROVE  LostInv'
  <2>1. faults' = faults + 1
    BY <1>1 DEF ExecutorTrouble, ExecutorFault
  <2>2. Lost' \subseteq Lost \cup {proc[p].job}
    BY LostOnlyByTrouble DEF SingleProcess
  <2>3. /\ IsFiniteSet(Lost \cup {proc[p].job})
        /\ Cardinality(Lost \cup {proc[p].job}) <= Cardinality(Lost) + 1
    BY <1>0, FS_AddElement DEF LostInv
  <2>4. IsFiniteSet(Lost') /\ Cardinality(Lost') <= Cardinality(Lost \cup {proc[p].job})
    BY <2>2, <2>3, FS_Subset
  <2>5. Cardinality(Lost') \in Nat /\ Cardinality(Lost \cup {proc[p].job}) \in Nat
    BY <2>3, <2>4, FS_CardinalityType
  <2>. QED
    BY <1>0, <2>1, <2>3, <2>4, <2>5 DEF LostInv
<1>2. CASE \A p \in Processes : ~ExecutorTrouble(p)
  <2>1. Lost' \subseteq Lost
    BY <1>2, LostOnlyByTrouble
  <2>2. IsFiniteSet(Lost') /\ Cardinality(Lost') <= Cardinality(Lost)
    BY <2>1, FS_Subset DEF LostInv
  <2>3. faults' \in Nat /\ faults <= faults' /\ Cardinality(Lost') \in Nat
    BY <1>0, <2>2, FS_CardinalityType, FaultsGrow
  <2>. QED
    BY <1>0, <2>2, <2>3 DEF LostInv
<1>. QED
  BY <1>1, <1>2

\* Only Conclude writes that an operation succeeded.
LEMMA SucceedsOnlyHere ==
  ASSUME PowerInv, [PowerNext]_vars, NEW o \in Jobs,
         ops'[o].status = "succeeded", ops[o].status # "succeeded"
  PROVE  \E p \in Processes : Conclude(p) /\ proc[p].job = o /\ ex[p].goal = "succeeded"
<1>0. ops' # ops /\ ops \in [Jobs -> Operations]
  BY DEF PowerInv, OpsInv
<1>1. ASSUME NEW k \in Jobs, NEW next, Transition(k, next)
      PROVE  k = o /\ next = "succeeded"
  BY <1>1, Transits
<1>2. ASSUME NEW c \in Clients, CreateQueued(c)
      PROVE  FALSE
  BY <1>0, <1>2 DEF CreateQueued
<1>3. ASSUME NEW c \in Clients, Compensate(c)
      PROVE  FALSE
  BY <1>0, <1>1, <1>3 DEF Compensate, PowerInv, ReqInv, RequestOK
<1>4. ASSUME NEW c \in Clients, RequestAction(c) \/ RequestTrouble(c)
      PROVE  FALSE
  BY <1>0, <1>2, <1>3, <1>4
  DEF RequestAction, RequestTrouble, HandlerStep, Ask, Lookup, Check, EnqueueJob, AppendQueued,
      StatementError, Finished, Depart, RequestFault, tableVars
<1>5. ASSUME NEW p \in Processes, ex[p].pc # "none"
      PROVE  proc[p].job \in Jobs
  BY <1>5 DEF PowerInv, ExInv, QueueInv, TypeOK, Executing
<1>6. ASSUME NEW p \in Processes, StartOperation(p) \/ MarkVerifying(p)
      PROVE  FALSE
  BY <1>0, <1>1, <1>5, <1>6 DEF StartOperation, MarkVerifying
<1>7. ASSUME NEW p \in Processes, Conclude(p)
      PROVE  proc[p].job = o /\ ex[p].goal = "succeeded"
  BY <1>0, <1>1, <1>5, <1>7 DEF Conclude
<1>8. ASSUME NEW p \in Processes, PromptAction(p) \/ PollAction(p) \/ ExecutorTrouble(p)
      PROVE  Conclude(p)
  BY <1>0, <1>6, <1>8
  DEF PromptAction, PromptStep, PollAction, ExecutorTrouble, FindOperation, Inspect, Act,
      TimeOut, Record, Recheck, AppendOutcome, Poll, ExecutorFault, tableVars
<1>9. ASSUME NEW p \in Processes,
             \/ WorkerAction(p) \/ PowerCrash(p) \/ \E s \in Servers : SyncInventory(p, s)
      PROVE  FALSE
  BY <1>0, <1>9 DEF WorkerAction, PowerCrash, SyncInventory, tableVars
<1>10. ~PowerTick /\ ~UNCHANGED vars
  BY <1>0 DEF PowerTick, powerVars, vars
<1>. QED
  BY <1>4, <1>7, <1>8, <1>9, <1>10 DEF PowerNext

\* Only Act has the provider write.
LEMMA WritesOnlyHere ==
  ASSUME PowerInv, TablesOK, [PowerNext]_vars, NEW o \in Jobs, issued'[o] # issued[o]
  PROVE  \E p \in Processes : Act(p) /\ proc[p].job = o
<1>0. issued' # issued /\ issued \in [Jobs -> Nat]
  BY DEF TablesOK
<1>1. ASSUME NEW p \in Processes, Act(p)
      PROVE  proc[p].job = o
  BY <1>0, <1>1 DEF Act, ProviderWrites
<1>2. ASSUME NEW p \in Processes, PromptAction(p) \/ PollAction(p) \/ ExecutorTrouble(p)
      PROVE  Act(p)
  BY <1>0, <1>2
  DEF PromptAction, PromptStep, PollAction, ExecutorTrouble, FindOperation, StartOperation,
      Inspect, MarkVerifying, TimeOut, Record, Recheck, Conclude, AppendOutcome, Poll,
      ExecutorFault
<1>3. ASSUME NEW p \in Processes,
             \/ WorkerAction(p) \/ PowerCrash(p) \/ \E s \in Servers : SyncInventory(p, s)
      PROVE  FALSE
  BY <1>0, <1>3 DEF WorkerAction, PowerCrash, SyncInventory
<1>4. \A c \in Clients : ~RequestAction(c) /\ ~RequestTrouble(c)
  BY <1>0 DEF RequestAction, RequestTrouble
<1>5. ~PowerTick /\ ~UNCHANGED vars
  BY <1>0 DEF PowerTick, powerVars, vars
<1>. QED
  BY <1>1, <1>2, <1>3, <1>4, <1>5 DEF PowerNext

\* The invariant holds initially and is kept.
LEMMA AloneInit == Init => AloneInv /\ TablesOK /\ LostInv
<1>. SUFFICES ASSUME Init PROVE AloneInv /\ TablesOK /\ LostInv
  OBVIOUS
<1>1. \A p \in Processes : LoopOK(p)
  BY DEF Init, QueueInit, LoopOK, Executing, Idle, Loop
<1>2. Backed /\ Logged /\ Apart
  BY DEF Init, QueueInit, Backed, NoRow, NoRequest, Logged, Apart, Past
<1>3. Lost = {}
  BY DEF Init, Lost, NoOperation
<1>4. [state: RemoteStates, hidden: {FALSE}] \subseteq [state: RemoteStates, hidden: BOOLEAN]
  OBVIOUS
<1>5. inv \in [Servers -> [state: RemoteStates, hidden: BOOLEAN]]
  BY <1>4 DEF Init
<1>6. issued \in [Jobs -> Nat] /\ audit = {} /\ faults = 0 /\ departures \in Nat
  BY DEF Init
<1>7. TablesOK
  BY <1>5, <1>6 DEF TablesOK
<1>8. LostInv
  BY <1>3, <1>6, FS_EmptySet DEF LostInv
<1>. QED
  BY <1>1, <1>2, <1>7, <1>8 DEF AloneInv

\* With one process, every reachable state satisfies it.
LEMMA AloneInvariant ==
  ASSUME SingleProcess
  PROVE  PowerSpec => [](PowerInv /\ TablesOK /\ AloneInv /\ LostInv)
<1> DEFINE Inv == PowerInv /\ TablesOK /\ AloneInv /\ LostInv
<1>1. Init => Inv
  BY PowerInvInit, AloneInit
<1>2. Inv /\ [PowerNext]_vars => Inv'
  <2>. SUFFICES ASSUME Inv, [PowerNext]_vars PROVE Inv'
    OBVIOUS
  <2>1. PowerInv' /\ TablesOK'
    BY PowerInvNext, TablesNext
  <2>2. \A p \in Processes : LoopOK(p)'
    BY LoopsNext DEF AloneInv
  <2>3. Backed' /\ Logged' /\ Apart'
    BY BackedNext, LoggedNext, ApartNext DEF AloneInv
  <2>4. LostInv'
    BY LostNext
  <2>. QED
    BY <2>1, <2>2, <2>3, <2>4 DEF AloneInv
<1>. HIDE DEF Inv
<1>3. PowerSpec => []Inv
  BY <1>1, <1>2, PTL DEF PowerSpec
<1>. QED
  BY <1>3 DEF Inv

(***************************************************************************)
(* In the deployed application every operation whose job is finished       *)
(* before it is has a failed database statement to answer for it: no error *)
(* of the provider, exhausted attempt, compensation or crash leaves the    *)
(* server's marker behind, since RunOnce settles a job only after          *)
(* finishError or Conclude, or with an attempt to come.                    *)
(***************************************************************************)
THEOREM SingleStranded ==
  ASSUME SingleProcess
  PROVE  PowerSpec => []StrandedOnlyByFaults
<1>1. ASSUME TablesOK, LostInv
      PROVE  StrandedOnlyByFaults
  <2>1. Stranded \subseteq Lost
    BY DEF Stranded, Lost
  <2>2. IsFiniteSet(Stranded) /\ Cardinality(Stranded) <= Cardinality(Lost)
    BY <1>1, <2>1, FS_Subset DEF LostInv
  <2>3. Cardinality(Stranded) \in Nat /\ Cardinality(Lost) \in Nat /\ faults \in Nat
    BY <1>1, <2>2, FS_CardinalityType DEF LostInv, TablesOK
  <2>. QED
    BY <1>1, <2>2, <2>3 DEF LostInv, StrandedOnlyByFaults
<1>. QED
  BY <1>1, AloneInvariant, PTL

(***************************************************************************)
(* succeed writes the inventory before the status, and nothing comes       *)
(* between the two: an operation is marked succeeded only where the        *)
(* inventory shows the state its action aims at, faults, departing clients *)
(* and crashes included.                                                   *)
(***************************************************************************)
THEOREM SingleSuccess ==
  ASSUME SingleProcess
  PROVE  PowerSpec => SuccessIsRecorded
<1>1. ASSUME PowerInv, AloneInv, [PowerNext]_vars, NEW o \in Jobs,
             ops'[o].status = "succeeded", ops[o].status # "succeeded"
      PROVE  VerificationTargetReached(ops[o].action, inv[ops[o].server].state)
  <2>1. PICK p \in Processes : Conclude(p) /\ proc[p].job = o /\ ex[p].goal = "succeeded"
    BY <1>1, SucceedsOnlyHere
  <2>2. ex[p].pc = "conclude" /\ Executing(p)
    BY <1>1, <2>1 DEF Conclude, PowerInv, ExInv, Executing
  <2>. QED
    BY <1>1, <2>1, <2>2 DEF AloneInv, LoopOK, Known, Op
<1>2. PowerInv /\ TablesOK /\ AloneInv /\ [PowerNext]_vars =>
        [\A o \in Jobs :
           ops'[o].status = "succeeded" /\ ops[o].status # "succeeded" =>
             VerificationTargetReached(ops[o].action, inv[ops[o].server].state)]_vars
  BY <1>1
<1>. QED
  BY <1>2, AloneInvariant, PTL DEF PowerSpec, SuccessIsRecorded

(***************************************************************************)
(* StartServer, StopServer and RebootServer are called only for an         *)
(* operation that is still running or that its own request took back       *)
(* meanwhile, whatever fails, departs, crashes or is repeated.             *)
(***************************************************************************)
THEOREM SingleWrites ==
  ASSUME SingleProcess
  PROVE  PowerSpec => WritesOnlyWhileActive
<1>1. ASSUME PowerInv, TablesOK, AloneInv, [PowerNext]_vars, NEW o \in Jobs,
             issued'[o] # issued[o]
      PROVE  \/ ops[o].active
             \/ ops[o].status = "failed" /\ <<o, "queued">> \notin audit
  <2>1. PICK p \in Processes : Act(p) /\ proc[p].job = o
    BY <1>1, WritesOnlyHere
  <2>2. ex[p].pc = "act" /\ Executing(p)
    BY <1>1, <2>1 DEF Act, PowerInv, ExInv, Executing
  <2>3. ops[o].status \in {"running"} \cup Late(o, Abandoned)
    BY <1>1, <2>1, <2>2 DEF AloneInv, LoopOK, Known, Op
  <2>. QED
    BY <1>1, <2>3 DEF PowerInv, OpsInv, ActiveStatus, Late, Abandoned
<1>2. PowerInv /\ TablesOK /\ AloneInv /\ [PowerNext]_vars =>
        [\A o \in Jobs : issued'[o] # issued[o] =>
           \/ ops[o].active
           \/ ops[o].status = "failed" /\ <<o, "queued">> \notin audit]_vars
  BY <1>1
<1>. QED
  BY <1>2, AloneInvariant, PTL DEF PowerSpec, WritesOnlyWhileActive

(***************************************************************************)
(* What an operation can do to its server in the deployed application: it  *)
(* is written at most max_attempts times, and once more for every crash.   *)
(* A write is paid for by a claim, and a claim beyond max_attempts by a    *)
(* crash, since no worker claims the job of another one that is slow.      *)
(***************************************************************************)
WritesWithinBudget == \A o \in Jobs : issued[o] <= MaxAttempts + crashes

\* However the answers of the provider get lost, an operation of the deployed
\* application writes at most max_attempts times and once more per crash.
THEOREM SingleWriteBudget ==
  ASSUME SingleProcess
  PROVE  PowerSpec => []WritesWithinBudget
<1>1. IsFiniteSet(Processes)
  <2>1. CASE Processes = {}
    BY <2>1, FS_EmptySet
  <2>2. ASSUME NEW p \in Processes PROVE Processes = {p}
    BY DEF SingleProcess
  <2>. QED
    BY <2>1, <2>2, FS_Singleton
<1>2. ASSUME PowerInv, TablesOK, AttemptsBounded, WritesOncePerAttempt
      PROVE  WritesWithinBudget
  <2>. SUFFICES ASSUME NEW o \in Jobs PROVE issued[o] <= MaxAttempts + crashes
    BY DEF WritesWithinBudget
  <2>1. issued[o] \in Nat /\ jobs[o].attempts \in Nat /\ crashes \in Nat
    BY <1>2 DEF TablesOK, PowerInv, QueueInv, TypeOK, Rows
  <2>2. issued[o] <= jobs[o].attempts /\ jobs[o].attempts <= MaxAttempts + crashes
    BY <1>2 DEF AttemptsBounded, WritesOncePerAttempt
  <2>. QED
    BY <2>1, <2>2, BoundAssumption
<1>3. PowerSpec => []AttemptsBounded
  BY PowerRefinesQueue, QueueAttempts, PTL
<1>4. PowerSpec => [](PowerInv /\ TablesOK /\ WritesInv)
  BY <1>1, WritesInvariant
<1>5. PowerSpec => []WritesOncePerAttempt
  BY <1>1, PowerWritesOnce
<1>. QED
  BY <1>2, <1>3, <1>4, <1>5, PTL

(***************************************************************************)
(* The worker of a single process never finds its lease lost, so that      *)
(* ErrLeaseLost never ends the deployed application.                       *)
(***************************************************************************)
THEOREM SingleNoLeaseLost ==
  ASSUME SingleProcess
  PROVE  PowerSpec => [][\A p \in Processes : ~PowerLeaseLost(p)]_vars
<1>1. PowerSpec => [](QueueInv /\ AttemptsInv)
  BY PowerRefinesQueue, AttemptsInvariant, PTL
<1>2. QueueInv /\ AttemptsInv => \A p \in Processes : ~PowerLeaseLost(p)
  BY DEF AttemptsInv, AloneOwns, PowerLeaseLost, LeaseLost, Executing, OwnsLease, HoldsRow
<1>. QED
  BY <1>1, <1>2, PTL

=============================================================================
