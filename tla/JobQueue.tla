------------------------------ MODULE JobQueue ------------------------------
(***************************************************************************)
(* The persistent job table and the worker loop that drains it             *)
(* (src/internal/jobs).  Every process of the application runs one worker; *)
(* a worker claims a due row under a lease, hands it to a handler, and     *)
(* settles the row with Complete, Retry or Fail.  Nothing renews a lease,  *)
(* so a handler may outlive it.                                            *)
(*                                                                         *)
(* Times are natural numbers of ticks.  What a handler does is left open   *)
(* here: HandlerReturns takes any of the three kinds of result.            *)
(***************************************************************************)
EXTENDS Integers, Sequences

CONSTANTS
  Jobs,          \* the job identifiers that NewID can draw
  Processes,     \* application processes, each running one worker
  Owners,        \* the values of the column lease_owner
  NoOwner,       \* NULL in that column
  Owner,         \* the owner name each process writes into its leases
  MaxAttempts,   \* max_attempts of every row (Queue writes 3)
  LeaseDuration, \* ticks a lease lasts
  RetryUnit,     \* ticks of the first retry delay
  MaxRetryDelay, \* cap on the retry delay
  Horizon,       \* bound: the clock runs freely up to here, and past it
                 \* only towards a deadline
  MaxCrashes,    \* bound: number of crashes explored
  MaxClaims      \* bound: claims of one row explored

ASSUME OwnerAssumption == /\ Owner \in [Processes -> Owners]
                          /\ NoOwner \notin Owners
ASSUME DurationAssumption == /\ LeaseDuration \in Nat \ {0}
                             /\ RetryUnit \in Nat
                             /\ MaxRetryDelay \in Nat
ASSUME BoundAssumption == /\ MaxAttempts \in Nat \ {0}
                          /\ Horizon \in Nat
                          /\ MaxCrashes \in Nat
                          /\ MaxClaims \in Nat

VARIABLES
  jobs,    \* the table: one row per identifier
  proc,    \* each process's worker loop
  now,     \* the clock all processes read
  crashes  \* crashes so far

queueVars == <<jobs, proc, now, crashes>>

-----------------------------------------------------------------------------

JobStatus == {"absent", "queued", "running", "succeeded", "failed"}
TerminalJob == {"succeeded", "failed"}
Results == {"ok", "retryable", "permanent"}

Rows == [status: JobStatus, attempts: Nat, availableAt: Nat, createdAt: Nat,
         owner: Owners \cup {NoOwner}, expiresAt: Nat]

NoRow == [status |-> "absent", attempts |-> 0, availableAt |-> 0,
          createdAt |-> 0, owner |-> NoOwner, expiresAt |-> 0]

(***************************************************************************)
(* pc is "idle" between two calls of RunOnce (waiting for the poll timer   *)
(* included), "leasing" once RunOnce has read the clock, "handling" inside *)
(* the handler, "settling" once the handler has returned, and "down" when  *)
(* the process does not run.  attempt and expires are the copies in the    *)
(* lease the worker was given; at is the clock reading it carries into the *)
(* next statement.                                                         *)
(***************************************************************************)
Loops == [pc: {"down", "idle", "leasing", "handling", "settling"},
          job: Jobs \cup {NoOwner}, attempt: Nat, expires: Nat, at: Nat,
          result: Results]

Loop(pc, at) == [pc |-> pc, job |-> NoOwner, attempt |-> 0, expires |-> 0,
                 at |-> at, result |-> "ok"]
Idle == Loop("idle", 0)
Down == Loop("down", 0)

Executing(p) == proc[p].pc \in {"handling", "settling"}

Smaller(a, b) == IF a <= b THEN a ELSE b

\* One second shifted left by min(attempt-1, 8), capped.
Shifted == <<1, 2, 4, 8, 16, 32, 64, 128, 256>>
RetryDelay(attempt) ==
  Smaller(RetryUnit * Shifted[Smaller(attempt - 1, 8) + 1], MaxRetryDelay)

-----------------------------------------------------------------------------

QueueInit ==
  /\ jobs = [j \in Jobs |-> NoRow]
  /\ proc = [p \in Processes |-> Idle]
  /\ now = 0
  /\ crashes = 0

\* Queue.Enqueue*: insert a fresh row that is due at once.
Enqueue(j) ==
  /\ jobs[j].status = "absent"
  /\ jobs' = [jobs EXCEPT ![j] = [NoRow EXCEPT !.status = "queued",
                                               !.availableAt = now,
                                               !.createdAt = now]]

\* RunOnce reads the clock before it opens the leasing transaction.
StartPoll(p) ==
  /\ proc[p].pc = "idle"
  /\ proc' = [proc EXCEPT ![p] = Loop("leasing", now)]

\* Mutant: expired leases are not offered again.
ClaimableQueuedOnly(j, at) ==
  jobs[j].status = "queued" /\ jobs[j].availableAt <= at

Claimable(j, at) ==
  \/ jobs[j].status = "queued" /\ jobs[j].availableAt <= at
  \/ jobs[j].status = "running" /\ jobs[j].expiresAt <= at

\* ORDER BY available_at, created_at.
NotAfter(j, k) ==
  \/ jobs[j].availableAt < jobs[k].availableAt
  \/ /\ jobs[j].availableAt = jobs[k].availableAt
     /\ jobs[j].createdAt <= jobs[k].createdAt

NextJobs(at) ==
  {j \in Jobs : /\ Claimable(j, at)
                /\ \A k \in Jobs : Claimable(k, at) => NotAfter(j, k)}

\* ErrNoJob: Run waits for the poll timer.
LeaseNothing(p) ==
  /\ proc[p].pc = "leasing"
  /\ \A j \in Jobs : ~Claimable(j, proc[p].at)
  /\ proc' = [proc EXCEPT ![p] = Idle]
  /\ UNCHANGED jobs

Claimed(row, owner, expires) ==
  [row EXCEPT !.status = "running", !.attempts = @ + 1,
              !.owner = owner, !.expiresAt = expires]

\* The lease handed to the worker: copies of the row as just claimed.
Handling(job, attempt, expires) ==
  [pc |-> "handling", job |-> job, attempt |-> attempt, expires |-> expires,
   at |-> 0, result |-> "ok"]

LeaseJob(p, j) ==
  /\ proc[p].pc = "leasing"
  /\ j \in NextJobs(proc[p].at)
  /\ jobs[j].attempts < MaxClaims
  /\ LET expires == proc[p].at + LeaseDuration
     IN  /\ jobs' = [jobs EXCEPT ![j] = Claimed(@, Owner[p], expires)]
         /\ proc' = [proc EXCEPT ![p] =
                       Handling(j, jobs[j].attempts + 1, expires)]

\* For a retryable error RunOnce reads the clock and adds the backoff of the
\* attempt the job was leased for; the other two results carry no time.
SettleAt(p, result) ==
  IF result = "retryable" THEN now + RetryDelay(proc[p].attempt) ELSE 0

HandlerReturns(p, result) ==
  /\ proc[p].pc = "handling"
  /\ proc' = [proc EXCEPT ![p].pc = "settling",
                          ![p].result = result,
                          ![p].at = SettleAt(p, result)]

\* Mutants: the WHERE clause compares the status only, or the identifier only.
HoldsRowAnyOwner(p) == jobs[proc[p].job].status = "running"
HoldsRowById(p) == proc[p].job \in Jobs

\* WHERE id = ? AND status = 'running' AND lease_owner = ?
HoldsRow(p) == /\ jobs[proc[p].job].status = "running"
               /\ jobs[proc[p].job].owner = Owner[p]

\* Mutant: the lease columns are not cleared.
ReleasedKeepingLease(row, status) == [row EXCEPT !.status = status]

Released(row, status) ==
  [row EXCEPT !.status = status, !.owner = NoOwner, !.expiresAt = 0]

Finish(p, result, status) ==
  /\ proc[p].pc = "settling" /\ proc[p].result = result
  /\ HoldsRow(p)
  /\ jobs' = [jobs EXCEPT ![proc[p].job] = Released(@, status)]
  /\ proc' = [proc EXCEPT ![p] = Idle]

Complete(p) == Finish(p, "ok", "succeeded")
Fail(p) == Finish(p, "permanent", "failed")

\* Mutant: one attempt too many.
RetryStatusOffByOne(row) ==
  IF row.attempts > MaxAttempts THEN "failed" ELSE "queued"

RetryStatus(row) ==
  IF row.attempts >= MaxAttempts THEN "failed" ELSE "queued"

Retry(p) ==
  /\ proc[p].pc = "settling" /\ proc[p].result = "retryable"
  /\ HoldsRow(p)
  /\ jobs' = [jobs EXCEPT ![proc[p].job] =
                [Released(@, RetryStatus(@)) EXCEPT !.availableAt = proc[p].at]]
  /\ proc' = [proc EXCEPT ![p] = Idle]

\* ErrLeaseLost ends Run, and with it the application.
LeaseLost(p) ==
  /\ proc[p].pc = "settling"
  /\ ~HoldsRow(p)
  /\ proc' = [proc EXCEPT ![p] = Down]
  /\ UNCHANGED jobs

\* The process dies, is told to stop (its cancelled context fails every later
\* statement), or a statement of the worker fails and Run returns.
Crash(p) ==
  /\ proc[p].pc # "down"
  /\ crashes < MaxCrashes
  /\ crashes' = crashes + 1
  /\ proc' = [proc EXCEPT ![p] = Down]
  /\ UNCHANGED jobs

Restart(p) ==
  /\ proc[p].pc = "down"
  /\ proc' = [proc EXCEPT ![p] = Idle]
  /\ UNCHANGED jobs

DeadlineAhead ==
  \E j \in Jobs : \/ jobs[j].status = "queued" /\ jobs[j].availableAt > now
                  \/ jobs[j].status = "running" /\ jobs[j].expiresAt > now

PassTime == now' = now + 1 /\ UNCHANGED <<jobs, proc, crashes>>

Tick == (DeadlineAhead \/ now < Horizon) /\ PassTime

-----------------------------------------------------------------------------

\* The steps of the worker loop outside the handler.
Settle(p) == Complete(p) \/ Fail(p) \/ Retry(p) \/ LeaseLost(p)
Lease(p) == LeaseNothing(p) \/ \E j \in Jobs : LeaseJob(p, j)

WorkerStep(p) ==
  \/ (StartPoll(p) /\ UNCHANGED jobs) \/ Lease(p) \/ Settle(p) \/ Restart(p)

Return(p) == /\ \E result \in Results : HandlerReturns(p, result)
             /\ UNCHANGED jobs

Step ==
  \/ \E j \in Jobs : Enqueue(j) /\ UNCHANGED <<proc, now, crashes>>
  \/ \E p \in Processes :
       \/ (WorkerStep(p) \/ Return(p)) /\ UNCHANGED <<now, crashes>>
       \/ Crash(p) /\ UNCHANGED now

Next == Step \/ Tick

Spec == QueueInit /\ [][Next]_queueVars

\* The same queue under a clock that runs on without a bound.
OpenNext == Step \/ PassTime

OpenSpec == QueueInit /\ [][OpenNext]_queueVars

\* A running process keeps polling and its handler returns; a stopped one is
\* restarted by its supervisor; the clock does not stop.
FairSpec ==
  /\ Spec
  /\ \A p \in Processes :
       /\ WF_queueVars(WorkerStep(p) /\ UNCHANGED <<now, crashes>>)
       /\ WF_queueVars(Return(p) /\ UNCHANGED <<now, crashes>>)
  /\ WF_queueVars(Tick)

-----------------------------------------------------------------------------

LeaseColumns ==
  \A j \in Jobs : /\ (jobs[j].status = "running") <=> (jobs[j].owner # NoOwner)
                  /\ (jobs[j].status = "running") <=> (jobs[j].expiresAt > 0)

(***************************************************************************)
(* Every row and worker loop is well formed, and a row carries an owner    *)
(* and an expiry exactly while it is running (LeaseNext writes both;       *)
(* Retry, Complete and Fail clear both).                                   *)
(***************************************************************************)
TypeOK ==
  /\ jobs \in [Jobs -> Rows]
  /\ proc \in [Processes -> Loops]
  /\ now \in Nat
  /\ crashes \in Nat
  /\ \A p \in Processes : Executing(p) => proc[p].job \in Jobs
  /\ LeaseColumns

(***************************************************************************)
(* A worker that is executing a job either still owns the row under the    *)
(* very lease it was given, or its lease has run out and the row has been  *)
(* claimed again since.  So Complete, Retry and Fail, which only compare   *)
(* the owner's name, never settle another lease's row, and two workers     *)
(* execute a job at once only when the earlier one's lease has expired.    *)
(***************************************************************************)
OwnsLease(p) ==
  LET row == jobs[proc[p].job]
  IN  /\ row.status = "running"
      /\ row.owner = Owner[p]
      /\ row.attempts = proc[p].attempt
      /\ row.expiresAt = proc[p].expires

Superseded(p) == /\ jobs[proc[p].job].attempts > proc[p].attempt
                 /\ proc[p].expires <= now

LeaseFencing ==
  \A p \in Processes : Executing(p) => OwnsLease(p) \/ Superseded(p)

(***************************************************************************)
(* Retry puts a row back in the queue only while it has attempts left.     *)
(***************************************************************************)
QueuedHasBudget ==
  \A j \in Jobs : jobs[j].status = "queued" => jobs[j].attempts < MaxAttempts

(***************************************************************************)
(* A row is claimed at most max_attempts times, and once more for every    *)
(* crash: LeaseNext does not look at max_attempts when it takes over an    *)
(* expired lease, only Retry does (sql_repository.go:41).  One process.    *)
(***************************************************************************)
AttemptsBounded == \A j \in Jobs : jobs[j].attempts <= MaxAttempts + crashes

(***************************************************************************)
(* A finished row never changes again: neither an expired lease nor a late *)
(* Complete, Retry or Fail touches it.                                     *)
(***************************************************************************)
FinishedRowsFinal ==
  [][\A j \in Jobs : jobs[j].status \in TerminalJob => jobs'[j] = jobs[j]]_queueVars

(***************************************************************************)
(* Every enqueued job reaches succeeded or failed, whatever its handler    *)
(* returns and although the process may crash between any two steps.       *)
(***************************************************************************)
EveryJobFinishes ==
  \A j \in Jobs : (jobs[j].status = "queued") ~> (jobs[j].status \in TerminalJob)
=============================================================================
