--------------------------- MODULE JobQueueProofs ---------------------------
(***************************************************************************)
(* Proofs about JobQueue, for any number of jobs and processes and for any *)
(* value of the bounds.  The inductive invariant is TypeOK, strengthened   *)
(* by LeaseFencing, which the type of a row cannot give: whether a         *)
(* statement that compares owners settles the right lease depends on what  *)
(* every other worker may have done since the lease was taken.             *)
(***************************************************************************)
EXTENDS JobQueue, TLAPS

(***************************************************************************)
(* The retry delay is a natural number for every attempt, the shift by at  *)
(* most eight places included.                                             *)
(***************************************************************************)
LEMMA RetryDelayNat ==
  ASSUME NEW attempt \in Nat \ {0}
  PROVE  RetryDelay(attempt) \in Nat
<1>1. Smaller(attempt - 1, 8) + 1 \in 1..9
  BY DEF Smaller
<1>2. \A i \in 1..9 : Shifted[i] \in Nat
  BY DEF Shifted
<1>3. RetryUnit * Shifted[Smaller(attempt - 1, 8) + 1] \in Nat
  BY <1>1, <1>2, DurationAssumption
<1>. QED
  BY <1>3, DurationAssumption DEF RetryDelay, Smaller

(***************************************************************************)
(* Attempts are counted from a claim: an executing worker was given at     *)
(* least attempt 1, and an identifier not drawn yet has none.              *)
(***************************************************************************)
AttemptsPositive ==
  /\ \A p \in Processes : Executing(p) => proc[p].attempt > 0
  /\ \A j \in Jobs : jobs[j].status = "absent" => jobs[j].attempts = 0

QueueInv == TypeOK /\ AttemptsPositive

\* The three loops a step writes outright are well formed.
LEMMA LoopTypes ==
  ASSUME NEW at \in Nat
  PROVE  Loop("leasing", at) \in Loops /\ Idle \in Loops /\ Down \in Loops
BY DEF Loop, Idle, Down, Loops, Results

\* Settling a row clears the lease columns and keeps its attempts.
LEMMA RowTypes ==
  ASSUME NEW row \in Rows, NEW status \in TerminalJob \cup {"queued"}
  PROVE  /\ Released(row, status) \in Rows
         /\ Released(row, status).status = status
         /\ Released(row, status).owner = NoOwner
         /\ Released(row, status).expiresAt = 0
         /\ Released(row, status).attempts = row.attempts
BY DEF Released, Rows, TerminalJob, JobStatus

\* The empty table satisfies the invariant.
LEMMA QueueInvInit == QueueInit => QueueInv
<1>. SUFFICES ASSUME QueueInit PROVE QueueInv
  OBVIOUS
<1>1. NoRow \in Rows
  BY DEF NoRow, Rows, JobStatus
<1>2. Idle \in Loops
  BY DEF Idle, Loop, Loops, Results
<1>3. \A p \in Processes : ~Executing(p)
  BY DEF QueueInit, Executing, Idle, Loop
<1>. QED
  BY <1>1, <1>2, <1>3 DEF QueueInit, QueueInv, TypeOK, AttemptsPositive, LeaseColumns, NoRow

(***************************************************************************)
(* One lemma per step of the system: each keeps QueueInv.                  *)
(***************************************************************************)
LEMMA EnqueueInv ==
  ASSUME QueueInv, NEW j \in Jobs, Enqueue(j), UNCHANGED <<proc, now, crashes>>
  PROVE  QueueInv'
<1> DEFINE row == [NoRow EXCEPT !.status = "queued",
                                !.availableAt = now, !.createdAt = now]
<1>1. /\ row \in Rows /\ row.status = "queued" /\ row.owner = NoOwner
      /\ row.expiresAt = 0
  BY DEF QueueInv, TypeOK, NoRow, Rows, JobStatus
<1>2. jobs' = [jobs EXCEPT ![j] = row]
  BY DEF Enqueue
<1> HIDE DEF row
<1>3. LeaseColumns'
  BY <1>1, <1>2 DEF LeaseColumns, QueueInv, TypeOK
<1>. QED
  BY <1>1, <1>2, <1>3 DEF QueueInv, TypeOK, AttemptsPositive, Executing

\* Reading the clock keeps the invariant.
LEMMA StartPollInv ==
  ASSUME QueueInv, NEW p \in Processes, StartPoll(p), UNCHANGED <<jobs, now, crashes>>
  PROVE  QueueInv'
<1>1. Loop("leasing", now) \in Loops /\ Loop("leasing", now).pc = "leasing"
  BY LoopTypes DEF QueueInv, TypeOK, Loop
<1>. QED
  BY <1>1 DEF StartPoll, QueueInv, TypeOK, AttemptsPositive, Executing, LeaseColumns

\* Steps that leave the table alone and take the worker out of its handler.
LEMMA StopInv ==
  ASSUME QueueInv, NEW p \in Processes, NEW loop \in {Idle, Down},
         proc' = [proc EXCEPT ![p] = loop], UNCHANGED <<jobs, now>>,
         crashes' \in Nat
  PROVE  QueueInv'
<1>1. loop \in Loops /\ loop.pc \in {"idle", "down"}
  BY DEF Idle, Down, Loop, Loops, Results
<1>. QED
  BY <1>1 DEF QueueInv, TypeOK, AttemptsPositive, Executing, LeaseColumns

\* Claiming a row sets the lease columns and counts one attempt.
LEMMA ClaimTypes ==
  ASSUME NEW row \in Rows, NEW owner \in Owners, NEW expires \in Nat
  PROVE  /\ Claimed(row, owner, expires) \in Rows
         /\ Claimed(row, owner, expires).status = "running"
         /\ Claimed(row, owner, expires).owner = owner
         /\ Claimed(row, owner, expires).expiresAt = expires
         /\ Claimed(row, owner, expires).attempts = row.attempts + 1
<1>1. row.attempts + 1 \in Nat
  BY DEF Rows
<1>2. ASSUME NEW attempts \in Nat
      PROVE  LET claimed == [row EXCEPT !.status = "running", !.attempts = attempts,
                                        !.owner = owner, !.expiresAt = expires]
             IN  /\ claimed \in Rows /\ claimed.status = "running"
                 /\ claimed.owner = owner /\ claimed.expiresAt = expires
                 /\ claimed.attempts = attempts
  BY DEF Rows, JobStatus
<1>. QED
  BY <1>1, <1>2, Zenon DEF Claimed

\* A lease handed to a worker is well formed.
LEMMA HandlingTypes ==
  ASSUME NEW j \in Jobs, NEW attempt \in Nat, NEW expires \in Nat
  PROVE  Handling(j, attempt, expires) \in Loops
BY DEF Handling, Loops, Results

\* Claiming a row keeps the invariant.
LEMMA LeaseJobInv ==
  ASSUME QueueInv, NEW p \in Processes, NEW j \in Jobs, LeaseJob(p, j),
         UNCHANGED <<now, crashes>>
  PROVE  QueueInv'
<1> DEFINE expires == proc[p].at + LeaseDuration
           row == Claimed(jobs[j], Owner[p], expires)
           loop == Handling(j, jobs[j].attempts + 1, expires)
<1>1. jobs[j] \in Rows /\ proc[p] \in Loops
  BY DEF QueueInv, TypeOK
<1>2. expires \in Nat /\ expires > 0
  BY <1>1, DurationAssumption DEF Loops
<1>3. Owner[p] \in Owners /\ Owner[p] # NoOwner
  BY OwnerAssumption
<1>4. jobs[j].attempts + 1 \in Nat \ {0}
  BY <1>1 DEF Rows
<1>5. jobs' = [jobs EXCEPT ![j] = row] /\ proc' = [proc EXCEPT ![p] = loop]
  BY DEF LeaseJob
<1>6. /\ row \in Rows /\ row.status = "running" /\ row.owner # NoOwner
      /\ row.expiresAt > 0
  BY <1>1, <1>2, <1>3, ClaimTypes
<1>7. /\ loop \in Loops /\ loop.job = j /\ loop.attempt > 0
  BY <1>2, <1>4, HandlingTypes DEF Handling
<1> HIDE DEF row, loop, expires
<1>8. LeaseColumns'
  BY <1>5, <1>6 DEF LeaseColumns, QueueInv, TypeOK
<1>. QED
  BY <1>5, <1>6, <1>7, <1>8 DEF QueueInv, TypeOK, AttemptsPositive, Executing

\* A handler that returns keeps the invariant.
LEMMA HandlerReturnsInv ==
  ASSUME QueueInv, NEW p \in Processes, NEW result \in Results,
         HandlerReturns(p, result), UNCHANGED <<jobs, now, crashes>>
  PROVE  QueueInv'
<1>1. proc[p] \in Loops /\ Executing(p) /\ proc[p].job \in Jobs
  BY DEF HandlerReturns, QueueInv, TypeOK, Executing
<1>2. proc[p].attempt \in Nat \ {0}
  BY <1>1 DEF QueueInv, AttemptsPositive, Loops
<1>3. SettleAt(p, result) \in Nat
  BY <1>2, RetryDelayNat DEF SettleAt, QueueInv, TypeOK
<1> DEFINE loop == [proc[p] EXCEPT !.pc = "settling", !.result = result,
                                   !.at = SettleAt(p, result)]
<1>4. /\ loop \in Loops /\ loop.job = proc[p].job /\ loop.attempt = proc[p].attempt
      /\ loop.expires = proc[p].expires
  BY <1>1, <1>3 DEF Loops
<1>5. proc' = [proc EXCEPT ![p] = loop]
  BY DEF HandlerReturns
<1> HIDE DEF loop
<1>. QED
  BY <1>1, <1>2, <1>4, <1>5 DEF QueueInv, TypeOK, AttemptsPositive, Executing, LeaseColumns

\* Complete, Fail and Retry: the row is released with a new status and the
\* worker goes back to polling.
LEMMA ReleaseInv ==
  ASSUME QueueInv, NEW p \in Processes, proc[p].pc = "settling",
         NEW row \in Rows, row.status \in TerminalJob \cup {"queued"}, row.owner = NoOwner,
         row.expiresAt = 0, jobs' = [jobs EXCEPT ![proc[p].job] = row],
         proc' = [proc EXCEPT ![p] = Idle], UNCHANGED <<now, crashes>>
  PROVE  QueueInv'
<1>1. Executing(p) /\ proc[p].job \in Jobs
  BY DEF QueueInv, TypeOK, Executing
<1>2. Idle \in Loops /\ Idle.pc = "idle"
  BY LoopTypes DEF Idle, Loop
<1>3. row.status # "running" /\ row.status # "absent"
  BY DEF TerminalJob
<1>4. LeaseColumns'
  BY <1>1, <1>3 DEF LeaseColumns, QueueInv, TypeOK
<1>. QED
  BY <1>1, <1>2, <1>3, <1>4 DEF QueueInv, TypeOK, AttemptsPositive, Executing

\* Complete and Fail keep the invariant.
LEMMA FinishInv ==
  ASSUME QueueInv, NEW p \in Processes, NEW result \in Results,
         NEW status \in TerminalJob, Finish(p, result, status),
         UNCHANGED <<now, crashes>>
  PROVE  QueueInv'
<1>1. proc[p].pc = "settling" /\ jobs[proc[p].job] \in Rows
  BY DEF Finish, QueueInv, TypeOK, Executing
<1>2. Released(jobs[proc[p].job], status) \in Rows
  BY <1>1, RowTypes
<1>. QED
  BY <1>1, <1>2, RowTypes, ReleaseInv DEF Finish, TerminalJob

\* Retry keeps the invariant.
LEMMA RetryInv ==
  ASSUME QueueInv, NEW p \in Processes, Retry(p), UNCHANGED <<now, crashes>>
  PROVE  QueueInv'
<1> DEFINE row == jobs[proc[p].job]
           next == [Released(row, RetryStatus(row)) EXCEPT !.availableAt = proc[p].at]
<1>1. proc[p].pc = "settling" /\ row \in Rows /\ proc[p] \in Loops
  BY DEF Retry, QueueInv, TypeOK, Executing
<1>2. RetryStatus(row) \in {"failed", "queued"}
  BY DEF RetryStatus
<1>3. /\ Released(row, RetryStatus(row)) \in Rows
      /\ Released(row, RetryStatus(row)).status = RetryStatus(row)
      /\ Released(row, RetryStatus(row)).owner = NoOwner
      /\ Released(row, RetryStatus(row)).expiresAt = 0
  BY <1>1, <1>2, RowTypes DEF TerminalJob
<1>4. /\ next \in Rows /\ next.status \in TerminalJob \cup {"queued"}
      /\ next.owner = NoOwner /\ next.expiresAt = 0
  BY <1>1, <1>2, <1>3 DEF Rows, Loops, TerminalJob
<1>. QED
  BY <1>1, <1>4, ReleaseInv DEF Retry

(***************************************************************************)
(* What the system can do in one step, as one disjunction to split on.     *)
(***************************************************************************)
LEMMA NextCases ==
  ASSUME OpenNext
  PROVE  \/ \E j \in Jobs : Enqueue(j) /\ UNCHANGED <<proc, now, crashes>>
         \/ \E p \in Processes :
              \/ StartPoll(p) /\ UNCHANGED <<jobs, now, crashes>>
              \/ LeaseNothing(p) /\ UNCHANGED <<now, crashes>>
              \/ (\E j \in Jobs : LeaseJob(p, j)) /\ UNCHANGED <<now, crashes>>
              \/ (\E result \in Results : HandlerReturns(p, result))
                 /\ UNCHANGED <<jobs, now, crashes>>
              \/ Complete(p) /\ UNCHANGED <<now, crashes>>
              \/ Fail(p) /\ UNCHANGED <<now, crashes>>
              \/ Retry(p) /\ UNCHANGED <<now, crashes>>
              \/ LeaseLost(p) /\ UNCHANGED <<now, crashes>>
              \/ Restart(p) /\ UNCHANGED <<now, crashes>>
              \/ Crash(p) /\ UNCHANGED now
         \/ PassTime
BY DEF OpenNext, Step, WorkerStep, Lease, Settle, Return

\* The invariant is inductive.
LEMMA QueueInvNext == QueueInv /\ [OpenNext]_queueVars => QueueInv'
<1>. SUFFICES ASSUME QueueInv, [OpenNext]_queueVars PROVE QueueInv'
  OBVIOUS
<1>1. CASE UNCHANGED queueVars
  BY <1>1 DEF queueVars, QueueInv, TypeOK, AttemptsPositive, Executing, LeaseColumns
<1>2. CASE \E j \in Jobs : Enqueue(j) /\ UNCHANGED <<proc, now, crashes>>
  BY <1>2, EnqueueInv
<1>3. ASSUME NEW p \in Processes, StartPoll(p) /\ UNCHANGED <<jobs, now, crashes>>
      PROVE  QueueInv'
  BY <1>3, StartPollInv
<1>4. ASSUME NEW p \in Processes,
             \/ LeaseNothing(p) /\ UNCHANGED <<now, crashes>>
             \/ LeaseLost(p) /\ UNCHANGED <<now, crashes>>
             \/ Restart(p) /\ UNCHANGED <<now, crashes>>
             \/ Crash(p) /\ UNCHANGED now
      PROVE  QueueInv'
  <2>1. crashes' \in Nat
    BY <1>4 DEF QueueInv, TypeOK, Crash
  <2>2. UNCHANGED <<jobs, now>>
    BY <1>4 DEF LeaseNothing, LeaseLost, Restart, Crash
  <2>3. \/ proc' = [proc EXCEPT ![p] = Idle]
        \/ proc' = [proc EXCEPT ![p] = Down]
    BY <1>4 DEF LeaseNothing, LeaseLost, Restart, Crash
  <2>. QED
    BY <2>1, <2>2, <2>3, StopInv
<1>5. ASSUME NEW p \in Processes, NEW j \in Jobs, LeaseJob(p, j),
             UNCHANGED <<now, crashes>>
      PROVE  QueueInv'
  BY <1>5, LeaseJobInv
<1>6. ASSUME NEW p \in Processes, NEW result \in Results,
             HandlerReturns(p, result), UNCHANGED <<jobs, now, crashes>>
      PROVE  QueueInv'
  BY <1>6, HandlerReturnsInv
<1>7. ASSUME NEW p \in Processes, Complete(p) \/ Fail(p), UNCHANGED <<now, crashes>>
      PROVE  QueueInv'
  BY <1>7, FinishInv DEF Complete, Fail, Results, TerminalJob
<1>8. ASSUME NEW p \in Processes, Retry(p), UNCHANGED <<now, crashes>>
      PROVE  QueueInv'
  BY <1>8, RetryInv
<1>9. CASE PassTime
  BY <1>9 DEF PassTime, QueueInv, TypeOK, AttemptsPositive, Executing, LeaseColumns
<1>. QED
  BY <1>1, <1>2, <1>3, <1>4, <1>5, <1>6, <1>7, <1>8, <1>9, NextCases

(***************************************************************************)
(* The bound on the clock only removes behaviours, so every theorem below  *)
(* about OpenSpec holds of Spec, which the runs check.                     *)
(***************************************************************************)
LEMMA BoundedClock == Spec => OpenSpec
<1>1. [Next]_queueVars => [OpenNext]_queueVars
  BY DEF Next, OpenNext, Tick
<1>. QED
  BY <1>1, PTL DEF Spec, OpenSpec

(***************************************************************************)
(* Type correctness of the queue: every reachable row and worker loop is   *)
(* well formed, and a row carries lease columns exactly while it runs.     *)
(***************************************************************************)
THEOREM QueueTypeCorrect == OpenSpec => []TypeOK
<1>1. OpenSpec => []QueueInv
  BY QueueInvInit, QueueInvNext, PTL DEF OpenSpec
<1>2. QueueInv => TypeOK
  BY DEF QueueInv
<1>. QED
  BY <1>1, <1>2, PTL

(***************************************************************************)
(* Lease fencing needs owner names that tell processes apart.  A single    *)
(* process satisfies this trivially; two processes that both take the      *)
(* default name of NewWorker do not.                                       *)
(***************************************************************************)
DistinctOwners == \A p, q \in Processes : Owner[p] = Owner[q] => p = q

\* A step that leaves q's own loop alone and, for the row q executes, either
\* changes nothing or claims it after q's lease has run out.
LEMMA FencingFrame ==
  ASSUME QueueInv, LeaseFencing, NEW q \in Processes, Executing(q)',
         Executing(q), proc'[q].job = proc[q].job,
         proc'[q].attempt = proc[q].attempt, proc'[q].expires = proc[q].expires,
         now' \in Nat, now' >= now,
         \/ jobs'[proc[q].job] = jobs[proc[q].job]
         \/ /\ jobs'[proc[q].job].attempts = jobs[proc[q].job].attempts + 1
            /\ jobs[proc[q].job].status = "running" =>
                  jobs[proc[q].job].expiresAt <= now
            /\ jobs[proc[q].job].status \in {"queued", "running"}
         \/ /\ jobs'[proc[q].job].attempts = jobs[proc[q].job].attempts
            /\ ~OwnsLease(q)
  PROVE  (OwnsLease(q) \/ Superseded(q))'
<1> DEFINE j == proc[q].job
<1>1. /\ j \in Jobs /\ jobs[j] \in Rows /\ proc[q] \in Loops
      /\ now \in Nat /\ jobs[j].attempts \in Nat /\ proc[q].attempt \in Nat
      /\ proc[q].expires \in Nat
  BY DEF QueueInv, TypeOK, Rows, Loops
<1>2. OwnsLease(q) \/ Superseded(q)
  BY DEF LeaseFencing
<1>3. CASE jobs'[j] = jobs[j]
  BY <1>1, <1>2, <1>3 DEF OwnsLease, Superseded
<1>4. CASE /\ jobs'[j].attempts = jobs[j].attempts + 1
           /\ jobs[j].status = "running" => jobs[j].expiresAt <= now
           /\ jobs[j].status \in {"queued", "running"}
  BY <1>1, <1>2, <1>4 DEF OwnsLease, Superseded
<1>5. CASE jobs'[j].attempts = jobs[j].attempts /\ ~OwnsLease(q)
  BY <1>1, <1>2, <1>5 DEF Superseded
<1>. QED
  BY <1>3, <1>4, <1>5

\* A statement that settles p's row touches no other worker's live lease: the
\* owner it matched is p's, and no other process writes that name.
LEMMA FencingSettle ==
  ASSUME DistinctOwners, QueueInv, LeaseFencing, NEW p \in Processes,
         proc[p].pc = "settling", HoldsRow(p), NEW row,
         row.attempts = jobs[proc[p].job].attempts,
         jobs' = [jobs EXCEPT ![proc[p].job] = row],
         proc' = [proc EXCEPT ![p] = Idle], now' = now
  PROVE  LeaseFencing'
<1>. SUFFICES ASSUME NEW q \in Processes, Executing(q)'
              PROVE  (OwnsLease(q) \/ Superseded(q))'
  BY DEF LeaseFencing
<1>1. q # p /\ proc'[q] = proc[q] /\ Executing(q)
  BY DEF Executing, Idle, Loop, QueueInv, TypeOK
<1>2. proc[q].job \in Jobs /\ proc[p].job \in Jobs
  BY <1>1 DEF QueueInv, TypeOK, Executing
<1>3. proc[q].job = proc[p].job => ~OwnsLease(q)
  BY <1>1 DEF HoldsRow, OwnsLease, DistinctOwners
<1>4. \/ jobs'[proc[q].job] = jobs[proc[q].job]
      \/ /\ jobs'[proc[q].job].attempts = jobs[proc[q].job].attempts
         /\ ~OwnsLease(q)
  BY <1>2, <1>3 DEF QueueInv, TypeOK
<1>. QED
  BY <1>1, <1>4, FencingFrame DEF QueueInv, TypeOK

\* A worker about to claim a row has read the clock in the past.
ReadingsPast == \A p \in Processes : proc[p].pc = "leasing" => proc[p].at <= now

\* Clock readings stay in the past.
LEMMA ReadingsNext ==
  ASSUME QueueInv, ReadingsPast, [OpenNext]_queueVars
  PROVE  ReadingsPast'
<1>. USE DEF ReadingsPast, QueueInv, TypeOK
<1>1. CASE UNCHANGED queueVars
  BY <1>1 DEF queueVars
<1>2. CASE \E j \in Jobs : Enqueue(j) /\ UNCHANGED <<proc, now, crashes>>
  BY <1>2
<1>3. CASE PassTime
  BY <1>3 DEF PassTime, Loops
<1>4. ASSUME NEW p \in Processes, now' = now, NEW loop,
             proc' = [proc EXCEPT ![p] = loop],
             loop.pc = "leasing" => loop.at <= now
      PROVE  ReadingsPast'
  BY <1>4
<1>5. ASSUME NEW p \in Processes, StartPoll(p) /\ UNCHANGED <<jobs, now, crashes>>
      PROVE  ReadingsPast'
  BY <1>4, <1>5 DEF StartPoll, Loop
<1>6. ASSUME NEW p \in Processes, NEW j \in Jobs, LeaseJob(p, j), now' = now
      PROVE  ReadingsPast'
  BY <1>4, <1>6 DEF LeaseJob, Handling
<1>7. ASSUME NEW p \in Processes, NEW result \in Results,
             HandlerReturns(p, result), now' = now
      PROVE  ReadingsPast'
  BY <1>7 DEF HandlerReturns
<1>8. ASSUME NEW p \in Processes, now' = now,
             \/ proc' = [proc EXCEPT ![p] = Idle]
             \/ proc' = [proc EXCEPT ![p] = Down]
      PROVE  ReadingsPast'
  BY <1>4, <1>8 DEF Idle, Down, Loop
<1>. QED
  BY <1>1, <1>2, <1>3, <1>5, <1>6, <1>7, <1>8, NextCases
  DEF LeaseNothing, Complete, Fail, Finish, Retry, LeaseLost, Restart, Crash

\* Every step keeps the fencing of leases.
LEMMA FencingNext ==
  ASSUME DistinctOwners, QueueInv, ReadingsPast, LeaseFencing, [OpenNext]_queueVars
  PROVE  LeaseFencing'
<1>a. now' = now \/ now' = now + 1
  BY NextCases DEF queueVars, PassTime
<1>0. now \in Nat /\ now' \in Nat /\ now' >= now
  BY <1>a DEF QueueInv, TypeOK
<1>1. CASE proc' = proc /\ jobs' = jobs
  <2>. SUFFICES ASSUME NEW q \in Processes, Executing(q)'
                PROVE  (OwnsLease(q) \/ Superseded(q))'
    BY DEF LeaseFencing
  <2>. QED
    BY <1>0, <1>1, FencingFrame DEF Executing
<1>2. ASSUME NEW j \in Jobs, Enqueue(j), UNCHANGED <<proc, now, crashes>>
      PROVE  LeaseFencing'
  <2>. SUFFICES ASSUME NEW q \in Processes, Executing(q)'
                PROVE  (OwnsLease(q) \/ Superseded(q))'
    BY DEF LeaseFencing
  <2>1. Executing(q) /\ proc'[q] = proc[q] /\ proc[q].job \in Jobs
    BY <1>2 DEF Executing, QueueInv, TypeOK
  <2>2. proc[q].job # j
    <3>1. jobs[j].status = "absent" /\ jobs[j].attempts = 0
      BY <1>2 DEF Enqueue, QueueInv, AttemptsPositive
    <3>2. proc[q].attempt \in Nat /\ proc[q].attempt > 0
      BY <2>1 DEF QueueInv, TypeOK, AttemptsPositive, Loops
    <3>. QED
      BY <2>1, <3>1, <3>2 DEF LeaseFencing, OwnsLease, Superseded
  <2>3. jobs'[proc[q].job] = jobs[proc[q].job]
    BY <1>2, <2>1, <2>2 DEF Enqueue, QueueInv, TypeOK
  <2>. QED
    BY <1>0, <2>1, <2>3, FencingFrame
<1>3. ASSUME NEW p \in Processes, NEW j \in Jobs, LeaseJob(p, j), now' = now
      PROVE  LeaseFencing'
  <2>1. /\ proc' = [proc EXCEPT ![p] = Handling(j, jobs[j].attempts + 1,
                                                proc[p].at + LeaseDuration)]
        /\ jobs' = [jobs EXCEPT ![j] = Claimed(jobs[j], Owner[p],
                                                proc[p].at + LeaseDuration)]
        /\ proc[p].pc = "leasing" /\ Claimable(j, proc[p].at)
    BY <1>3 DEF LeaseJob, NextJobs
  <2>2. /\ jobs[j] \in Rows /\ proc[p] \in Loops /\ proc[p].at \in Nat
        /\ proc[p].at + LeaseDuration \in Nat /\ Owner[p] \in Owners
    BY DurationAssumption, OwnerAssumption DEF QueueInv, TypeOK, Loops
  <2>3. /\ jobs'[j].status = "running" /\ jobs'[j].owner = Owner[p]
        /\ jobs'[j].expiresAt = proc[p].at + LeaseDuration
        /\ jobs'[j].attempts = jobs[j].attempts + 1
    BY <2>1, <2>2, ClaimTypes DEF QueueInv, TypeOK
  <2>4. SUFFICES ASSUME NEW q \in Processes, Executing(q)'
                 PROVE  (OwnsLease(q) \/ Superseded(q))'
    BY DEF LeaseFencing
  <2>5. CASE q = p
    BY <2>1, <2>3, <2>5 DEF Handling, OwnsLease, QueueInv, TypeOK
  <2>6. CASE q # p
    <3>1. Executing(q) /\ proc'[q] = proc[q] /\ proc[q].job \in Jobs
      BY <2>1, <2>4, <2>6 DEF Executing, QueueInv, TypeOK
    <3>2. jobs[j].status \in {"queued", "running"} /\ proc[p].at <= now
      BY <2>1 DEF Claimable, ReadingsPast
    <3>3. jobs[j].status = "running" => jobs[j].expiresAt <= now
      BY <2>1, <2>2, <1>0, <3>2 DEF Claimable, Rows
    <3>4. proc[q].job # j => jobs'[proc[q].job] = jobs[proc[q].job]
      BY <2>1, <3>1 DEF QueueInv, TypeOK
    <3>5. CASE proc[q].job = j
      <4>1. /\ jobs'[proc[q].job].attempts = jobs[proc[q].job].attempts + 1
            /\ jobs[proc[q].job].status = "running" =>
                  jobs[proc[q].job].expiresAt <= now
            /\ jobs[proc[q].job].status \in {"queued", "running"}
        BY <2>3, <3>2, <3>3, <3>5
      <4>. QED
        BY <1>0, <2>4, <3>1, <4>1, FencingFrame
    <3>6. CASE proc[q].job # j
      BY <1>0, <2>4, <3>1, <3>4, <3>6, FencingFrame
    <3>. QED
      BY <3>5, <3>6
  <2>. QED
    BY <2>5, <2>6
<1>4. ASSUME NEW p \in Processes, now' = now, jobs' = jobs,
             NEW loop, proc' = [proc EXCEPT ![p] = loop],
             \/ loop.pc \notin {"handling", "settling"}
             \/ /\ proc[p].pc = "handling" /\ loop.job = proc[p].job
                /\ loop.attempt = proc[p].attempt /\ loop.expires = proc[p].expires
      PROVE  LeaseFencing'
  <2>. SUFFICES ASSUME NEW q \in Processes, Executing(q)'
                PROVE  (OwnsLease(q) \/ Superseded(q))'
    BY DEF LeaseFencing
  <2>1. /\ Executing(q) /\ proc'[q].job = proc[q].job
        /\ proc'[q].attempt = proc[q].attempt /\ proc'[q].expires = proc[q].expires
    BY <1>4 DEF Executing, QueueInv, TypeOK
  <2>. QED
    BY <1>0, <1>4, <2>1, FencingFrame
<1>5. ASSUME NEW p \in Processes, StartPoll(p) /\ UNCHANGED <<jobs, now>>
      PROVE  LeaseFencing'
  BY <1>4, <1>5 DEF StartPoll, Loop
<1>6. ASSUME NEW p \in Processes, NEW result \in Results,
             HandlerReturns(p, result), UNCHANGED <<jobs, now>>
      PROVE  LeaseFencing'
  <2> DEFINE loop == [proc[p] EXCEPT !.pc = "settling", !.result = result,
                                     !.at = SettleAt(p, result)]
  <2>1. /\ loop.job = proc[p].job /\ loop.attempt = proc[p].attempt
        /\ loop.expires = proc[p].expires
    BY DEF QueueInv, TypeOK, Loops
  <2>2. proc' = [proc EXCEPT ![p] = loop] /\ proc[p].pc = "handling"
    BY <1>6 DEF HandlerReturns
  <2>. HIDE DEF loop
  <2>. QED
    BY <1>4, <1>6, <2>1, <2>2
<1>7. ASSUME NEW p \in Processes, UNCHANGED <<jobs, now>>,
             \/ proc' = [proc EXCEPT ![p] = Idle]
             \/ proc' = [proc EXCEPT ![p] = Down]
      PROVE  LeaseFencing'
  BY <1>4, <1>7 DEF Idle, Down, Loop
<1>8. ASSUME NEW p \in Processes, Complete(p) \/ Fail(p), now' = now
      PROVE  LeaseFencing'
  <2>1. PICK status \in TerminalJob, result \in Results : Finish(p, result, status)
    BY <1>8 DEF Complete, Fail, TerminalJob, Results
  <2>2. jobs[proc[p].job] \in Rows
    BY <2>1 DEF Finish, QueueInv, TypeOK, Executing
  <2>. QED
    BY <1>8, <2>1, <2>2, RowTypes, FencingSettle DEF Finish
<1>9. ASSUME NEW p \in Processes, Retry(p), now' = now
      PROVE  LeaseFencing'
  <2> DEFINE row == jobs[proc[p].job]
             next == [Released(row, RetryStatus(row)) EXCEPT !.availableAt = proc[p].at]
  <2>1. row \in Rows /\ RetryStatus(row) \in TerminalJob \cup {"queued"}
    BY <1>9 DEF Retry, QueueInv, TypeOK, Executing, RetryStatus, TerminalJob
  <2>2. Released(row, RetryStatus(row)) \in Rows
    BY <2>1, RowTypes
  <2>3. next.attempts = row.attempts
    BY <2>1, <2>2, RowTypes DEF Rows
  <2>. QED
    BY <1>9, <2>3, FencingSettle DEF Retry
<1>10. CASE PassTime
  BY <1>1, <1>10 DEF PassTime
<1>. QED
  BY <1>1, <1>2, <1>3, <1>5, <1>6, <1>7, <1>8, <1>9, <1>10, NextCases
  DEF queueVars, LeaseNothing, LeaseLost, Restart, Crash

(***************************************************************************)
(* Lease fencing: under distinct owner names, a worker that executes a job *)
(* still owns the row under the lease it was given, or that lease has run  *)
(* out and the row was claimed again.  A late Complete, Retry or Fail of a *)
(* superseded worker therefore settles nothing.                            *)
(***************************************************************************)
THEOREM QueueFencing ==
  ASSUME DistinctOwners
  PROVE  OpenSpec => []LeaseFencing
<1> DEFINE Inv == QueueInv /\ ReadingsPast /\ LeaseFencing
<1>1. QueueInit => Inv
  BY QueueInvInit DEF QueueInit, ReadingsPast, LeaseFencing, Executing, Idle, Loop
<1>2. Inv /\ [OpenNext]_queueVars => Inv'
  BY QueueInvNext, ReadingsNext, FencingNext
<1>3. Inv => LeaseFencing
  OBVIOUS
<1>. HIDE DEF Inv
<1>. QED
  BY <1>1, <1>2, <1>3, PTL DEF OpenSpec

\* The only rows a step changes: a fresh one, a claimable one, or one a worker
\* has matched as running.
LEMMA RowChanges ==
  ASSUME QueueInv, [OpenNext]_queueVars, NEW k \in Jobs, jobs'[k] # jobs[k]
  PROVE  \/ jobs[k].status = "absent" /\ jobs'[k].attempts = 0
         \/ /\ jobs[k].status \in {"queued", "running"} /\ jobs'[k].status = "running"
            /\ jobs'[k].attempts = jobs[k].attempts + 1
         \/ /\ jobs[k].status = "running" /\ jobs'[k].status \in TerminalJob
            /\ jobs'[k].attempts = jobs[k].attempts
         \/ /\ jobs[k].status = "running" /\ jobs'[k].status = RetryStatus(jobs[k])
            /\ jobs'[k].attempts = jobs[k].attempts
<1>0. jobs \in [Jobs -> Rows] /\ jobs[k] \in Rows
  BY DEF QueueInv, TypeOK
<1>1. ASSUME NEW j \in Jobs, Enqueue(j)
      PROVE  jobs[k].status = "absent" /\ jobs'[k].attempts = 0
  <2>1. k = j
    BY <1>0, <1>1 DEF Enqueue
  <2>. QED
    BY <1>0, <1>1, <2>1 DEF Enqueue, NoRow
<1>2. ASSUME NEW p \in Processes, NEW j \in Jobs, LeaseJob(p, j)
      PROVE  /\ jobs[k].status \in {"queued", "running"} /\ jobs'[k].status = "running"
             /\ jobs'[k].attempts = jobs[k].attempts + 1
  <2> DEFINE row == Claimed(jobs[j], Owner[p], proc[p].at + LeaseDuration)
  <2>1. Claimable(j, proc[p].at) /\ jobs' = [jobs EXCEPT ![j] = row]
    BY <1>2 DEF LeaseJob, NextJobs
  <2>2. proc[p].at + LeaseDuration \in Nat /\ Owner[p] \in Owners
    BY DurationAssumption, OwnerAssumption DEF QueueInv, TypeOK, Loops
  <2>3. row.status = "running" /\ row.attempts = jobs[j].attempts + 1
    BY <1>0, <2>2, ClaimTypes
  <2>. HIDE DEF row
  <2>4. k = j
    BY <1>0, <2>1
  <2>. QED
    BY <1>0, <2>1, <2>3, <2>4 DEF Claimable
<1>3. ASSUME NEW p \in Processes, Complete(p) \/ Fail(p)
      PROVE  /\ jobs[k].status = "running" /\ jobs'[k].status \in TerminalJob
             /\ jobs'[k].attempts = jobs[k].attempts
  <2>1. PICK status \in TerminalJob, result \in Results : Finish(p, result, status)
    BY <1>3 DEF Complete, Fail, TerminalJob, Results
  <2>2. proc[p].job = k
    BY <1>0, <2>1 DEF Finish
  <2>3. /\ Released(jobs[k], status).status = status
        /\ Released(jobs[k], status).attempts = jobs[k].attempts
    BY <1>0, RowTypes
  <2>. QED
    BY <1>0, <2>1, <2>2, <2>3 DEF Finish, HoldsRow
<1>4. ASSUME NEW p \in Processes, Retry(p)
      PROVE  /\ jobs[k].status = "running" /\ jobs'[k].status = RetryStatus(jobs[k])
             /\ jobs'[k].attempts = jobs[k].attempts
  <2> DEFINE freed == Released(jobs[k], RetryStatus(jobs[k]))
             next == [freed EXCEPT !.availableAt = proc[p].at]
  <2>1. proc[p].job = k
    BY <1>0, <1>4 DEF Retry
  <2>2. RetryStatus(jobs[k]) \in TerminalJob \cup {"queued"}
    BY DEF RetryStatus, TerminalJob
  <2>3. /\ freed \in Rows /\ freed.status = RetryStatus(jobs[k])
        /\ freed.attempts = jobs[k].attempts
    BY <1>0, <2>2, RowTypes
  <2>4. next.status = RetryStatus(jobs[k]) /\ next.attempts = jobs[k].attempts
    BY <2>3 DEF Rows
  <2>5. jobs'[k] = next
    BY <1>0, <1>4, <2>1 DEF Retry
  <2>. QED
    BY <1>4, <2>1, <2>4, <2>5 DEF Retry, HoldsRow
<1>. QED
  BY <1>1, <1>2, <1>3, <1>4, NextCases
  DEF queueVars, LeaseNothing, LeaseLost, Restart, Crash, PassTime

\* The attempts of a row are only ever counted up.
LEMMA AttemptsGrow ==
  ASSUME QueueInv, [OpenNext]_queueVars, NEW k \in Jobs
  PROVE  jobs[k].attempts \in Nat /\ jobs'[k].attempts \in Nat
         /\ jobs'[k].attempts >= jobs[k].attempts
<1>1. jobs[k].attempts \in Nat /\ jobs'[k].attempts \in Nat
  BY QueueInvNext DEF QueueInv, TypeOK, Rows
<1>2. CASE jobs'[k] = jobs[k]
  BY <1>1, <1>2
<1>3. CASE jobs'[k] # jobs[k]
  BY <1>1, <1>3, RowChanges DEF QueueInv, AttemptsPositive
<1>. QED
  BY <1>1, <1>2, <1>3

(***************************************************************************)
(* Retry never returns an exhausted row to the queue.                      *)
(***************************************************************************)
THEOREM QueueBudget == OpenSpec => []QueuedHasBudget
<1> DEFINE Inv == QueueInv /\ QueuedHasBudget
<1>1. QueueInit => Inv
  BY QueueInvInit DEF QueueInit, QueuedHasBudget, NoRow
<1>2. Inv /\ [OpenNext]_queueVars => Inv'
  <2>. SUFFICES ASSUME QueueInv, QueuedHasBudget, [OpenNext]_queueVars, NEW k \in Jobs,
                       jobs'[k].status = "queued"
                PROVE  jobs'[k].attempts < MaxAttempts
    BY QueueInvNext DEF QueuedHasBudget
  <2>1. CASE jobs'[k] = jobs[k]
    BY <2>1 DEF QueuedHasBudget
  <2>2. CASE jobs'[k] # jobs[k]
    BY <2>2, RowChanges, BoundAssumption DEF RetryStatus, TerminalJob, QueueInv, TypeOK, Rows
  <2>. QED
    BY <2>1, <2>2
<1>3. Inv => QueuedHasBudget
  OBVIOUS
<1>. HIDE DEF Inv
<1>. QED
  BY <1>1, <1>2, <1>3, PTL DEF OpenSpec

(***************************************************************************)
(* A finished row is final: no lease, expiry or late settlement changes it.*)
(***************************************************************************)
THEOREM QueueFinal == OpenSpec => FinishedRowsFinal
<1>1. OpenSpec => []QueueInv
  BY QueueInvInit, QueueInvNext, PTL DEF OpenSpec
<1>2. QueueInv /\ [OpenNext]_queueVars =>
        [\A j \in Jobs : jobs[j].status \in TerminalJob => jobs'[j] = jobs[j]]_queueVars
  BY RowChanges DEF TerminalJob
<1>. QED
  BY <1>1, <1>2, PTL DEF OpenSpec, FinishedRowsFinal

(***************************************************************************)
(* A single process, which is how the application is deployed, and what    *)
(* its worker and the attempts of a row then have to do with each other:   *)
(* the worker owns the row it executes, and a row that nobody executes     *)
(* although it is running was left behind by a crash not yet answered by   *)
(* the claim it may cost.                                                  *)
(***************************************************************************)
SingleProcess == \A p, q \in Processes : p = q

Executed(j) == \E p \in Processes : Executing(p) /\ proc[p].job = j

AloneOwns == \A p \in Processes : Executing(p) => OwnsLease(p)

Orphans == \A j \in Jobs : jobs[j].status = "running" /\ ~Executed(j) =>
                             jobs[j].attempts < MaxAttempts + crashes

AttemptsInv == AloneOwns /\ QueuedHasBudget /\ AttemptsBounded /\ Orphans

\* With nobody executing, a step that leaves the rows alone keeps the counts.
LEMMA IdleStep ==
  ASSUME QueueInv, AttemptsInv, jobs' = jobs, crashes' = crashes,
         \A q \in Processes : ~Executing(q) /\ ~Executing(q)'
  PROVE  AttemptsInv'
<1>1. \A j \in Jobs : ~Executed(j)
  BY DEF Executed
<1>. QED
  BY <1>1 DEF AttemptsInv, AloneOwns, QueuedHasBudget, AttemptsBounded, Orphans

\* The only worker settles the row it executes.
LEMMA SettleStep ==
  ASSUME SingleProcess, QueueInv, AttemptsInv, NEW p \in Processes, Executing(p),
         NEW row \in Rows, row.status \in TerminalJob \cup {"queued"},
         row.attempts = jobs[proc[p].job].attempts,
         row.status = "queued" => row.attempts < MaxAttempts,
         jobs' = [jobs EXCEPT ![proc[p].job] = row], proc' = [proc EXCEPT ![p] = Idle],
         crashes' = crashes
  PROVE  AttemptsInv'
<1>1. proc[p].job \in Jobs /\ jobs \in [Jobs -> Rows]
  BY DEF QueueInv, TypeOK
<1>2. \A q \in Processes : q = p /\ ~Executing(q)'
  BY DEF SingleProcess, Executing, Idle, Loop, QueueInv, TypeOK
<1>3. \A j \in Jobs : jobs'[j] = IF j = proc[p].job THEN row ELSE jobs[j]
  BY <1>1
<1>4. \A j \in Jobs : Executed(j) => j = proc[p].job
  BY <1>2 DEF Executed
<1>. QED
  BY <1>1, <1>2, <1>3, <1>4
  DEF AttemptsInv, AloneOwns, QueuedHasBudget, AttemptsBounded, Orphans, TerminalJob

\* Every step keeps the counts: Retry looks at max_attempts, and a claim that
\* does not is paid for by a crash.
LEMMA AttemptsNext ==
  ASSUME SingleProcess, QueueInv, AttemptsInv, [OpenNext]_queueVars
  PROVE  AttemptsInv'
<1>0. /\ jobs \in [Jobs -> Rows] /\ proc \in [Processes -> Loops] /\ crashes \in Nat
      /\ MaxAttempts \in Nat /\ \A j \in Jobs : jobs[j].attempts \in Nat
  BY BoundAssumption DEF QueueInv, TypeOK, Rows
<1>. USE DEF AttemptsInv, AloneOwns, QueuedHasBudget, AttemptsBounded
<1>1. CASE UNCHANGED <<jobs, proc, crashes>>
  BY <1>1 DEF Orphans, Executed, Executing, OwnsLease
<1>2. ASSUME NEW j \in Jobs, Enqueue(j), UNCHANGED <<proc, crashes>> PROVE AttemptsInv'
  <2>1. /\ jobs'[j].status = "queued" /\ jobs'[j].attempts = 0
        /\ \A k \in Jobs \ {j} : jobs'[k] = jobs[k]
    BY <1>0, <1>2 DEF Enqueue, NoRow
  <2>2. AloneOwns'
    <3>. SUFFICES ASSUME NEW p \in Processes, Executing(p)' PROVE OwnsLease(p)'
      OBVIOUS
    <3>1. Executing(p) /\ OwnsLease(p) /\ proc[p].job \in Jobs
      BY <1>2 DEF Executing, QueueInv, TypeOK
    <3>2. proc[p].job # j
      BY <1>2, <3>1 DEF Enqueue, OwnsLease
    <3>. QED
      BY <1>2, <2>1, <3>1, <3>2 DEF OwnsLease
  <2>3. Orphans'
    BY <1>2, <2>1 DEF Orphans, Executed, Executing
  <2>. QED
    BY <1>0, <1>2, <2>1, <2>2, <2>3, BoundAssumption
<1>3. ASSUME NEW p \in Processes, NEW j \in Jobs, LeaseJob(p, j), UNCHANGED crashes
      PROVE  AttemptsInv'
  <2> DEFINE expires == proc[p].at + LeaseDuration
             row == Claimed(jobs[j], Owner[p], expires)
  <2>1. /\ proc[p].pc = "leasing" /\ Claimable(j, proc[p].at)
        /\ jobs' = [jobs EXCEPT ![j] = row]
        /\ proc' = [proc EXCEPT ![p] = Handling(j, jobs[j].attempts + 1, expires)]
    BY <1>3 DEF LeaseJob, NextJobs
  <2>2. expires \in Nat /\ Owner[p] \in Owners
    BY <1>0, DurationAssumption, OwnerAssumption DEF Loops
  <2>3. /\ row.status = "running" /\ row.owner = Owner[p] /\ row.expiresAt = expires
        /\ row.attempts = jobs[j].attempts + 1
    BY <1>0, <2>2, ClaimTypes
  <2>. HIDE DEF row, expires
  <2>4. /\ jobs'[j] = row /\ \A k \in Jobs \ {j} : jobs'[k] = jobs[k]
        /\ proc'[p].job = j /\ proc'[p].attempt = row.attempts
        /\ proc'[p].expires = expires /\ proc'[p].pc = "handling"
    BY <1>0, <2>1, <2>3 DEF Handling
  <2>5. \A q \in Processes : q = p /\ ~Executing(q)
    BY <2>1 DEF SingleProcess, Executing
  <2>6. jobs[j].attempts < MaxAttempts + crashes
    <3>1. CASE jobs[j].status = "queued"
      BY <1>0, <3>1
    <3>2. CASE jobs[j].status = "running"
      BY <2>5, <3>2 DEF Orphans, Executed
    <3>. QED
      BY <2>1, <3>1, <3>2 DEF Claimable
  <2>7. AloneOwns'
    BY <2>3, <2>4, <2>5 DEF OwnsLease
  <2>8. Executed(j)' /\ \A k \in Jobs : ~Executed(k)
    BY <2>4, <2>5 DEF Executed, Executing
  <2>9. Orphans'
    BY <1>3, <2>4, <2>8 DEF Orphans
  <2>10. QueuedHasBudget'
    BY <2>3, <2>4
  <2>11. AttemptsBounded'
    BY <1>0, <1>3, <2>3, <2>4, <2>6
  <2>. QED
    BY <2>7, <2>9, <2>10, <2>11
<1>4. ASSUME NEW p \in Processes, NEW result \in Results, HandlerReturns(p, result),
             UNCHANGED <<jobs, crashes>>
      PROVE  AttemptsInv'
  <2>1. /\ proc'[p].pc = "settling" /\ proc'[p].job = proc[p].job
        /\ proc'[p].attempt = proc[p].attempt /\ proc'[p].expires = proc[p].expires
        /\ \A q \in Processes \ {p} : proc'[q] = proc[q]
        /\ proc[p].pc = "handling"
    BY <1>0, <1>4 DEF HandlerReturns, Loops
  <2>2. \A q \in Processes : /\ Executing(q)' <=> Executing(q)
                             /\ proc'[q].job = proc[q].job
                             /\ proc'[q].attempt = proc[q].attempt
                             /\ proc'[q].expires = proc[q].expires
    BY <2>1 DEF Executing
  <2>. QED
    BY <1>4, <2>2 DEF Orphans, Executed, OwnsLease
<1>5. ASSUME NEW p \in Processes, Complete(p) \/ Fail(p), UNCHANGED crashes
      PROVE  AttemptsInv'
  <2>1. PICK status \in TerminalJob, result \in Results : Finish(p, result, status)
    BY <1>5 DEF Complete, Fail, TerminalJob, Results
  <2> DEFINE row == Released(jobs[proc[p].job], status)
  <2>2. Executing(p) /\ proc[p].job \in Jobs
    BY <2>1 DEF Finish, Executing, QueueInv, TypeOK
  <2>3. row \in Rows /\ row.status = status /\ row.attempts = jobs[proc[p].job].attempts
    BY <1>0, <2>2, RowTypes
  <2>. HIDE DEF AttemptsInv
  <2>. QED
    BY <1>5, <2>1, <2>2, <2>3, SettleStep DEF Finish, TerminalJob
<1>6. ASSUME NEW p \in Processes, Retry(p), UNCHANGED crashes PROVE AttemptsInv'
  <2> DEFINE old == jobs[proc[p].job]
             freed == Released(old, RetryStatus(old))
             row == [freed EXCEPT !.availableAt = proc[p].at]
  <2>1. Executing(p) /\ proc[p].job \in Jobs /\ old \in Rows /\ proc[p].at \in Nat
    BY <1>0, <1>6 DEF Retry, Executing, QueueInv, TypeOK, Loops
  <2>2. /\ RetryStatus(old) \in TerminalJob \cup {"queued"}
        /\ RetryStatus(old) = "queued" => old.attempts < MaxAttempts
    BY <1>0, <2>1 DEF RetryStatus, TerminalJob
  <2>3. freed \in Rows /\ freed.status = RetryStatus(old) /\ freed.attempts = old.attempts
    BY <2>1, <2>2, RowTypes
  <2>4. row \in Rows /\ row.status = RetryStatus(old) /\ row.attempts = old.attempts
    BY <2>1, <2>3 DEF Rows
  <2>5. jobs' = [jobs EXCEPT ![proc[p].job] = row] /\ proc' = [proc EXCEPT ![p] = Idle]
    BY <1>6 DEF Retry
  <2>. HIDE DEF AttemptsInv, row, freed
  <2>. QED
    BY <1>6, <2>1, <2>2, <2>4, <2>5, SettleStep
<1>7. ASSUME NEW p \in Processes, proc[p].pc \in {"idle", "leasing", "down"},
             proc'[p].pc \in {"idle", "leasing", "down"}, UNCHANGED <<jobs, crashes>>
      PROVE  AttemptsInv'
  <2>1. \A q \in Processes : ~Executing(q) /\ ~Executing(q)'
    BY <1>7 DEF SingleProcess, Executing
  <2>. QED
    BY <1>7, <2>1, IdleStep
<1>8. ASSUME NEW p \in Processes, LeaseLost(p) PROVE FALSE
  BY <1>8 DEF LeaseLost, Executing, OwnsLease, HoldsRow
<1>9. ASSUME NEW p \in Processes, Crash(p) PROVE AttemptsInv'
  <2>1. jobs' = jobs /\ crashes' = crashes + 1
    BY <1>9 DEF Crash
  <2>2. \A q \in Processes : ~Executing(q)'
    BY <1>0, <1>9 DEF Crash, SingleProcess, Executing, Down, Loop
  <2>3. \A j \in Jobs : jobs[j].attempts < MaxAttempts + (crashes + 1)
    BY <1>0
  <2>. QED
    BY <1>0, <2>1, <2>2, <2>3 DEF Orphans
<1>. QED
  BY <1>0, <1>1, <1>2, <1>3, <1>4, <1>5, <1>6, <1>7, <1>8, <1>9, NextCases
  DEF queueVars, StartPoll, LeaseNothing, Restart, PassTime, Idle, Loop

\* So the counts are kept in every reachable state of a single process.
LEMMA AttemptsInvariant ==
  ASSUME SingleProcess
  PROVE  OpenSpec => [](QueueInv /\ AttemptsInv)
<1> DEFINE Inv == QueueInv /\ AttemptsInv
<1>1. QueueInit => Inv
  <2>. SUFFICES ASSUME QueueInit PROVE AttemptsInv
    BY QueueInvInit
  <2>1. \A p \in Processes : ~Executing(p)
    BY DEF QueueInit, Executing, Idle, Loop
  <2>2. \A j \in Jobs : jobs[j].status = "absent" /\ jobs[j].attempts = 0
    BY DEF QueueInit, NoRow
  <2>. QED
    BY <2>1, <2>2, BoundAssumption
    DEF QueueInit, AttemptsInv, AloneOwns, QueuedHasBudget, AttemptsBounded, Orphans
<1>2. Inv /\ [OpenNext]_queueVars => Inv'
  BY QueueInvNext, AttemptsNext
<1>. HIDE DEF Inv
<1>3. OpenSpec => []Inv
  BY <1>1, <1>2, PTL DEF OpenSpec
<1>. QED
  BY <1>3 DEF Inv

(***************************************************************************)
(* With one process, max_attempts bounds the executions of a job but for   *)
(* those a crash cut short: the expired lease that a claim takes over is   *)
(* always that of a crashed execution, never that of a slow one.           *)
(***************************************************************************)
THEOREM QueueAttempts ==
  ASSUME SingleProcess
  PROVE  OpenSpec => []AttemptsBounded
<1>1. QueueInv /\ AttemptsInv => AttemptsBounded
  BY DEF AttemptsInv
<1>. QED
  BY <1>1, AttemptsInvariant, PTL

(***************************************************************************)
(* ErrLeaseLost, which ends the application, is never returned when one    *)
(* process runs: however long its handler takes, its row is still its own. *)
(***************************************************************************)
THEOREM QueueNoLeaseLost ==
  ASSUME SingleProcess
  PROVE  OpenSpec => [][\A p \in Processes : ~LeaseLost(p)]_queueVars
<1>1. QueueInv /\ AttemptsInv => \A p \in Processes : ~LeaseLost(p)
  BY DEF AttemptsInv, AloneOwns, LeaseLost, Executing, OwnsLease, HoldsRow
<1>. QED
  BY <1>1, AttemptsInvariant, PTL DEF OpenSpec

=============================================================================
