-------------------------- MODULE MCPowerOperations --------------------------
(* TLC instances of PowerOperations.                                       *)
EXTENDS PowerOperations, TLC

\* NewWorker's default name, which every process of the application uses.
DefaultOwner == [p \in Processes |-> "worker"]

\* Every client talks to one process, or each to a process of its own.
OneHome == [c \in Clients |-> CHOOSE p \in Processes : TRUE]

StatesExplored == {"running", "stopped"}

(***************************************************************************)
(* States are told apart up to a shift of the clock: every comparison of   *)
(* times is between two times, and Horizon is 0 in these instances.  The   *)
(* columns of a finished row that no statement reads again are left out,    *)
(* and so is the history variable issued, which no action reads.           *)
(***************************************************************************)
RowView(row) ==
  IF row.status \in {"absent"} \cup TerminalJob THEN <<row.status>>
  ELSE <<row.status, row.attempts, row.availableAt - now, row.createdAt - now,
         IF row.status = "running" THEN row.expiresAt - now ELSE 0>>

Reading(loop) == \/ loop.pc = "leasing"
                 \/ loop.pc = "settling" /\ loop.result = "retryable"

LoopView(loop) ==
  <<loop.pc, loop.job, loop.attempt, loop.result,
    IF Reading(loop) THEN loop.at - now ELSE 0>>

ExecutionView(execution) ==
  <<execution.pc, execution.status, execution.goal, execution.result,
    execution.seen,
    IF execution.pc = "verify" THEN execution.deadline - now ELSE 0>>

StateView ==
  <<[o \in Jobs |-> RowView(jobs[o])], [p \in Processes |-> LoopView(proc[p])],
    [p \in Processes |-> ExecutionView(ex[p])],
    ops, inv, audit, req, crashes, faults, departures>>

\* The same with what WritesOncePerAttempt compares.
WritesView == <<StateView, issued, [o \in Jobs |-> jobs[o].attempts]>>

SymmetryOfData == Permutations(Jobs) \cup Permutations(Clients) \cup Permutations(Keys)
=============================================================================
