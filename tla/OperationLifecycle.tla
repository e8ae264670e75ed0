------------------------- MODULE OperationLifecycle -------------------------
(***************************************************************************)
(* What the operations component promises of a power operation, whoever    *)
(* drives it: an operation is accepted only while its server has no other  *)
(* unfinished operation, its status only moves forward, and a finished     *)
(* operation stays as it is.  Success and timeout are verdicts of an       *)
(* execution, so neither is reached from the queue.  What the log says of  *)
(* an operation is true when it is written.                                *)
(***************************************************************************)
EXTENDS Integers

CONSTANTS Ops, Servers, NoServer

VARIABLES status, server, log

vars == <<status, server, log>>

Unfinished == {"queued", "running", "verifying"}
Finished == {"succeeded", "failed", "timed_out", "cancelled"}
Status == {"absent"} \cup Unfinished \cup Finished

Rank(st) == CASE st = "absent" -> 0
              [] st = "queued" -> 1
              [] st = "running" -> 2
              [] st = "verifying" -> 3
              [] OTHER -> 4

Busy(s) == \E o \in Ops : server[o] = s /\ status[o] \in Unfinished

Init ==
  /\ status = [o \in Ops |-> "absent"]
  /\ server = [o \in Ops |-> NoServer]
  /\ log = {}

Accept(o, s) ==
  /\ status[o] = "absent"
  /\ ~Busy(s)
  /\ status' = [status EXCEPT ![o] = "queued"]
  /\ server' = [server EXCEPT ![o] = s]
  /\ UNCHANGED log

Advance(o, next) ==
  /\ status[o] \in Unfinished
  /\ Rank(next) > Rank(status[o])
  /\ next \in {"succeeded", "timed_out"} => status[o] # "queued"
  /\ status' = [status EXCEPT ![o] = next]
  /\ UNCHANGED <<server, log>>

\* An entry that an operation was accepted, or how it ended.
Report(o, event) ==
  /\ status[o] # "absent"
  /\ event \in {"queued"} \cup ({status[o]} \cap Finished)
  /\ log' = log \cup {<<o, event>>}
  /\ UNCHANGED <<status, server>>

Next == \E o \in Ops : \/ \E s \in Servers : Accept(o, s)
                       \/ \E next \in Unfinished \cup Finished : Advance(o, next)
                       \/ \E event \in {"queued"} \cup Finished : Report(o, event)

Spec == Init /\ [][Next]_vars

-----------------------------------------------------------------------------

TypeOK == /\ status \in [Ops -> Status]
          /\ server \in [Ops -> Servers \cup {NoServer}]
          /\ log \subseteq Ops \X ({"queued"} \cup Finished)
          /\ \A o \in Ops : (status[o] = "absent") <=> (server[o] = NoServer)

(***************************************************************************)
(* A server has at most one unfinished operation ("the database's unique   *)
(* constraint guarantees it", docs/operations.md:15).                      *)
(***************************************************************************)
OneUnfinishedPerServer ==
  \A o1, o2 \in Ops :
    /\ status[o1] \in Unfinished /\ status[o2] \in Unfinished
    /\ server[o1] = server[o2]
    => o1 = o2

(***************************************************************************)
(* The log tells no lies: an entry is about an operation that was          *)
(* accepted, and an outcome in it is the operation's outcome for good.     *)
(***************************************************************************)
LogTrue ==
  \A o \in Ops : \A event \in {"queued"} \cup Finished :
    <<o, event>> \in log =>
      /\ status[o] # "absent"
      /\ event \in Finished => status[o] = event
=============================================================================
