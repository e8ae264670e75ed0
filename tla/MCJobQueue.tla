----------------------------- MODULE MCJobQueue -----------------------------
(* TLC instances of JobQueue.  OwnersDistinct gives each process an owner  *)
(* name of its own.                                                        *)
EXTENDS JobQueue, TLC

OwnersDistinct == [p \in Processes |-> p]

SymmetryOfNames == Permutations(Jobs) \cup Permutations(Processes)
=============================================================================
