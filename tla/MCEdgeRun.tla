------------------------------- MODULE MCEdgeRun -------------------------------
(* Instances of EdgeRun for TLC, with the priorities of queue.ts (0 is     *)
(* high).                                                                  *)
EXTENDS EdgeRun, TLC

CONSTANTS j1, j2, j3, t1, t2

OneTarget == [j \in Jobs |-> t1]

SamePriority == [j \in Jobs |-> 1]
\* Where all jobs have one target and one priority they are interchangeable,
\* as the ids always are.
Symmetry == Permutations(Ids) \cup Permutations(Jobs)

\* A job of high priority, and another of another target.
TwoTargets == [j \in Jobs |-> IF j = j1 THEN t1 ELSE t2]
FirstIsHigh == [j \in Jobs |-> IF j = j1 THEN 0 ELSE 1]
=============================================================================
