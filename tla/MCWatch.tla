-------------------------------- MODULE MCWatch --------------------------------
(* Instances of Watch for TLC.                                             *)
EXTENDS Watch, TLC

CONSTANTS a1, a2

Symmetry == Permutations(Traces) \cup Permutations(People)

Execution(action, decision, scoped) ==
  [action |-> action, decision |-> decision, succeeded |-> TRUE, scoped |-> scoped]

\* One execution that went around a denial, with no scope, and one that needed
\* an approval.
TwoShapes == {Execution(a2, "DENIED", FALSE), Execution(a1, "REQUIRES_APPROVAL", TRUE)}
===============================================================================
