------------------------------ MODULE MCRevocation ------------------------------
(* Instances of Revocation for TLC.                                        *)
EXTENDS Revocation, TLC

CONSTANTS capkit, other

Symmetry == Permutations(Tokens) \union Permutations(Services)

\* Two replicas of capkit, over a table or over a file.  Each has a guard too, so
\* that one which never writes is any other service.
WritersOfEach == [s \in Stores |-> {capkit, other}]
===============================================================================
