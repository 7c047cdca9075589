------------------------------- MODULE MCCommerce -------------------------------
(* Instances of Commerce for TLC.                                          *)
EXTENDS Commerce, TLC

CONSTANTS acme, bell, cus1, cus2, slot1, slot2

Symmetry == Permutations(Slots)

\* A plan of one request and one a minute, and one of two requests and two.
TwoPlans == [free |-> [limit |-> 1, rate |-> 1], team |-> [limit |-> 2, rate |-> 2]]
===============================================================================
