------------------------------- MODULE MCWitness -------------------------------
(* Instances of Witness for TLC: what the tenants of an instance are owed. *)
EXTENDS Witness

\* A free tenant, one owed a witnessing every other hour, and one every day.
EveryOtherHour == {-1, 2, 24}
===============================================================================
