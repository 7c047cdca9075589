------------------------------ MODULE MCProvenance ------------------------------
(* Instances of Provenance for TLC.                                        *)
EXTENDS Provenance, TLC

CONSTANTS h1, h2, h3
===============================================================================
