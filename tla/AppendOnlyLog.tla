---------------------------- MODULE AppendOnlyLog ----------------------------
(***************************************************************************)
(* What the execution ledger promises its readers, without saying how.     *)
(*                                                                         *)
(* Records are accepted one at a time and numbered in the order in which   *)
(* they are accepted.  A reader sees a block of them: the record at        *)
(* sequence number s is the s-th one ever accepted, nothing is missing     *)
(* inside the block, records leave it at the old end only, and the newest  *)
(* record never leaves.                                                    *)
(***************************************************************************)
EXTENDS Naturals, Functions

VARIABLES accepted,   \* how many records were ever accepted
          view        \* sequence number -> which record a reader finds there

vars == <<accepted, view>>

Init == /\ accepted = 0
        /\ view = << >>

\* A new record joins the block at its new end.
Accept == /\ accepted' = accepted + 1
          /\ view' = [s \in DOMAIN view \cup {accepted + 1} |->
                      IF s = accepted + 1 THEN s ELSE view[s]]

\* Everything up to `cut` leaves; the newest record stays.
Trim == \E cut \in DOMAIN view :
          /\ cut < accepted
          /\ view' = Restrict(view, {s \in DOMAIN view : s > cut})
          /\ UNCHANGED accepted

Next == Accept \/ Trim

Spec == Init /\ [][Next]_vars
=============================================================================
