-------------------------------- MODULE Notary ---------------------------------
(***************************************************************************)
(* The notary, packages/notary/src/notary.ts, and the chain it is shown.   *)
(*                                                                         *)
(* A notary is sent the hash of a chain's newest record and the number of  *)
(* records the sender says the chain holds.  It answers with a receipt of  *)
(* both, and keeps one for as long as its process lives.                   *)
(* An audit compares receipts with the hashes of a chain presented later,  *)
(* which may have been continued, pruned by retention, or rewritten.       *)
(*                                                                         *)
(* A chain is the sequence of its records, each of them standing for the   *)
(* edition of the history it was written in: rewriting a record rewrites   *)
(* every record after it, since each one's hash covers the one before.  A  *)
(* hash is the record's number and its edition.  Receipts always verify:   *)
(* the notary keeps its key.  When a receipt was issued is left out.       *)
(***************************************************************************)
EXTENDS Integers, Sequences, FiniteSets

CONSTANTS MaxRecords,   \* bound: length of the chain
          MaxRewrites   \* bound: how often history is rewritten

ASSUME NotaryAssumption == MaxRecords \in Nat /\ MaxRewrites \in Nat

VARIABLES
  chain,     \* records 1..Len(chain) in the order of seq, pruned ones included
  pruned,    \* how many of the oldest are no longer held
  edition,   \* how often history has been rewritten
  evidence   \* every receipt ever issued, by whoever keeps it

\* head and claimed are sent to the notary.  The rest is not in the receipt:
\* whether `claimed` was the head's place among the records then held, how many
\* had been pruned, and whether history up to the head was rewritten since.
Receipt == [head : (1..MaxRecords) \X (0..MaxRewrites), claimed : 1..MaxRecords,
            exact : BOOLEAN, prunedThen : 0..MaxRecords, overtaken : BOOLEAN]

Hash(n) == <<n, chain[n]>>

Held == (pruned + 1)..Len(chain)

-----------------------------------------------------------------------------
(* auditAgainstReceipts()                                                  *)

\* Mutant of FoundAt: counts from zero.
FoundAtFromZero(r) ==
  IF \E n \in Held : Hash(n) = r.head
  THEN (CHOOSE n \in Held : Hash(n) = r.head) - pruned - 1 ELSE 0

\* The place of a receipt's head among the hashes presented, 0 when absent.
FoundAt(r) ==
  IF \E n \in Held : Hash(n) = r.head
  THEN (CHOOSE n \in Held : Hash(n) = r.head) - pruned ELSE 0

\* Mutant of Finding: a chain long enough is taken for the one witnessed.
FindingByLength(r) ==
  IF r.claimed > Len(chain) - pruned THEN "MISSING" ELSE "PRESENT"

Finding(r) == IF FoundAt(r) = 0 THEN "MISSING"
              ELSE IF FoundAt(r) # r.claimed THEN "MISPLACED" ELSE "PRESENT"

\* auditAgainstReceipts().consistent
Consistent(held) == held # {} /\ \A r \in held : Finding(r) = "PRESENT"

-----------------------------------------------------------------------------
(* What happens to the chain, outside the witnessing.                      *)

NotaryInit == /\ chain = << >>
              /\ pruned = 0
              /\ edition = 0
              /\ evidence = {}

\* TraceStore.record(), in any service.
Extend == /\ Len(chain) < MaxRecords
          /\ chain' = Append(chain, edition)
          /\ UNCHANGED <<pruned, edition, evidence>>

\* pruneToRetention(): the newest record always stays.
PruneOldest == /\ \E n \in Held \ {Len(chain)} : pruned' = n
               /\ UNCHANGED <<chain, edition, evidence>>

Overtake(rs, k) == {[r EXCEPT !.overtaken = @ \/ r.head[1] >= k] : r \in rs}

\* The operator drops or alters the k-th record and signs everything after it
\* again: what the receipts exist to show.
RewriteFrom(k) ==
  /\ edition < MaxRewrites
  /\ edition' = edition + 1
  /\ \E length \in {Len(chain) - 1, Len(chain)} :
       /\ length >= pruned + 1
       /\ chain' = [n \in 1..length |-> IF n < k THEN chain[n] ELSE edition']
  /\ evidence' = Overtake(evidence, k)
  /\ UNCHANGED pruned

\* Notary.witness(): it is told a head and a length, and can check neither.
Issue(r) == evidence' = evidence \cup {r}
===============================================================================
