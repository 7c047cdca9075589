-------------------------------- MODULE Witness --------------------------------
(***************************************************************************)
(* Having the chain witnessed: sweepWitness() of                           *)
(* packages/capkit/src/server.ts with witness.ts and the decisions of      *)
(* billing.ts it rests on, between the ledger and the notary.              *)
(*                                                                         *)
(* An hourly timer, and every boot, asks whether a witnessing is due.  If  *)
(* it is, the chain is walked and counted, its head is read in a statement *)
(* of its own, and both are posted to the notary: the only await.  A row   *)
(* in notary_receipts, stamped when the answer has come, is what the next  *)
(* decision is made from.  The request, the answer and the process can be  *)
(* lost anywhere, and other services record all the while.                 *)
(*                                                                         *)
(* Time is in ticks, Hour of them to an hour.  The timer is punctual, and  *)
(* an answer takes from no time to Timeout ticks, under an hour.           *)
(***************************************************************************)
EXTENDS Notary, FiniteSetsExt

CONSTANTS Intervals,   \* witnessIntervalHours of the tenants' plans, -1 for never
          Hour,        \* ticks to an hour
          Timeout,     \* the longest an answer takes, in ticks
          MaxTime,     \* bound: how far the clock goes
          MaxMisses,   \* bound: how many witnessings in a row fail
          MaxRestarts  \* bound: how often capkit restarts

ASSUME TimeAssumption == /\ Hour \in Nat \ {0}
                         /\ Timeout \in 0..(Hour - 1)
                         /\ MaxTime \in Nat
ASSUME FaultsAssumption == MaxMisses \in Nat /\ MaxRestarts \in Nat
ASSUME IntervalsAssumption == Intervals \subseteq Int

VARIABLES
  now,        \* the clock
  nextSweep,  \* when the timer fires next
  pc,         \* where sweepWitness is: "idle", "walked", "asking" or "answered"
  counted,    \* its local head.checked
  asked,      \* the receipt the notary would give for what was posted, or NoReceipt
  askedAt,    \* when it was posted
  stored,     \* table notary_receipts: when each row was stamped
  misses,     \* how many witnessings have failed since the last that did not
  restarts    \* how often capkit has restarted

sweeping == <<nextSweep, pc, counted, asked, askedAt, stored, misses, restarts>>
vars == <<chain, pruned, edition, evidence, now, sweeping>>

NoReceipt == [head |-> <<0, 0>>]

Init == /\ NotaryInit
        /\ now = 0
        /\ nextSweep = 0
        /\ pc = "idle"
        /\ counted = 0
        /\ asked = NoReceipt
        /\ askedAt = 0
        /\ stored = << >>
        /\ misses = 0
        /\ restarts = 0

-----------------------------------------------------------------------------
(* The decision.                                                           *)

\* instanceWitnessInterval(): the shortest any tenant is entitled to.
Interval == LET owed == {h \in Intervals : h >= 0}
            IN  IF owed = {} THEN -1 ELSE Min(owed)

LastStored == stored[Len(stored)]

\* Mutants of Due: whole hours are counted; the tier is not asked.
DueRounded == /\ Interval >= 0
              /\ stored # << >> => (now - LastStored) \div Hour > Interval
DueHourly == /\ Interval >= 0
             /\ stored # << >> => now - LastStored >= Hour

\* witnessDue()
Due == /\ Interval >= 0
       /\ stored # << >> => now - LastStored >= Interval * Hour

-----------------------------------------------------------------------------
(* sweepWitness()                                                          *)

SweepNotDue == /\ pc = "idle" /\ now = nextSweep
               /\ ~Due
               /\ nextSweep' = now + Hour
               /\ UNCHANGED <<chain, pruned, edition, evidence, now, pc, counted,
                              asked, askedAt, stored, misses, restarts>>

\* verifyChain() reads the records and walks them.
Walk == /\ pc = "idle" /\ now = nextSweep
        /\ Due
        /\ nextSweep' = now + Hour
        /\ counted' = Cardinality(Held)
        /\ pc' = "walked"
        /\ UNCHANGED <<chain, pruned, edition, evidence, now, asked, askedAt,
                       stored, misses, restarts>>

\* Mutant of Send: an empty chain is witnessed like any other.
SendAnything ==
  /\ pc = "walked"
  /\ chain # << >>
  /\ asked' = [head |-> Hash(Len(chain)), claimed |-> counted,
               exact |-> counted = Cardinality(Held),
               prunedThen |-> pruned, overtaken |-> FALSE]
  /\ askedAt' = now
  /\ pc' = "asking"
  /\ UNCHANGED <<chain, pruned, edition, evidence, now, nextSweep, counted,
                 stored, misses, restarts>>

\* The getter headHash reads the newest record again, and both are posted.
Send ==
  /\ pc = "walked"
  /\ counted > 0
  /\ asked' = [head |-> Hash(Len(chain)), claimed |-> counted,
               exact |-> counted = Cardinality(Held),
               prunedThen |-> pruned, overtaken |-> FALSE]
  /\ askedAt' = now
  /\ pc' = "asking"
  /\ UNCHANGED <<chain, pruned, edition, evidence, now, nextSweep, counted,
                 stored, misses, restarts>>

\* A chain with nothing in it is refused: its claimed length is below one.
SendEmpty ==
  /\ pc = "walked"
  /\ counted = 0
  /\ pc' = "idle"
  /\ misses' = misses + 1
  /\ UNCHANGED <<chain, pruned, edition, evidence, now, nextSweep, counted,
                 asked, askedAt, stored, restarts>>

NotarySigns ==
  /\ pc = "asking"
  /\ Issue(asked)
  /\ pc' = "answered"
  /\ UNCHANGED <<chain, pruned, edition, now, nextSweep, counted, asked,
                 askedAt, stored, misses, restarts>>

\* The answer is there: the row is stamped with the time it is now.
Store ==
  /\ pc = "answered"
  /\ stored' = Append(stored, now)
  /\ pc' = "idle"
  /\ asked' = NoReceipt
  /\ misses' = 0
  /\ UNCHANGED <<chain, pruned, edition, evidence, now, nextSweep, counted,
                 askedAt, restarts>>

\* The notary cannot be reached, or refuses, or its answer is lost or late.
Skipped ==
  /\ pc \in {"asking", "answered"}
  /\ misses < MaxMisses
  /\ pc' = "idle"
  /\ asked' = NoReceipt
  /\ misses' = misses + 1
  /\ UNCHANGED <<chain, pruned, edition, evidence, now, nextSweep, counted,
                 askedAt, stored, restarts>>

\* capkit dies and boots, and a boot sweeps at once.
Restart ==
  /\ restarts < MaxRestarts
  /\ restarts' = restarts + 1
  /\ misses' = IF pc = "idle" THEN misses ELSE misses + 1
  /\ pc' = "idle"
  /\ asked' = NoReceipt
  /\ nextSweep' = now
  /\ UNCHANGED <<chain, pruned, edition, evidence, now, counted, askedAt, stored>>

\* The clock waits for a timer that is due, for code that has no await in it,
\* and for an answer that has timed out.
Tick ==
  /\ now < MaxTime
  /\ pc = "idle" => now < nextSweep
  /\ pc # "walked"
  /\ pc \in {"asking", "answered"} => now < askedAt + Timeout
  /\ now' = now + 1
  /\ UNCHANGED <<chain, pruned, edition, evidence, sweeping>>

-----------------------------------------------------------------------------
(* The chain meanwhile.                                                    *)

Recorded == Extend /\ UNCHANGED <<now, sweeping>>

\* Retention runs on the same timer, so never in the middle of a witnessing.
Retained == pc = "idle" /\ PruneOldest /\ UNCHANGED <<now, sweeping>>

Rewritten ==
  \E k \in Held :
    /\ RewriteFrom(k)
    /\ asked' = IF asked = NoReceipt THEN asked
                ELSE [asked EXCEPT !.overtaken = @ \/ asked.head[1] >= k]
    /\ UNCHANGED <<now, nextSweep, pc, counted, askedAt, stored, misses, restarts>>

Next == \/ SweepNotDue \/ Walk \/ Send \/ SendEmpty \/ NotarySigns \/ Store
        \/ Skipped \/ Restart \/ Tick
        \/ Recorded \/ Retained \/ Rewritten

Spec == Init /\ [][Next]_vars

-----------------------------------------------------------------------------
(* Properties.                                                             *)

TypeOK ==
  /\ chain \in Seq(0..MaxRewrites) /\ Len(chain) <= MaxRecords
  /\ pruned \in 0..MaxRecords
  /\ edition \in 0..MaxRewrites
  /\ evidence \subseteq Receipt
  /\ now \in 0..MaxTime
  /\ nextSweep \in now..(now + Hour)
  /\ pc \in {"idle", "walked", "asking", "answered"}
  /\ counted \in 0..MaxRecords
  /\ asked \in Receipt \cup {NoReceipt}
  /\ askedAt \in 0..now
  /\ stored \in Seq(0..MaxTime)
  /\ misses \in Nat
  /\ restarts \in 0..MaxRestarts

\* A rewritten history does not pass: once a record at or below a witnessed head
\* has been dropped or altered, no audit finds that head in its place again,
\* whatever is then recorded, pruned or witnessed (auditAgainstReceipts).
RewriteIsCaught ==
  \A r \in evidence : r.overtaken => /\ Finding(r) # "PRESENT"
                                     /\ ~Consistent(evidence)

\* An honest chain passes, as long as the length sent with a head was its place
\* and no retention sweep has run since: however much was recorded, and wherever
\* the witnessing failed or was repeated (sweepWitness, auditAgainstReceipts).
HonestPasses ==
  \A r \in evidence :
    (~r.overtaken /\ r.exact /\ r.prunedThen = pruned) => Finding(r) = "PRESENT"

\* How long history stays unwitnessed: the interval the plans promise, one sweep
\* more, an hour for every witnessing that failed, and the wait for an answer;
\* a restart makes it no longer (witnessDue, sweepWitness).
WindowBounded ==
  stored # << >> =>
    now - LastStored <= (Interval + 1 + misses) * Hour + Timeout

\* The notary is not asked on every boot: two rows are never closer than the
\* interval, however capkit restarts (the row read from storage, witnessDue).
WitnessingsSpaced ==
  \A i \in 2..Len(stored) : stored[i] - stored[i - 1] >= Interval * Hour
===============================================================================
