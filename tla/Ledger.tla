-------------------------------- MODULE Ledger --------------------------------
(***************************************************************************)
(* The execution ledger: packages/capkit/src/trace.ts, class TraceStore,   *)
(* over the three SQLite tables executions, retention_anchors and          *)
(* chain_checkpoints.                                                      *)
(*                                                                         *)
(* Every service of the suite opens the same database file.  record() runs *)
(* in any of them and is one BEGIN IMMEDIATE transaction.  Sweeping,       *)
(* verifying and checkpointing run in the single capkit process, one at a  *)
(* time (its JavaScript is synchronous), but each is several autocommitted *)
(* statements, so another process's record() lands between any two, and an *)
(* exception or a crash of capkit can end the operation after any of them. *)
(* A step below is one statement, or several that read only rows which     *)
(* capkit alone can change and so cannot be told apart from one.           *)
(*                                                                         *)
(* hashTrace is abstracted as injective: the n-th record ever accepted has *)
(* the hash n.  Signatures always verify: one key signs everything.        *)
(***************************************************************************)
EXTENDS Integers, FiniteSetsExt, Functions

CONSTANTS Policies,     \* retention periods, in days, a sweep may be run with
          MaxRecords,   \* bound: how many records are ever written
          MaxDay,       \* bound: how far the clock goes
          MaxFailures   \* bound: how many operations end half way

ASSUME BoundsAssumption == /\ MaxRecords \in Nat
                           /\ MaxDay \in Nat
                           /\ MaxFailures \in Nat
ASSUME PoliciesAssumption == Policies \subseteq Nat

GENESIS_HASH == 0

VARIABLES
  executions,    \* table executions: seq -> [hash, prevHash, startedAt]
  anchors,       \* table retention_anchors: seq -> hash
  checkpoints,   \* table chain_checkpoints: seq -> hash
  recorded,      \* how many records were ever accepted (not stored)
  today,         \* the clock, in days
  failures,      \* how many operations have ended half way so far
  pc,            \* where the capkit process is
  sweep,         \* locals of pruneToRetention
  walk,          \* locals of verifyChain and checkpoint
  verdict        \* what the last verification to finish reported

tables == <<executions, anchors, checkpoints>>
vars == <<executions, anchors, checkpoints, recorded, today, failures,
          pc, sweep, walk, verdict>>

-----------------------------------------------------------------------------
(* Reading and writing the tables.                                         *)

\* INSERT ... ON CONFLICT(seq) DO UPDATE
Upsert(table, key, row) ==
  [k \in DOMAIN table \cup {key} |-> IF k = key THEN row ELSE table[k]]

Seqs == DOMAIN executions

\* headHashAndSeq(): the newest record, else the newest anchor, else genesis.
Head == IF Seqs # {} THEN [seq  |-> Max(Seqs), hash |-> executions[Max(Seqs)].hash]
        ELSE IF DOMAIN anchors # {}
             THEN [seq  |-> Max(DOMAIN anchors), hash |-> anchors[Max(DOMAIN anchors)]]
             ELSE [seq |-> 0, hash |-> GENESIS_HASH]

\* Mutant of Usable: the hash of the record is not compared.
UsableUnchecked == {s \in DOMAIN checkpoints \cap Seqs : s = Max(DOMAIN checkpoints)}

\* The checkpoint a resumed walk may start from: the newest one, and only when
\* the record at its sequence number still has the hash it names.
Usable == {s \in DOMAIN checkpoints \cap Seqs :
             /\ s = Max(DOMAIN checkpoints)
             /\ checkpoints[s] = executions[s].hash}

\* The retention anchor that explains why the oldest record held is not the
\* first: the newest one, and only when it sits immediately below.
Swept == {a \in DOMAIN anchors : /\ a = Max(DOMAIN anchors)
                                 /\ Seqs # {}
                                 /\ a = Min(Seqs) - 1}

\* The loop of verifyChain over `rows`: each links to the one before it, and
\* the first to `base`.
LinksFrom(base, rows) ==
  \A s \in rows :
    LET before == {r \in rows : r < s}
    IN  executions[s].prevHash = IF before = {} THEN base
                                 ELSE executions[Max(before)].hash

\* verifyChain(): the rows it reads and the hash the first must link to.  A
\* "keyless" walk is verifyChain() with no public key, which honours no anchor.
WalkOk(mode) ==
  IF mode = "checkpoint" /\ Usable # {}
  THEN \A s \in Usable : LinksFrom(checkpoints[s], {r \in Seqs : r > s})
  ELSE IF mode # "keyless" /\ Swept # {}
       THEN \A a \in Swept : LinksFrom(anchors[a], Seqs)
       ELSE LinksFrom(GENESIS_HASH, Seqs)

\* An anchor names records that are still there: a sweep wrote it and has not
\* (or never) deleted them.
Overhang == \E a \in DOMAIN anchors : Seqs # {} /\ a >= Min(Seqs)

-----------------------------------------------------------------------------
Modes == {"genesis", "checkpoint", "keyless"}

NoSweep == [cutoff |-> 0, head |-> 0, cut |-> 0, hash |-> GENESIS_HASH]
NoWalk == [hash |-> GENESIS_HASH, seq |-> 0]
NoVerdict == [mode |-> "genesis", valid |-> TRUE, overhang |-> FALSE]

Init == /\ executions = << >>
        /\ anchors = << >>
        /\ checkpoints = << >>
        /\ recorded = 0
        /\ today = 0
        /\ failures = 0
        /\ pc = "idle"
        /\ sweep = NoSweep
        /\ walk = NoWalk
        /\ verdict = NoVerdict

\* record() in any process: one transaction that reads the head and inserts
\* the next row.  startedAt is the caller's, so it may lie in the past.
Record(startedAt) ==
  /\ recorded < MaxRecords
  /\ recorded' = recorded + 1
  /\ executions' = Upsert(executions, Head.seq + 1, [hash      |-> recorded + 1,
                                                     prevHash  |-> Head.hash,
                                                     startedAt |-> startedAt])
  /\ UNCHANGED <<anchors, checkpoints, today, failures, pc, sweep, walk, verdict>>

\* The clock moves on.
NextDay ==
  /\ today < MaxDay
  /\ today' = today + 1
  /\ UNCHANGED <<tables, recorded, failures, pc, sweep, walk, verdict>>

-----------------------------------------------------------------------------
(* pruneToRetention(), run at start-up and then every hour.                *)

\* The cutoff, and the head that will be kept whatever its age.
SweepHead(days) ==
  /\ pc = "idle"
  /\ Seqs # {}
  /\ pc' = "sweepCut"
  /\ sweep' = [cutoff |-> today - days, head |-> Max(Seqs), cut |-> 0, hash |-> GENESIS_HASH]
  /\ UNCHANGED <<tables, recorded, today, failures, walk, verdict>>

\* Mutant of Cut: the newest expired record, though an older one may not be.
CutAtNewestExpired == Max({0} \cup {s \in Seqs : /\ executions[s].startedAt < sweep.cutoff
                                                 /\ s < sweep.head})

\* The highest sequence number at or below which every record has expired,
\* and never the head.
Cut == LET kept == {s \in Seqs : executions[s].startedAt >= sweep.cutoff}
       IN  Min({s - 1 : s \in kept \cup {sweep.head}})

\* Mutant of SweepCut: no test that there is a boundary row; its hash is read
\* as -1, for undefined.
SweepCutUnchecked ==
  /\ pc = "sweepCut"
  /\ pc' = "sweepAnchor"
  /\ sweep' = [sweep EXCEPT !.cut = Cut,
                           !.hash = IF Cut \in Seqs THEN executions[Cut].hash ELSE -1]
  /\ UNCHANGED <<tables, recorded, today, failures, walk, verdict>>

\* Mutant of SweepCut: a boundary that has its anchor is taken for swept.
SweepCutOnce ==
  /\ pc = "sweepCut"
  /\ Cut \in Seqs
  /\ IF Cut \in DOMAIN anchors
     THEN pc' = "idle" /\ sweep' = NoSweep
     ELSE pc' = "sweepAnchor" /\ sweep' = [sweep EXCEPT !.cut = Cut,
                                                      !.hash = executions[Cut].hash]
  /\ UNCHANGED <<tables, recorded, today, failures, walk, verdict>>

\* The boundary row is there: remember its hash for the anchor.
SweepCut ==
  /\ pc = "sweepCut"
  /\ Cut \in Seqs
  /\ pc' = "sweepAnchor"
  /\ sweep' = [sweep EXCEPT !.cut = Cut, !.hash = executions[Cut].hash]
  /\ UNCHANGED <<tables, recorded, today, failures, walk, verdict>>

\* Nothing has expired: return without writing.
SweepNothing ==
  /\ pc = "sweepCut"
  /\ Cut \notin Seqs
  /\ pc' = "idle"
  /\ sweep' = NoSweep
  /\ UNCHANGED <<tables, recorded, today, failures, walk, verdict>>

\* Mutant of SweepAnchor: an anchor is kept for the first sweep only.
SweepAnchorOnce ==
  /\ pc = "sweepAnchor"
  /\ pc' = "sweepDelete"
  /\ anchors' = IF anchors = << >> THEN Upsert(anchors, sweep.cut, sweep.hash) ELSE anchors
  /\ UNCHANGED <<executions, checkpoints, recorded, today, failures, sweep, walk, verdict>>

\* INSERT INTO retention_anchors ... ON CONFLICT(seq) DO UPDATE
SweepAnchor ==
  /\ pc = "sweepAnchor"
  /\ pc' = "sweepDelete"
  /\ anchors' = Upsert(anchors, sweep.cut, sweep.hash)
  /\ UNCHANGED <<executions, checkpoints, recorded, today, failures, sweep, walk, verdict>>

\* Mutant of SweepDelete: deletes by age, not by position.
SweepDeleteByAge ==
  /\ pc = "sweepDelete"
  /\ pc' = "idle"
  /\ executions' = Restrict(executions, {s \in Seqs : executions[s].startedAt >= sweep.cutoff})
  /\ sweep' = NoSweep
  /\ UNCHANGED <<anchors, checkpoints, recorded, today, failures, walk, verdict>>

\* DELETE FROM executions WHERE seq <= cut
SweepDelete ==
  /\ pc = "sweepDelete"
  /\ pc' = "idle"
  /\ executions' = Restrict(executions, {s \in Seqs : s > sweep.cut})
  /\ sweep' = NoSweep
  /\ UNCHANGED <<anchors, checkpoints, recorded, today, failures, walk, verdict>>

-----------------------------------------------------------------------------
(* verifyChain() and checkpoint().                                         *)

\* verifyChain(): nothing is written, the caller gets the verdict.  The walk
\* without a key is also run by the MCP server, whatever capkit is doing.
Verify(mode) ==
  /\ pc = "idle" \/ mode = "keyless"
  /\ verdict' = [mode |-> mode, valid |-> WalkOk(mode), overhang |-> Overhang]
  /\ UNCHANGED <<tables, recorded, today, failures, pc, sweep, walk>>

\* checkpoint() begins with a full walk, and returns when it fails.
CheckpointWalk ==
  /\ pc = "idle"
  /\ WalkOk("genesis")
  /\ pc' = "checkpointHead"
  /\ UNCHANGED <<tables, recorded, today, failures, sweep, walk, verdict>>

\* verifyChain() reads the head again to report headHash.
CheckpointHead ==
  /\ pc = "checkpointHead"
  /\ pc' = "checkpointSeq"
  /\ walk' = [walk EXCEPT !.hash = Head.hash]
  /\ UNCHANGED <<tables, recorded, today, failures, sweep, verdict>>

\* checkpoint() reads MAX(seq); on an empty ledger it returns.
CheckpointSeq ==
  /\ pc = "checkpointSeq"
  /\ IF Seqs = {} THEN pc' = "idle" /\ walk' = NoWalk
                  ELSE pc' = "checkpointWrite" /\ walk' = [walk EXCEPT !.seq = Max(Seqs)]
  /\ UNCHANGED <<tables, recorded, today, failures, sweep, verdict>>

\* INSERT INTO chain_checkpoints ... ON CONFLICT(seq) DO UPDATE
CheckpointWrite ==
  /\ pc = "checkpointWrite"
  /\ pc' = "idle"
  /\ checkpoints' = Upsert(checkpoints, walk.seq, walk.hash)
  /\ walk' = NoWalk
  /\ UNCHANGED <<executions, anchors, recorded, today, failures, sweep, verdict>>

-----------------------------------------------------------------------------
\* A statement throws (sweepRetention catches and logs it), or capkit crashes
\* and restarts: the operation ends where it was, what it wrote stays written.
Abandon ==
  /\ pc # "idle"
  /\ failures < MaxFailures
  /\ failures' = failures + 1
  /\ pc' = "idle"
  /\ sweep' = NoSweep
  /\ walk' = NoWalk
  /\ UNCHANGED <<tables, recorded, today, verdict>>

SweepStep == SweepCut \/ SweepNothing \/ SweepAnchor \/ SweepDelete

CheckpointStep == CheckpointHead \/ CheckpointSeq \/ CheckpointWrite

Next == \/ \E startedAt \in 0..MaxDay : Record(startedAt)
        \/ NextDay
        \/ \E days \in Policies : SweepHead(days)
        \/ SweepStep
        \/ \E mode \in Modes : Verify(mode)
        \/ CheckpointWalk
        \/ CheckpointStep
        \/ Abandon

Spec == Init /\ [][Next]_vars

(***************************************************************************)
(* An operation that has begun runs on to its end (it is straight-line     *)
(* code), and the hourly timer gets its turn however often the process is  *)
(* busy with something else when it fires: the event loop runs due timers  *)
(* between any two callbacks.                                              *)
(***************************************************************************)
Fairness == /\ WF_vars(SweepStep)
            /\ WF_vars(CheckpointStep)
            /\ SF_vars(\E days \in Policies : SweepHead(days))

FairSpec == Spec /\ Fairness

-----------------------------------------------------------------------------
(* Properties.                                                             *)

Row == [hash : Nat, prevHash : Nat, startedAt : Nat]

\* The tables and the locals of the capkit process have their declared types.
TypeOK ==
  /\ executions \in [Seqs -> Row] /\ Seqs \subseteq Nat
  /\ anchors \in [DOMAIN anchors -> Nat] /\ DOMAIN anchors \subseteq Nat
  /\ checkpoints \in [DOMAIN checkpoints -> Nat]
  /\ DOMAIN checkpoints \subseteq Nat
  /\ recorded \in Nat /\ today \in Nat /\ failures \in Nat
  /\ pc \in {"idle", "sweepCut", "sweepAnchor", "sweepDelete",
              "checkpointHead", "checkpointSeq", "checkpointWrite"}
  /\ sweep \in [cutoff : Int, head : Nat, cut : Nat, hash : Nat]
  /\ walk \in [hash : Nat, seq : Nat]
  /\ verdict \in [mode : Modes, valid : BOOLEAN, overhang : BOOLEAN]

\* The records held are a gapless block that ends at the last one accepted,
\* each linked to the one before; when the first of all is gone, an anchor
\* sits immediately below the oldest held and names the hash it links to.
\* Whatever sweeps, crashes and other writers do, the surviving chain can
\* always be explained from what is in the tables.
ChainExplained ==
  /\ recorded > 0 => recorded \in Seqs
  /\ \A s \in Seqs :
       /\ executions[s].hash = s /\ s <= recorded
       /\ s < recorded => s + 1 \in Seqs /\ executions[s + 1].prevHash = executions[s].hash
  /\ \A s \in Seqs : s - 1 \notin Seqs =>
       \/ s = 1 /\ executions[s].prevHash = GENESIS_HASH
       \/ s - 1 \in DOMAIN anchors /\ anchors[s - 1] = executions[s].prevHash

\* verifyChain() with the instance's key cries BROKEN on a ledger that nobody
\* edited only while an anchor names records that are still there (trace.ts:1301
\* calls such an anchor harmless: it is, but for this).  That a
\* checkpoint was signed while another process was recording is no exception:
\* a resumed walk either starts from a record that is really there or not at
\* all.
NoFalseAlarm == verdict.mode # "keyless" /\ ~verdict.valid => verdict.overhang

\* A sweep removes only records that were already expired when it began, from
\* the old end, and never the head (the two can disagree: records arrive late).
OnlyExpiredLeave ==
  [][\A s \in Seqs \ DOMAIN executions' :
       /\ executions[s].startedAt < sweep.cutoff
       /\ \A kept \in DOMAIN executions' : s < kept
       /\ DOMAIN executions' # {}]_vars

\* A sweep that stopped between its anchor and its delete is made good by a
\* later one, at the latest when what the anchor names has expired under every
\* policy: the ledger does not read as broken for ever.
Healed ==
  (Overhang /\ \A s \in Seqs : s <= Max(DOMAIN anchors) =>
                 \A days \in Policies : executions[s].startedAt < today - days) ~> ~Overhang

\* The ledger keeps the promise of AppendOnlyLog.
Log == INSTANCE AppendOnlyLog
         WITH accepted <- recorded,
              view <- [s \in Seqs |-> executions[s].hash]
LogSpec == Log!Spec
=============================================================================
