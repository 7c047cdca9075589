----------------------------- MODULE LedgerProofs -----------------------------
(***************************************************************************)
(* Theorems about Ledger, for every retention policy and every bound.      *)
(*                                                                         *)
(* The invariant that carries them, IInv, says that the records held are   *)
(* an interval m..recorded, that the record numbered s is the s-th one     *)
(* accepted and links to the one before, that the record just below m is   *)
(* named by an anchor, and that a sweep in progress remembers a record     *)
(* below the head together with its hash.  That a sweep takes only what    *)
(* has expired needs, beside it, what the sweep saw when it chose its      *)
(* boundary (Expired).  With the interval the ledger implements            *)
(* AppendOnlyLog, step by step.                                            *)
(***************************************************************************)
EXTENDS Ledger, Integers, WellFoundedInduction, TLAPS

Block == /\ recorded = 0 => Seqs = {} /\ DOMAIN anchors = {}
         /\ recorded > 0 => \E m \in 1..recorded :
                               /\ Seqs = m..recorded
                               /\ m = 1 \/ m - 1 \in DOMAIN anchors

Links == \A s \in Seqs : executions[s].hash = s /\ executions[s].prevHash = s - 1

Anchored == \A a \in DOMAIN anchors : a >= 1 /\ a < recorded /\ anchors[a] = a

Sweeping ==
  /\ pc = "sweepCut" => sweep.head >= 1 /\ sweep.head <= recorded
  /\ pc \in {"sweepAnchor", "sweepDelete"} =>
       sweep.cut >= 1 /\ sweep.cut < recorded /\ sweep.hash = sweep.cut
  /\ pc = "sweepDelete" => sweep.cut \in DOMAIN anchors

IInv == TypeOK /\ Block /\ Links /\ Anchored /\ Sweeping

-----------------------------------------------------------------------------
(* Numbers: what Min and Max (CHOOSE) are when there is a least or greatest.*)

\* Two integers neither of which exceeds the other are one.
LEMMA Antisymmetry == \A x, y \in Int : x <= y /\ y <= x => x = y
OBVIOUS

\* Min is the least element when there is one: the oldest record.
LEMMA MinIs ==
  ASSUME NEW S, S \subseteq Int, NEW m \in S, \A s \in S : m <= s
  PROVE  Min(S) = m
<1>1. Min(S) \in S /\ \A s \in S : Min(S) <= s
  BY Zenon DEF Min
<1>2. Min(S) \in Int /\ m \in Int
  BY <1>1, Zenon
<1>3. Min(S) <= m /\ m <= Min(S)
  BY <1>1, Zenon
<1>. QED  BY <1>2, <1>3, Antisymmetry, Zenon

\* Max is the greatest element when there is one: the newest record.
LEMMA MaxIs ==
  ASSUME NEW S, S \subseteq Int, NEW m \in S, \A s \in S : s <= m
  PROVE  Max(S) = m
<1>1. \A x, y \in Int : x <= y <=> y >= x
  OBVIOUS
<1>2. \A s \in S : m >= s
  BY <1>1
<1>3. Max(S) \in S /\ \A s \in S : Max(S) >= s
  BY <1>2, Zenon DEF Max
<1>4. Max(S) \in Int /\ m \in Int
  BY <1>3, Zenon
<1>5. Max(S) <= m /\ m <= Max(S)
  BY <1>1, <1>3, <1>4, Zenon
<1>. QED  BY <1>4, <1>5, Antisymmetry, Zenon

\* A non-empty set of naturals has a least element.
LEMMA NatLeast ==
  ASSUME NEW S, S \subseteq Nat, S # {}
  PROVE  \E m \in S : \A s \in S : m <= s
<1>1. IsWellFoundedOn(OpToRel(<, Nat), Nat)
  BY NatLessThanWellFounded
<1>2. PICK m \in S : \A s \in S : ~ (<<s, m>> \in OpToRel(<, Nat))
  BY <1>1, WFMin, Zenon
<1>3. \A s \in Nat, t \in Nat : s < t \/ t <= s
  OBVIOUS
<1>4. ASSUME NEW s \in S, s < m PROVE <<s, m>> \in OpToRel(<, Nat)
  <2>1. s \in Nat /\ m \in Nat
    BY Zenon
  <2>2. <<s, m>> \in Nat \X Nat /\ <<s, m>>[1] = s /\ <<s, m>>[2] = m
    BY <2>1
  <2>. QED  BY <2>2, <1>4, Zenon DEF OpToRel
<1>. QED  BY <1>2, <1>3, <1>4, Zenon

-----------------------------------------------------------------------------
(* Lemmas about the state in which IInv holds.                             *)

\* Sequence numbers are naturals from 1 to the number of records accepted.
LEMMA SeqsBounded ==
  ASSUME IInv
  PROVE  Seqs \subseteq Nat /\ \A s \in Seqs : s >= 1 /\ s <= recorded
<1>1. recorded \in Nat
  BY DEF IInv, TypeOK
<1>2. CASE recorded = 0
  BY <1>2 DEF IInv, Block
<1>3. CASE recorded > 0
  <2>1. PICK m \in 1..recorded : Seqs = m..recorded
    BY <1>3 DEF IInv, Block
  <2>. QED  BY <2>1, <1>1
<1>. QED  BY <1>1, <1>2, <1>3

\* The newest record held is the last one accepted.
LEMMA NewestIsLast ==
  ASSUME IInv, Seqs # {}
  PROVE  Max(Seqs) = recorded /\ recorded \in Seqs /\ recorded \in Nat /\ recorded >= 1
<1>1. recorded \in Nat /\ recorded > 0
  BY DEF IInv, TypeOK, Block
<1>2. recorded \in Seqs
  BY <1>1 DEF IInv, Block
<1>3. Seqs \subseteq Int /\ \A s \in Seqs : s <= recorded
  BY SeqsBounded
<1>4. Max(Seqs) = recorded
  BY <1>2, <1>3, MaxIs, Zenon
<1>. QED  BY <1>1, <1>2, <1>4

\* headHashAndSeq() finds the last record accepted, so the next record links
\* to it and gets the next number.
LEMMA HeadIsLast ==
  ASSUME IInv
  PROVE  Head.seq = recorded /\ Head.hash = recorded
<1>1. recorded \in Nat
  BY DEF IInv, TypeOK
<1>2. CASE Seqs = {}
  <2>1. recorded = 0 /\ DOMAIN anchors = {}
    BY <1>1, <1>2 DEF IInv, Block
  <2>. QED  BY <1>2, <2>1 DEF Head, GENESIS_HASH
<1>3. CASE Seqs # {}
  <2>1. executions[recorded].hash = recorded
    BY <1>3, NewestIsLast DEF IInv, Links
  <2>2. Head = [seq |-> recorded, hash |-> recorded]
    BY <1>3, <2>1, NewestIsLast, Zenon DEF Head
  <2>. QED  BY <2>2
<1>. QED  BY <1>2, <1>3

\* The boundary a sweep chooses lies below the head, which is therefore kept,
\* and every record at or below it has expired.
LEMMA CutBelowHead ==
  ASSUME IInv, pc = "sweepCut"
  PROVE  /\ Cut < recorded
         /\ \A s \in Seqs : s <= Cut => executions[s].startedAt < sweep.cutoff
<1> DEFINE kept == {s \in Seqs : executions[s].startedAt >= sweep.cutoff}
           D == {s - 1 : s \in kept \cup {sweep.head}}
<1>1. sweep.head \in Nat /\ sweep.head >= 1 /\ sweep.head <= recorded /\ recorded \in Nat
  BY DEF IInv, TypeOK, Sweeping
<1>2. \A s \in kept \cup {sweep.head} : s \in Nat /\ s >= 1
  BY <1>1, SeqsBounded
<1>3. \A s \in kept \cup {sweep.head} : s - 1 \in Nat
  BY <1>2
<1>4. D \subseteq Nat /\ sweep.head - 1 \in D
  BY <1>3, Zenon
<1>5. PICK m \in D : \A d \in D : m <= d
  BY <1>4, NatLeast, Zenon
<1>6. D \subseteq Int
  BY <1>4
<1>7. Min(D) = m
  BY <1>5, <1>6, MinIs, Zenon
<1>8. Cut = m
  BY <1>7, Zenon DEF Cut
<1>9. m <= sweep.head - 1 /\ m \in Nat
  BY <1>4, <1>5, Zenon
<1>10. ASSUME NEW s \in Seqs, s <= m
       PROVE  executions[s].startedAt < sweep.cutoff
  <2>1. executions[s].startedAt \in Nat /\ sweep.cutoff \in Int /\ s \in Nat
    BY SeqsBounded DEF IInv, TypeOK, Row
  <2>2. s \notin kept
    <3>. SUFFICES ASSUME s \in kept PROVE FALSE
      OBVIOUS
    <3>1. m <= s - 1
      BY <1>5, Zenon
    <3>. QED  BY <3>1, <1>9, <1>10, <2>1
  <2>. QED  BY <2>1, <2>2
<1>. QED  BY <1>1, <1>8, <1>9, <1>10

-----------------------------------------------------------------------------
(* Every step preserves IInv.                                              *)

\* Steps that leave the two tables and the count alone need only be checked
\* for the types and for what a sweep remembers.
LEMMA TablesUnchanged ==
  ASSUME IInv, UNCHANGED <<executions, anchors, recorded>>, TypeOK', Sweeping'
  PROVE  IInv'
<1>1. Seqs' = Seqs
  BY DEF Seqs
<1>2. Block' /\ Links' /\ Anchored'
  BY <1>1 DEF IInv, Block, Links, Anchored
<1>. QED  BY <1>2 DEF IInv

\* A record appended by any process extends the block by one at its new end.
LEMMA RecordPreserves ==
  ASSUME IInv, NEW startedAt \in 0..MaxDay, Record(startedAt)
  PROVE  IInv'
<1> DEFINE n == recorded + 1
           row == [hash |-> n, prevHash |-> recorded, startedAt |-> startedAt]
<1>1. recorded \in Nat /\ n \in Nat /\ row \in Row /\ today \in Nat
  BY BoundsAssumption DEF IInv, TypeOK, Row
<1>2. recorded' = n /\ executions' = Upsert(executions, n, row)
  BY HeadIsLast, Zenon DEF Record
<1>3. Seqs' = Seqs \cup {n} /\ n \notin Seqs
  BY <1>1, <1>2, SeqsBounded DEF Seqs, Upsert
<1>4. /\ \A s \in Seqs : executions'[s] = executions[s]
      /\ executions'[n] = row
  BY <1>2, <1>3 DEF Seqs, Upsert
<1>5. UNCHANGED <<anchors, checkpoints, today, failures, pc, sweep, walk, verdict>>
  BY DEF Record
<1>6. TypeOK'
  <2>1. executions' \in [Seqs' -> Row] /\ Seqs' \subseteq Nat
    <3>1. executions' = [s \in Seqs' |-> executions'[s]]
      BY <1>2 DEF Seqs, Upsert
    <3>2. \A s \in Seqs' : executions'[s] \in Row /\ s \in Nat
      BY <1>1, <1>3, <1>4 DEF IInv, TypeOK
    <3>. QED  BY <3>1, <3>2
  <2>. QED  BY <2>1, <1>1, <1>2, <1>5 DEF IInv, TypeOK, Modes
<1>7. Block'
  <2>1. CASE recorded = 0
    <3>1. Seqs' = 1..n
      BY <2>1, <1>3 DEF IInv, Block
    <3>. QED  BY <3>1, <1>2, <2>1 DEF Block
  <2>2. CASE recorded > 0
    <3>1. PICK m \in 1..recorded : /\ Seqs = m..recorded
                                   /\ m = 1 \/ m - 1 \in DOMAIN anchors
      BY <2>2 DEF IInv, Block
    <3>2. Seqs' = m..n /\ m \in 1..n
      BY <3>1, <1>1, <1>3
    <3>. QED  BY <3>1, <3>2, <1>1, <1>2, <1>5 DEF Block
  <2>. QED  BY <2>1, <2>2, <1>1
<1>8. Links'
  BY <1>1, <1>3, <1>4 DEF IInv, Links
<1>9. Anchored' /\ Sweeping'
  BY <1>1, <1>2, <1>5 DEF IInv, TypeOK, Anchored, Sweeping
<1>. QED  BY <1>6, <1>7, <1>8, <1>9 DEF IInv

\* An anchor names a record below the head and the hash it has.
LEMMA SweepAnchorPreserves ==
  ASSUME IInv, SweepAnchor
  PROVE  IInv'
<1> DEFINE c == sweep.cut
<1>1. /\ c \in Nat /\ c >= 1 /\ c < recorded /\ sweep.hash = c /\ recorded \in Nat
  BY DEF IInv, TypeOK, Sweeping, SweepAnchor
<1>2. anchors' = Upsert(anchors, c, c)
  BY <1>1, Zenon DEF SweepAnchor
<1>3. UNCHANGED <<executions, checkpoints, recorded, today, failures, sweep, walk, verdict>>
      /\ pc' = "sweepDelete" /\ Seqs' = Seqs
  BY DEF SweepAnchor, Seqs
<1>4. DOMAIN anchors' = DOMAIN anchors \cup {c}
  BY <1>2 DEF Upsert
<1>5. \A a \in DOMAIN anchors' : anchors'[a] = IF a = c THEN c ELSE anchors[a]
  BY <1>2, <1>4 DEF Upsert
<1>6. TypeOK'
  <2>1. anchors' = [a \in DOMAIN anchors' |-> anchors'[a]]
    BY <1>2 DEF Upsert
  <2>2. \A a \in DOMAIN anchors' : anchors'[a] \in Nat /\ a \in Nat
    BY <1>1, <1>4, <1>5 DEF IInv, TypeOK
  <2>. QED  BY <2>1, <2>2, <1>3 DEF IInv, TypeOK, Modes
<1>7. Block' /\ Links'
  <2>1. PICK m \in 1..recorded : /\ Seqs = m..recorded
                                 /\ m = 1 \/ m - 1 \in DOMAIN anchors
    BY <1>1 DEF IInv, Block
  <2>2. Block'
    BY <2>1, <1>1, <1>3, <1>4 DEF Block
  <2>3. Links'
    BY <1>3 DEF IInv, Links
  <2>. QED  BY <2>2, <2>3
<1>8. Anchored'
  BY <1>1, <1>3, <1>4, <1>5 DEF IInv, Anchored
<1>9. Sweeping'
  BY <1>1, <1>3, <1>4 DEF IInv, Sweeping
<1>. QED  BY <1>6, <1>7, <1>8, <1>9 DEF IInv

\* Deleting up to the boundary leaves a block that starts right above an anchor.
LEMMA SweepDeletePreserves ==
  ASSUME IInv, SweepDelete
  PROVE  IInv'
<1> DEFINE c == sweep.cut
<1>1. c \in Nat /\ c >= 1 /\ c < recorded /\ recorded \in Nat /\ c \in DOMAIN anchors
  BY DEF IInv, TypeOK, Sweeping, SweepDelete
<1>2. UNCHANGED <<anchors, checkpoints, recorded, today, failures, walk, verdict>>
      /\ pc' = "idle" /\ sweep' = NoSweep
  BY DEF SweepDelete
<1>3. Seqs' = {s \in Seqs : s > c} /\ \A s \in Seqs' : executions'[s] = executions[s]
  BY DEF SweepDelete, Seqs, Restrict
<1>4. TypeOK'
  <2>1. executions' = [s \in Seqs' |-> executions'[s]]
    BY DEF SweepDelete, Seqs, Restrict
  <2>2. \A s \in Seqs' : executions'[s] \in Row /\ s \in Nat
    BY <1>3 DEF IInv, TypeOK
  <2>. QED  BY <2>1, <2>2, <1>2 DEF IInv, TypeOK, NoSweep, Modes, GENESIS_HASH
<1>5. Block'
  <2>1. PICK m \in 1..recorded : /\ Seqs = m..recorded
                                 /\ m = 1 \/ m - 1 \in DOMAIN anchors
    BY <1>1 DEF IInv, Block
  <2>2. CASE c < m
    <3>1. Seqs' = m..recorded
      BY <2>1, <2>2, <1>1, <1>3
    <3>. QED  BY <3>1, <2>1, <1>1, <1>2 DEF Block
  <2>3. CASE c >= m
    <3>1. Seqs' = (c + 1)..recorded /\ c + 1 \in 1..recorded
      BY <2>1, <2>3, <1>1, <1>3
    <3>2. (c + 1) - 1 \in DOMAIN anchors
      BY <1>1
    <3>. QED  BY <3>1, <3>2, <1>1, <1>2 DEF Block
  <2>. QED  BY <2>1, <2>2, <2>3, <1>1
<1>6. Links'
  BY <1>3 DEF IInv, Links
<1>7. Anchored' /\ Sweeping'
  BY <1>2 DEF IInv, Anchored, Sweeping
<1>. QED  BY <1>4, <1>5, <1>6, <1>7 DEF IInv

\* IInv holds initially.
LEMMA InitIInv == Init => IInv
<1>. SUFFICES ASSUME Init PROVE IInv
  OBVIOUS
<1>1. Seqs = {} /\ DOMAIN anchors = {} /\ DOMAIN checkpoints = {}
  BY DEF Init, Seqs
<1>2. TypeOK
  <2>1. executions \in [Seqs -> Row] /\ anchors \in [DOMAIN anchors -> Nat]
        /\ checkpoints \in [DOMAIN checkpoints -> Nat]
    BY <1>1 DEF Init, Seqs
  <2>. QED  BY <1>1, <2>1 DEF Init, TypeOK, NoSweep, NoWalk, NoVerdict, Modes, GENESIS_HASH
<1>. QED  BY <1>1, <1>2 DEF Init, IInv, Block, Links, Anchored, Sweeping

\* One step of any process preserves IInv.
LEMMA StepIInv == IInv /\ [Next]_vars => IInv'
<1>. SUFFICES ASSUME IInv, [Next]_vars PROVE IInv'
  OBVIOUS
<1>1. ASSUME NEW startedAt \in 0..MaxDay, Record(startedAt) PROVE IInv'
  BY <1>1, RecordPreserves
<1>2. CASE NextDay
  BY <1>2, TablesUnchanged DEF IInv, TypeOK, Sweeping, NextDay, tables, Seqs
<1>3. ASSUME NEW days \in Policies, SweepHead(days) PROVE IInv'
  <2>1. Max(Seqs) \in Nat /\ Max(Seqs) >= 1 /\ Max(Seqs) <= recorded
    BY <1>3, NewestIsLast DEF SweepHead
  <2>2. days \in Nat /\ today \in Nat
    BY PoliciesAssumption DEF IInv, TypeOK
  <2>3. sweep' \in [cutoff : Int, head : Nat, cut : Nat, hash : Nat]
        /\ sweep'.head = Max(Seqs)
    BY <1>3, <2>1, <2>2 DEF SweepHead, NoSweep, GENESIS_HASH
  <2>. QED  BY <1>3, <2>1, <2>3, TablesUnchanged DEF IInv, TypeOK, Sweeping, SweepHead, tables, Seqs
<1>4. CASE SweepCut
  <2>1. Cut < recorded /\ Cut \in Seqs
    BY <1>4, CutBelowHead DEF SweepCut
  <2>2. Cut \in Nat /\ Cut >= 1 /\ executions[Cut].hash = Cut
    BY <2>1, SeqsBounded DEF IInv, Links
  <2>3. sweep' \in [cutoff : Int, head : Nat, cut : Nat, hash : Nat]
        /\ sweep'.cut = Cut /\ sweep'.hash = Cut
    BY <1>4, <2>2 DEF SweepCut, IInv, TypeOK
  <2>. QED  BY <1>4, <2>1, <2>2, <2>3, TablesUnchanged DEF IInv, TypeOK, Sweeping, SweepCut, tables, Seqs
<1>5. CASE SweepNothing
  BY <1>5, TablesUnchanged
     DEF IInv, TypeOK, Sweeping, SweepNothing, NoSweep, GENESIS_HASH, tables, Seqs
<1>6. CASE SweepAnchor
  BY <1>6, SweepAnchorPreserves
<1>7. CASE SweepDelete
  BY <1>7, SweepDeletePreserves
<1>8. ASSUME NEW mode \in Modes, Verify(mode) PROVE IInv'
  <2>1. WalkOk(mode) \in BOOLEAN /\ Overhang \in BOOLEAN
    BY Zenon DEF WalkOk, LinksFrom, Overhang
  <2>2. verdict' \in [mode : Modes, valid : BOOLEAN, overhang : BOOLEAN]
    BY <1>8, <2>1, Zenon DEF Verify
  <2>. QED  BY <1>8, <2>2, TablesUnchanged DEF IInv, TypeOK, Sweeping, Verify, tables, Seqs
<1>9. CASE CheckpointWalk
  BY <1>9, TablesUnchanged DEF IInv, TypeOK, Sweeping, CheckpointWalk, tables, Seqs
<1>10. CASE CheckpointHead
  <2>1. walk' \in [hash : Nat, seq : Nat]
    BY <1>10, HeadIsLast DEF CheckpointHead, IInv, TypeOK
  <2>. QED  BY <1>10, <2>1, TablesUnchanged DEF IInv, TypeOK, Sweeping, CheckpointHead, tables, Seqs
<1>11. CASE CheckpointSeq
  <2>1. walk' \in [hash : Nat, seq : Nat]
    BY <1>11, NewestIsLast DEF CheckpointSeq, NoWalk, IInv, TypeOK, GENESIS_HASH
  <2>. QED  BY <1>11, <2>1, TablesUnchanged DEF IInv, TypeOK, Sweeping, CheckpointSeq, tables, Seqs
<1>12. CASE CheckpointWrite
  <2> DEFINE keys == DOMAIN checkpoints \cup {walk.seq}
  <2>1. walk.seq \in Nat /\ walk.hash \in Nat
        /\ walk' \in [hash : Nat, seq : Nat]
    BY <1>12 DEF IInv, TypeOK, CheckpointWrite, NoWalk, GENESIS_HASH
  <2>2. checkpoints' = [k \in keys |-> IF k = walk.seq THEN walk.hash ELSE checkpoints[k]]
    BY <1>12 DEF CheckpointWrite, Upsert
  <2>3. DOMAIN checkpoints' = keys /\ keys \subseteq Nat
        /\ checkpoints' \in [keys -> Nat]
    BY <2>1, <2>2 DEF IInv, TypeOK
  <2>. QED  BY <1>12, <2>1, <2>3, TablesUnchanged DEF IInv, TypeOK, Sweeping, CheckpointWrite, Seqs
<1>13. CASE Abandon
  BY <1>13, TablesUnchanged
     DEF IInv, TypeOK, Sweeping, Abandon, NoSweep, NoWalk, GENESIS_HASH, tables, Seqs
<1>14. CASE UNCHANGED vars
  BY <1>14, TablesUnchanged DEF IInv, TypeOK, Sweeping, vars, tables, Seqs
<1>. QED
  BY <1>1, <1>2, <1>3, <1>4, <1>5, <1>6, <1>7, <1>8, <1>9, <1>10, <1>11, <1>12, <1>13, <1>14
     DEF Next, SweepStep, CheckpointStep

\* The ledger satisfies the inductive invariant.
THEOREM LedgerInvariant == Spec => []IInv
  BY InitIInv, StepIInv, PTL DEF Spec

\* TypeOK holds of every reachable state.
THEOREM LedgerTypeOK == Spec => []TypeOK
<1>1. IInv => TypeOK
  BY DEF IInv
<1>. QED  BY <1>1, LedgerInvariant, PTL

\* Whatever the sweeps, the crashes of capkit and the other writers do, the
\* surviving records form one linked block whose first link an anchor explains.
THEOREM LedgerChainExplained == Spec => []ChainExplained
<1>1. IInv => ChainExplained
  <2>. SUFFICES ASSUME IInv PROVE ChainExplained
    OBVIOUS
  <2>1. CASE recorded = 0
    BY <2>1 DEF IInv, Block, ChainExplained
  <2>2. CASE recorded # 0
    <3>1. recorded \in Nat /\ recorded > 0
      BY <2>2 DEF IInv, TypeOK
    <3>2. PICK m \in 1..recorded : /\ Seqs = m..recorded
                                   /\ m = 1 \/ m - 1 \in DOMAIN anchors
      BY <3>1 DEF IInv, Block
    <3>3. recorded \in Seqs
      BY <3>1, <3>2
    <3>4. ASSUME NEW s \in Seqs
          PROVE  /\ executions[s].hash = s /\ s <= recorded
                 /\ s < recorded => s + 1 \in Seqs /\ executions[s + 1].prevHash = executions[s].hash
      BY <3>1, <3>2 DEF IInv, Links
    <3>5. ASSUME NEW s \in Seqs, s - 1 \notin Seqs
          PROVE  \/ s = 1 /\ executions[s].prevHash = GENESIS_HASH
                 \/ s - 1 \in DOMAIN anchors /\ anchors[s - 1] = executions[s].prevHash
      <4>1. s = m
        BY <3>1, <3>2, <3>5
      <4>2. executions[s].prevHash = s - 1
        BY DEF IInv, Links
      <4>. QED  BY <3>2, <4>1, <4>2 DEF IInv, Anchored, GENESIS_HASH
    <3>. QED  BY <3>3, <3>4, <3>5 DEF ChainExplained
  <2>. QED  BY <2>1, <2>2
<1>. QED  BY <1>1, LedgerInvariant, PTL

-----------------------------------------------------------------------------
(* What leaves the ledger.                                                 *)

\* From the choice of the boundary to the delete, every record at or below it
\* has expired; what other processes record meanwhile is above it, whatever its
\* age.
Expired == pc \in {"sweepAnchor", "sweepDelete"} =>
             \A s \in Seqs : s <= sweep.cut => executions[s].startedAt < sweep.cutoff

\* Every step preserves Expired.
LEMMA StepExpired == IInv /\ Expired /\ [Next]_vars => Expired'
<1>. SUFFICES ASSUME IInv, Expired, [Next]_vars PROVE Expired'
  OBVIOUS
<1>1. ASSUME NEW startedAt \in 0..MaxDay, Record(startedAt) PROVE Expired'
  <2> DEFINE n == recorded + 1
  <2>1. recorded \in Nat /\ sweep.cut \in Nat
    BY DEF IInv, TypeOK
  <2>2. Seqs' = Seqs \cup {n} /\ \A s \in Seqs : s # n => executions'[s] = executions[s]
    BY <1>1, HeadIsLast DEF Record, Upsert, Seqs
  <2>3. pc' = pc /\ sweep' = sweep
    BY <1>1 DEF Record
  <2>4. pc \in {"sweepAnchor", "sweepDelete"} => sweep.cut < n
    BY <2>1 DEF IInv, Sweeping
  <2>5. \A s \in Seqs : s \in Nat /\ s # n
    BY <2>1, SeqsBounded
  <2>. QED  BY <2>1, <2>2, <2>3, <2>4, <2>5 DEF Expired
<1>2. CASE SweepCut
  <2>1. \A s \in Seqs : s <= Cut => executions[s].startedAt < sweep.cutoff
    BY <1>2, CutBelowHead DEF SweepCut
  <2>2. sweep'.cut = Cut /\ sweep'.cutoff = sweep.cutoff /\ executions' = executions
    BY <1>2 DEF SweepCut, tables, IInv, TypeOK
  <2>. QED  BY <2>1, <2>2 DEF Expired, Seqs
<1>3. CASE SweepAnchor
  BY <1>3 DEF SweepAnchor, Expired, Seqs
<1>4. CASE UNCHANGED <<executions, pc, sweep>>
  BY <1>4 DEF Expired, Seqs
<1>5. CASE pc' \notin {"sweepAnchor", "sweepDelete"}
  BY <1>5 DEF Expired
<1>6. \/ \E startedAt \in 0..MaxDay : Record(startedAt)
      \/ SweepCut
      \/ SweepAnchor
      \/ UNCHANGED <<executions, pc, sweep>>
      \/ pc' \notin {"sweepAnchor", "sweepDelete"}
  BY DEF Next, vars, tables, NextDay, SweepHead, SweepStep, SweepNothing, SweepDelete, Verify,
         CheckpointWalk, CheckpointStep, CheckpointHead, CheckpointSeq, CheckpointWrite, Abandon
<1>. QED  BY <1>1, <1>2, <1>3, <1>4, <1>5, <1>6

\* pruneToRetention() removes only what was expired when it began, from the old
\* end, and never the newest record: however long its statements lie apart and
\* whatever is recorded, late or not, between them.
THEOREM LedgerOnlyExpiredLeave == Spec => OnlyExpiredLeave
<1>1. Init => Expired
  BY DEF Init, Expired
<1> DEFINE Leaving == \A s \in Seqs \ DOMAIN executions' :
                        /\ executions[s].startedAt < sweep.cutoff
                        /\ \A kept \in DOMAIN executions' : s < kept
                        /\ DOMAIN executions' # {}
<1>2. IInv /\ Expired /\ [Next]_vars => [Leaving]_vars
  <2>. SUFFICES ASSUME IInv, Expired, Next PROVE Leaving
    OBVIOUS
  <2>1. CASE SweepDelete
    <3>1. DOMAIN executions' = {s \in Seqs : s > sweep.cut}
      BY <2>1 DEF SweepDelete, Seqs, Restrict
    <3>2. /\ sweep.cut \in Nat /\ recorded \in Nat
          /\ sweep.cut < recorded /\ pc = "sweepDelete"
      BY <2>1 DEF SweepDelete, IInv, TypeOK, Sweeping
    <3>3. Seqs \subseteq Nat
      BY SeqsBounded
    <3>4. recorded \in DOMAIN executions'
      <4>1. recorded \in Seqs
        BY <3>2 DEF IInv, Block
      <4>. QED  BY <3>1, <3>2, <4>1
    <3>5. ASSUME NEW s \in Seqs \ DOMAIN executions'
          PROVE  /\ executions[s].startedAt < sweep.cutoff
                 /\ \A kept \in DOMAIN executions' : s < kept
      <4>1. s <= sweep.cut /\ s \in Nat
        BY <3>1, <3>2, <3>3
      <4>2. \A kept \in DOMAIN executions' : kept > sweep.cut /\ kept \in Nat
        BY <3>1, <3>3
      <4>. QED  BY <4>1, <4>2, <3>2 DEF Expired
    <3>. QED  BY <3>4, <3>5
  <2>2. CASE Seqs \subseteq DOMAIN executions'
    BY <2>2
  <2>3. SweepDelete \/ Seqs \subseteq DOMAIN executions'
    BY DEF Next, Record, Upsert, tables, NextDay, SweepHead, SweepStep, SweepCut, SweepNothing,
           SweepAnchor, Verify, CheckpointWalk, CheckpointStep, CheckpointHead, CheckpointSeq,
           CheckpointWrite, Abandon, Seqs
  <2>. QED  BY <2>1, <2>2, <2>3
<1>. QED
  BY <1>1, <1>2, StepExpired, LedgerInvariant, PTL DEF Spec, OnlyExpiredLeave

-----------------------------------------------------------------------------
(* The ledger implements AppendOnlyLog.                                    *)

\* What a reader finds at each sequence number.
View == [s \in Seqs |-> executions[s].hash]

\* A transaction of record() is the acceptance of one record.
LEMMA RecordAccepts ==
  ASSUME IInv, NEW startedAt \in 0..MaxDay, Record(startedAt)
  PROVE  Log!Accept
<1> DEFINE n == recorded + 1
<1>1. recorded' = n /\ recorded \in Nat
  BY DEF Record, IInv, TypeOK
<1>2. Seqs' = Seqs \cup {n}
  BY HeadIsLast DEF Record, Upsert, Seqs
<1>3. ASSUME NEW s \in Seqs'
      PROVE  executions'[s].hash = IF s = n THEN n ELSE executions[s].hash
  <2>1. executions'[s] = IF s = n THEN [hash |-> n, prevHash |-> recorded, startedAt |-> startedAt]
                         ELSE executions[s]
    BY <1>2, HeadIsLast DEF Record, Upsert, Seqs
  <2>. QED  BY <2>1
<1>4. View' = [s \in DOMAIN View \cup {n} |-> IF s = n THEN s ELSE View[s]]
  BY <1>2, <1>3 DEF View
<1>. QED  BY <1>1, <1>4 DEF Log!Accept, View

\* The delete of a sweep is a trim, or, when what it would delete was deleted
\* by an earlier one, nothing.
LEMMA DeleteTrims ==
  ASSUME IInv, SweepDelete
  PROVE  Log!Trim \/ UNCHANGED <<recorded, View>>
<1> DEFINE c == sweep.cut
<1>1. c \in Nat /\ c >= 1 /\ c < recorded /\ recorded \in Nat /\ recorded' = recorded
  BY DEF IInv, TypeOK, Sweeping, SweepDelete
<1>2. Seqs' = {s \in Seqs : s > c} /\ \A s \in Seqs' : executions'[s] = executions[s]
  BY DEF SweepDelete, Seqs, Restrict
<1>3. PICK m \in 1..recorded : Seqs = m..recorded
  BY <1>1 DEF IInv, Block
<1>4. CASE c \in Seqs
  <2>1. View' = Log!Restrict(View, {s \in DOMAIN View : s > c})
    <3>1. {s \in DOMAIN View : s > c} = Seqs' /\ Seqs' \subseteq Seqs
      BY <1>2 DEF View
    <3>. QED  BY <3>1, <1>2 DEF View, Log!Restrict
  <2>. QED  BY <1>1, <1>4, <2>1 DEF Log!Trim, View
<1>5. CASE c \notin Seqs
  <2>1. Seqs' = Seqs
    BY <1>1, <1>2, <1>3, <1>5
  <2>. QED  BY <1>1, <1>2, <2>1 DEF View
<1>. QED  BY <1>4, <1>5

\* Readers of the table see an append-only log that is trimmed at its old end:
\* every step of record() and of the sweep is one of AppendOnlyLog, and no
\* other operation, and no failure, is noticed at all.
THEOREM LedgerKeepsTheLog == Spec => LogSpec
<1>1. Init => Log!Init
  <2>. SUFFICES ASSUME Init PROVE Log!Init
    OBVIOUS
  <2>1. Seqs = {} /\ recorded = 0
    BY DEF Init, Seqs
  <2>. QED  BY <2>1 DEF Log!Init
<1>2. IInv /\ [Next]_vars => [Log!Next]_(Log!vars)
  <2>. SUFFICES ASSUME IInv, [Next]_vars
                PROVE  Log!Next \/ UNCHANGED <<recorded, View>>
    BY DEF Log!vars, View
  <2>1. ASSUME NEW startedAt \in 0..MaxDay, Record(startedAt) PROVE Log!Next
    BY <2>1, RecordAccepts DEF Log!Next
  <2>2. CASE SweepDelete
    BY <2>2, DeleteTrims DEF Log!Next
  <2>3. CASE UNCHANGED <<executions, recorded>>
    BY <2>3 DEF View, Seqs
  <2>4. \/ \E startedAt \in 0..MaxDay : Record(startedAt)
        \/ SweepDelete
        \/ UNCHANGED <<executions, recorded>>
    BY DEF Next, vars, tables, NextDay, SweepHead, SweepStep, SweepCut, SweepNothing,
           SweepAnchor, Verify, CheckpointWalk, CheckpointStep, CheckpointHead, CheckpointSeq,
           CheckpointWrite, Abandon
  <2>. QED  BY <2>1, <2>2, <2>3, <2>4
<1>. QED  BY <1>1, <1>2, LedgerInvariant, PTL DEF Spec, LogSpec, Log!Spec

-----------------------------------------------------------------------------
(* What a verification reports.                                            *)

\* The loop of verifyChain succeeds over the records above k, started from k.
LEMMA BlockLinks ==
  ASSUME IInv, NEW k \in Nat, NEW rows, rows = {r \in Seqs : r > k},
         Seqs = {} \/ k + 1 \in Seqs \/ rows = {}
  PROVE  LinksFrom(k, rows)
<1>. SUFFICES ASSUME NEW s \in rows
              PROVE  executions[s].prevHash =
                       IF {r \in rows : r < s} = {} THEN k
                       ELSE executions[Max({r \in rows : r < s})].hash
  BY Zenon DEF LinksFrom
<1> DEFINE before == {r \in rows : r < s}
<1>1. s \in Seqs /\ s \in Nat /\ recorded \in Nat /\ recorded > 0 /\ s > k
  BY SeqsBounded DEF IInv, TypeOK, Block
<1>2. PICK m \in 1..recorded : Seqs = m..recorded
  BY <1>1 DEF IInv, Block
<1>3. k + 1 \in Seqs
  BY <1>1
<1>4. executions[s].prevHash = s - 1
  BY <1>1 DEF IInv, Links
<1>5. CASE s = k + 1
  <2>1. before = {}
    BY <1>5, <1>1, <1>2
  <2>. QED  BY <1>4, <1>5, <2>1
<1>6. CASE s # k + 1
  <2>1. s - 1 \in before /\ s - 1 \in Seqs
    BY <1>1, <1>2, <1>3, <1>6
  <2>2. before \subseteq Int /\ \A r \in before : r <= s - 1
    BY <1>1, <1>2
  <2>3. Max(before) = s - 1
    BY <2>1, <2>2, MaxIs, Zenon
  <2>4. executions[s - 1].hash = s - 1
    BY <2>1 DEF IInv, Links
  <2>. QED  BY <1>4, <2>1, <2>3, <2>4
<1>. QED  BY <1>5, <1>6

\* With no anchor over records that are still there, a walk with the key
\* succeeds, wherever it starts.
LEMMA KeyedWalkSucceeds ==
  ASSUME IInv, ~Overhang, NEW mode \in Modes, mode # "keyless"
  PROVE  WalkOk(mode)
<1>1. ASSUME NEW s \in Usable
      PROVE  LinksFrom(checkpoints[s], {r \in Seqs : r > s})
  <2>1. s \in Seqs /\ checkpoints[s] = s /\ s \in Nat
    BY SeqsBounded DEF Usable, IInv, Links
  <2>2. s + 1 \in Seqs \/ {r \in Seqs : r > s} = {}
    <3>1. recorded \in Nat /\ recorded > 0
      BY <2>1 DEF IInv, TypeOK, Block
    <3>2. PICK m \in 1..recorded : Seqs = m..recorded
      BY <3>1 DEF IInv, Block
    <3>. QED  BY <2>1, <3>1, <3>2
  <2>. QED  BY <2>1, <2>2, BlockLinks
<1>2. CASE Seqs = {}
  <2>1. LinksFrom(GENESIS_HASH, Seqs) /\ Swept = {} /\ Usable = {}
    BY <1>2 DEF LinksFrom, Swept, Usable
  <2>. QED  BY <2>1, Zenon DEF WalkOk
<1>3. CASE Seqs # {}
  <2>1. recorded \in Nat /\ recorded > 0
    BY <1>3 DEF IInv, TypeOK, Block
  <2>2. PICK m \in 1..recorded : /\ Seqs = m..recorded
                                 /\ m = 1 \/ m - 1 \in DOMAIN anchors
    BY <2>1 DEF IInv, Block
  <2>3. m \in Seqs /\ Seqs \subseteq Int /\ \A s \in Seqs : m <= s
    BY <2>1, <2>2
  <2>4. Min(Seqs) = m
    BY <2>3, MinIs, Zenon
  <2>5. LinksFrom(m - 1, Seqs)
    <3>1. Seqs = {r \in Seqs : r > m - 1} /\ m - 1 \in Nat /\ (m - 1) + 1 \in Seqs
      BY <2>1, <2>2
    <3>. QED  BY <3>1, BlockLinks
  <2>6. \A a \in DOMAIN anchors : a < m
    <3>1. \A a \in DOMAIN anchors : ~ (a >= m)
      BY <1>3, <2>4, Zenon DEF Overhang
    <3>. QED  BY <3>1, <2>1 DEF IInv, TypeOK
  <2>7. \A a \in Swept : anchors[a] = m - 1
    BY <2>4 DEF Swept, IInv, Anchored
  <2>8. ASSUME Swept = {} PROVE m = 1
    <3>. SUFFICES ASSUME m # 1 PROVE FALSE
      OBVIOUS
    <3>1. m - 1 \in DOMAIN anchors
      BY <2>2
    <3>2. DOMAIN anchors \subseteq Int /\ \A a \in DOMAIN anchors : a <= m - 1
      BY <2>1, <2>6 DEF IInv, TypeOK
    <3>3. Max(DOMAIN anchors) = m - 1
      BY <3>1, <3>2, MaxIs, Zenon
    <3>4. m - 1 \in Swept
      BY <1>3, <2>4, <3>1, <3>3, Zenon DEF Swept
    <3>. QED  BY <2>8, <3>4
  <2>9. Swept = {} => LinksFrom(GENESIS_HASH, Seqs)
    BY <2>5, <2>8 DEF GENESIS_HASH
  <2>10. \A a \in Swept : LinksFrom(anchors[a], Seqs)
    BY <2>5, <2>7, Zenon
  <2>. QED  BY <1>1, <2>9, <2>10, Zenon DEF WalkOk
<1>. QED  BY <1>2, <1>3

\* verifyChain() with the key cries BROKEN only over an anchor whose records
\* are still there.
THEOREM LedgerNoFalseAlarm == Spec => []NoFalseAlarm
<1>1. Init => NoFalseAlarm
  BY DEF Init, NoVerdict, NoFalseAlarm
<1>2. IInv /\ NoFalseAlarm /\ [Next]_vars => NoFalseAlarm'
  <2>. SUFFICES ASSUME IInv, NoFalseAlarm, [Next]_vars PROVE NoFalseAlarm'
    OBVIOUS
  <2>1. ASSUME NEW mode \in Modes, Verify(mode) PROVE NoFalseAlarm'
    <3>1. mode # "keyless" /\ ~WalkOk(mode) => Overhang
      BY KeyedWalkSucceeds
    <3>2. verdict' = [mode |-> mode, valid |-> WalkOk(mode), overhang |-> Overhang]
      BY <2>1 DEF Verify
    <3>. QED  BY <3>1, <3>2, Zenon DEF NoFalseAlarm
  <2>2. CASE UNCHANGED verdict
    BY <2>2 DEF NoFalseAlarm
  <2>3. (\E mode \in Modes : Verify(mode)) \/ UNCHANGED verdict
    BY DEF Next, vars, Record, NextDay, SweepHead, SweepStep, SweepCut, SweepNothing,
           SweepAnchor, SweepDelete, CheckpointWalk, CheckpointStep, CheckpointHead,
           CheckpointSeq, CheckpointWrite, Abandon
  <2>. QED  BY <2>1, <2>2, <2>3
<1>. QED  BY <1>1, <1>2, LedgerInvariant, PTL DEF Spec
=============================================================================
