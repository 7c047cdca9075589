------------------------------ MODULE Provenance -------------------------------
(***************************************************************************)
(* What one record handed to another: ProvenanceGraph of                   *)
(* packages/capkit/src/provenance.ts, over the growing table of            *)
(* executions.  A record is its hashes, its times and its outcome; a       *)
(* consumer is one whose input hash is a producer's output hash, and that  *)
(* started no earlier than the producer was done.                          *)
(*                                                                         *)
(* Subjects, modules and actions, and the sentences of an answer, are left *)
(* out.  A retention sweep takes records away, and their edges with them;  *)
(* it is Ledger's.                                                         *)
(***************************************************************************)
EXTENDS Integers, SequencesExt

CONSTANTS Hashes,     \* hashes of inputs and outputs
          Times,      \* what a record may give as its times
          MaxRecords  \* bound: how many records are made

NoHash == "none"
NoTime == -1

VARIABLE all  \* table executions, by seq

Records == [input : Hashes, output : Hashes \union {NoHash},
            started : Times, completed : Times \union {NoTime}, failed : BOOLEAN]

\* An execution is recorded: POST /executions takes both times as given.
Record(r) ==
  /\ Len(all) < MaxRecords
  /\ all' = Append(all, r)

Init == all = << >>
Next == \E r \in Records : Record(r)
Spec == Init /\ [][Next]_all

-----------------------------------------------------------------------------
(* The graph: snapshot().                                                  *)

Ids == 1..Len(all)

ProducedAt(i) == IF all[i].completed = NoTime THEN all[i].started ELSE all[i].completed

Edge(producer, consumer) ==
  /\ producer # consumer
  /\ all[producer].output = all[consumer].input
  /\ ProducedAt(producer) <= all[consumer].started

\* The map's lists are in the order of consumers, and for one in that of producers.
forward(i) == SelectSeq([k \in Ids |-> k], LAMBDA k : Edge(i, k))
backward(i) == SelectSeq([k \in Ids |-> k], LAMBDA k : Edge(k, i))

FlatMap(f(_), s) == FlattenSeq([k \in DOMAIN s |-> f(s[k])])

\* lineage(): one turn of the loop towards the producers.
Searched(seen, frontier) == [seen |-> seen, frontier |-> frontier]

Ascend(s) ==
  Searched(s.seen \union ToSet(s.frontier),
           FlatMap(backward, SelectSeq(s.frontier, LAMBDA k : k \notin s.seen)))

inheritedFailures(i) ==
  LET After[n \in 0..Len(all)] ==
        IF n = 0 THEN Searched({i}, backward(i)) ELSE Ascend(After[n - 1])
  IN {k \in After[Len(all)].seen \ {i} : all[k].failed}

\* blastRadius(): one turn of the loop towards the consumers.
Reached(seen, frontier, reached, depth) ==
  [seen |-> seen, frontier |-> frontier, reached |-> reached, depth |-> depth]

Descend(s) ==
  LET next == SelectSeq(FlatMap(forward, s.frontier), LAMBDA k : k \notin s.seen)
  IN IF next = << >> THEN s
     ELSE Reached(s.seen \union ToSet(next), next, s.reached \o next, s.depth + 1)

blastRadius(i) ==
  LET After[n \in 0..Len(all)] ==
        IF n = 0 THEN Reached({i}, <<i>>, << >>, 0) ELSE Descend(After[n - 1])
  IN After[Len(all)]

\* summary(): how much each failure's output was consumed.
failuresWithConsumers ==
  {[failure |-> i, consumed |-> Len(blastRadius(i).reached)] :
     i \in {k \in Ids : all[k].failed /\ blastRadius(k).reached # << >>}}

-----------------------------------------------------------------------------
(* Properties.                                                             *)

\* "Answering it from content hashes is exact about what it covers"
\* (provenance.ts:204), "... recorded action(s) consumed this content"
\* (provenance.ts:235): what a failure reached is a number of records.
FailuresCountRecords ==
  \A f \in failuresWithConsumers :
    f.consumed <= Cardinality(Ids \ {f.failure})
    /\ f.consumed = Cardinality(ToSet(blastRadius(f.failure).reached))

================================================================================
