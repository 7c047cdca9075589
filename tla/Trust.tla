--------------------------------- MODULE Trust ---------------------------------
(***************************************************************************)
(* The trust service (packages/trust/src/server.ts): the disputes of        *)
(* ArbitrationStore over the record of its subjects.  A dispute is          *)
(* arbitrated with the scores of that moment, as often as it is asked for,  *)
(* and every handler runs to its end before another one begins.             *)
(***************************************************************************)
EXTENDS Arbitration, TrustRecord

CONSTANTS Panels,     \* the positions that are submitted: sequences of
                      \* [agent, answer, family, confidence]
          MaxDisputes, \* bound: how many disputes are opened
          MaxRows      \* bound: how many rows the tables hold together

ASSUME PanelsAssumption ==
  \A ps \in Panels : /\ Len(ps) \in Nat \ {0} /\ DOMAIN ps = 1..Len(ps)
                     /\ \A i \in DOMAIN ps : /\ ps[i].agent \in Agents
                                             /\ ps[i].confidence \in 0..100
ASSUME DisputesBound == MaxDisputes \in Nat /\ MaxRows \in Nat

VARIABLE disputes \* table trust_disputes

vars == <<record, disputes>>

\* The trust of each participant: a thin record counts as the middle.
Trusted == [a \in Agents |-> IF Confident(a) THEN Score(a) ELSE 50]

Dispute(ps, irreversible, verdict, person) ==
  [positions |-> ps, irreversible |-> irreversible,
   outcome |-> verdict.outcome, answer |-> verdict.answer, decidedBy |-> person]

Init == RecordInit /\ disputes = << >>

\* POST /disputes
Open(ps, irreversible) ==
  /\ Len(disputes) < MaxDisputes
  /\ disputes' = Append(disputes, Dispute(ps, irreversible, Verdict(None, None), None))
  /\ UNCHANGED record

\* POST /disputes/:id/arbitrate: whatever had been decided is written over, but
\* not who decided it.
Resolve(d) ==
  /\ LET it == disputes[d]
     IN disputes' = [disputes EXCEPT ![d] =
          Dispute(it.positions, it.irreversible,
                  Arbitrate(it.positions, it.irreversible, Trusted), it.decidedBy)]
  /\ UNCHANGED record

\* POST /disputes/:id/decide: a person's answer, at any time.
Decide(d, answer) ==
  /\ LET it == disputes[d]
     IN disputes' = [disputes EXCEPT ![d] =
          Dispute(it.positions, it.irreversible, Verdict("resolved", answer), "person")]
  /\ UNCHANGED record

\* GET /disputes/pending
Pending == {d \in DOMAIN disputes : /\ disputes[d].decidedBy = None
                                    /\ disputes[d].outcome # "resolved"}

Bounded == Len(events') + Len(appeals') + Len(breaches') + Len(disputes') <= MaxRows

Next ==
  \/ RecordNext /\ UNCHANGED disputes /\ Bounded
  \/ \E ps \in Panels, irreversible \in BOOLEAN : Open(ps, irreversible) /\ Bounded
  \/ \E d \in DOMAIN disputes : \/ Resolve(d)
                                \/ \E a \in Answers(disputes[d].positions) : Decide(d, a)

Spec == Init /\ [][Next]_vars

-----------------------------------------------------------------------------
(* Properties.                                                             *)

\* Every table has its type.
TypeOK ==
  /\ RecordTypeOK
  /\ Len(disputes) <= MaxDisputes
  /\ \A d \in DOMAIN disputes :
       /\ disputes[d].positions \in Panels /\ disputes[d].irreversible \in BOOLEAN
       /\ disputes[d].outcome \in {None, "resolved", "escalate", "no_consensus"}
       /\ disputes[d].answer \in Answers(disputes[d].positions) \cup {None}
       /\ disputes[d].decidedBy \in {None, "person"}

\* Somebody outside the family gives that answer too, unless one voice is all
\* there is.
Corroborated(ps, answer) ==
  Len(ps) = 1 \/ \A f \in {ps[i].family : i \in DOMAIN ps} :
                   \E i \in For(ps, answer) : ps[i].family # f

\* What the machine settles alone can be undone, and no single family of models
\* carries it, however many of them took part, how sure they were and whatever
\* trust they had earned; a dispute that is neither settled nor decided is on
\* the list of what waits for a person (arbitrate, resolve, decide, pending).
NoFamilySettlesAlone ==
  \A d \in DOMAIN disputes :
    disputes[d].decidedBy = None =>
      IF disputes[d].outcome = "resolved"
      THEN ~disputes[d].irreversible /\ Corroborated(disputes[d].positions, disputes[d].answer)
      ELSE d \in Pending
===============================================================================
