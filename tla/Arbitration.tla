------------------------------ MODULE Arbitration ------------------------------
(***************************************************************************)
(* What packages/trust/src/arbitration.ts decides about a dispute: the      *)
(* pure function arbitrate(), on what its participants say, the families   *)
(* of models they belong to, and the trust each has earned.                *)
(*                                                                         *)
(* Weights are whole thousandths, which is what the code rounds them to;    *)
(* confidence and trust are whole percents.  Answers are compared as        *)
(* normaliseAnswer() leaves them.  The words of the reasoning and of the    *)
(* brief a person gets are left out.                                       *)
(***************************************************************************)
EXTENDS Integers, Sequences, FiniteSets, SequencesExt

CONSTANTS RequiredMargin,  \* per cent of the weight the leader needs: 60
          MinIndependent,  \* families it takes to corroborate: 2
          Influence        \* per cent: the most that confidence counts: 25

ASSUME ArbitrationAssumption ==
  /\ RequiredMargin \in 50..100
  /\ MinIndependent \in Nat
  /\ Influence \in 0..100

\* What becomes of a dispute.
Verdict(outcome, answer) == [outcome |-> outcome, answer |-> answer]

None == "none"

\* The quotient of two natural numbers, rounded as Math.round() does.
Rounded(n, d) == (2 * n + d) \div (2 * d)

\* trustWeight * confidenceWeight, with the trust of the participant.
RawWeight(p, trust) ==
  Rounded((50 + trust[p.agent]) * (5000 + (p.confidence - 50) * Influence), 500)

\* Two participants of one family that say the same.
Echo(p, q) == p.answer = q.answer /\ p.family = q.family

\* The first of the heaviest counts in full, the rest of a family is discounted.
Discounted(ps, i, trust) ==
  \E j \in DOMAIN ps \ {i} :
    /\ Echo(ps[i], ps[j])
    /\ LET a == RawWeight(ps[i], trust)
           b == RawWeight(ps[j], trust)
       IN b > a \/ (b = a /\ j < i)

Weight(ps, i, trust) ==
  LET raw == RawWeight(ps[i], trust)
  IN IF Discounted(ps, i, trust) THEN Rounded(raw, 5) ELSE raw

-----------------------------------------------------------------------------
(* The tally.                                                              *)

Answers(ps) == {ps[i].answer : i \in DOMAIN ps}

For(ps, a) == {i \in DOMAIN ps : ps[i].answer = a}

Families(ps, a) == {ps[i].family : i \in For(ps, a)}

Sum(ps, S, trust) == FoldSet(LAMBDA i, n : n + Weight(ps, i, trust), 0, S)

\* Answers are ranked by weight; of equals, the one first given comes first.
Before(ps, a, b, trust) ==
  LET wa == Sum(ps, For(ps, a), trust)
      wb == Sum(ps, For(ps, b), trust)
  IN \/ wa > wb
     \/ wa = wb /\ \E i \in For(ps, a) : \A j \in For(ps, b) : i < j

First(ps, S, trust) == CHOOSE a \in S : \A b \in S \ {a} : Before(ps, a, b, trust)

Leader(ps, trust) == First(ps, Answers(ps), trust)

RunnerUp(ps, trust) == First(ps, Answers(ps) \ {Leader(ps, trust)}, trust)

\* The leader's share of all the weight reaches the margin.
ClearsMargin(ps, trust) ==
  100 * Sum(ps, For(ps, Leader(ps, trust)), trust)
    >= RequiredMargin * Sum(ps, DOMAIN ps, trust)

Support(ps, a) == Cardinality(Families(ps, a))

-----------------------------------------------------------------------------
(* arbitrate()                                                             *)

\* All who took part say the same.
Unanimous(ps) ==
  IF Support(ps, ps[1].answer) < MinIndependent /\ Len(ps) > 1
  THEN Verdict("escalate", None)
  ELSE Verdict("resolved", ps[1].answer)

\* More than one answer was given.
Split(ps, trust) ==
  LET leader == Leader(ps, trust)
  IN IF \/ ~ClearsMargin(ps, trust)
        \/ Support(ps, leader) <= Support(ps, RunnerUp(ps, trust))
     THEN Verdict("no_consensus", None)
     ELSE IF Support(ps, leader) < MinIndependent
     THEN Verdict("escalate", None)
     ELSE Verdict("resolved", leader)

\* Mutant of Arbitrate: what cannot be undone is settled like the rest.
ArbitrateAnything(ps, irreversible, trust) ==
  IF ps = << >> THEN Verdict("no_consensus", None)
  ELSE IF Cardinality(Answers(ps)) = 1 THEN Unanimous(ps)
  ELSE Split(ps, trust)

Arbitrate(ps, irreversible, trust) ==
  IF ps = << >> THEN Verdict("no_consensus", None)
  ELSE IF irreversible THEN Verdict("escalate", None)
  ELSE IF Cardinality(Answers(ps)) = 1 THEN Unanimous(ps)
  ELSE Split(ps, trust)
===============================================================================
