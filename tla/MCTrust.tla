-------------------------------- MODULE MCTrust --------------------------------
(* Instances of Trust for TLC.                                             *)
EXTENDS Trust

CONSTANTS ann, ben, ops

\* round(50 + 50 * tanh(n / 25)) for n = 0, 1, ..., 40
Rise == <<50, 52, 54, 56, 58, 60, 62, 64, 65, 67, 69, 71, 72, 74, 75, 77, 78, 80, 81, 82,
          83, 84, 85, 86, 87, 88, 89, 90, 90, 91, 92, 92, 93, 93, 94, 94, 95, 95, 95, 96, 96>>

Levels == [n \in Nets |-> IF n >= 0 THEN Rise[n + 1] ELSE 100 - Rise[1 - n]]

P(agent, answer, family, confidence) ==
  [agent |-> agent, answer |-> answer, family |-> family, confidence |-> confidence]

\* Two models of one family against another; of two families against one; and
\* two of one family who agree.  An agent may take part with two models.
SomePanels ==
  {<<P(ann, "yes", "f", 100), P(ann, "yes", "f", 50), P(ben, "no", "g", 50)>>,
   <<P(ann, "yes", "f", 50), P(ann, "yes", "g", 50), P(ben, "no", "h", 50)>>,
   <<P(ann, "yes", "f", 50), P(ben, "yes", "f", 50)>>}

OnePair == {<<ann, ops>>}

\* A report of verifyOutput() that comes to two events, and what callers of POST
\* /events make: a repair that no appeal earned, and a kind nobody lists.
SomeReports == {<<"unsupported_claim", "contradiction">>,
                <<"appeal_upheld">>, <<Unlisted>>}
===============================================================================
