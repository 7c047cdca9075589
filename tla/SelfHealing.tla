------------------------------ MODULE SelfHealing ------------------------------
(***************************************************************************)
(* The circuit breaker of packages/edge-run/src/self-healing.ts: the       *)
(* record it keeps of one target, and what each of its methods makes of    *)
(* that record.                                                            *)
(*                                                                         *)
(* The clock is abstracted to `cooled`: whether the cooldown of an open    *)
(* breaker has elapsed.  consecutiveFailures is only ever compared with    *)
(* the threshold, so it is counted no further than that.                   *)
(***************************************************************************)
EXTENDS Naturals

CONSTANTS FailureThreshold,  \* consecutive failures that open a breaker
          SuccessThreshold   \* successful probes that close it again

ASSUME ThresholdsAssumption == /\ FailureThreshold \in Nat \ {0}
                               /\ SuccessThreshold \in Nat \ {0}

Breaker == [state     : {"closed", "open", "half-open"},
            failures  : 0..FailureThreshold,
            successes : 0..(SuccessThreshold - 1),
            probe     : BOOLEAN,     \* probeInFlight
            cooled    : BOOLEAN]

\* record(): what a target starts with.
NewBreaker == [state |-> "closed", failures |-> 0, successes |-> 0,
               probe |-> FALSE, cooled |-> FALSE]

\* canProceed(), its answer.
CanProceed(b) == \/ b.state = "closed"
                 \/ b.state = "open" /\ b.cooled
                 \/ b.state = "half-open" /\ ~b.probe

\* Mutant of Asked: the probe that is admitted leaves no mark.
AskedUnmarked(b) ==
  IF b.state = "closed" \/ ~CanProceed(b) THEN b
  ELSE [b EXCEPT !.state     = "half-open",
                 !.successes = IF b.state = "open" THEN 0 ELSE @,
                 !.cooled    = FALSE]

\* canProceed(), its effect: to admit work into a breaker that is not closed
\* is to admit a probe.
Asked(b) ==
  IF b.state = "closed" \/ ~CanProceed(b) THEN b
  ELSE [b EXCEPT !.state     = "half-open",
                 !.successes = IF b.state = "open" THEN 0 ELSE @,
                 !.probe     = TRUE,
                 !.cooled    = FALSE]

\* Mutant of Succeeded: more than successThreshold successes are asked for.
SucceededLate(b) ==
  IF b.state = "half-open" /\ b.successes < SuccessThreshold
  THEN [b EXCEPT !.failures = 0, !.successes = @ + 1, !.probe = FALSE]
  ELSE [b EXCEPT !.state = "closed", !.failures = 0, !.successes = 0,
                 !.probe = FALSE, !.cooled = FALSE]

\* succeed()
Succeeded(b) ==
  LET more == b.successes + 1
      half == b.state = "half-open" /\ more < SuccessThreshold
  IN  [b EXCEPT !.state     = IF half THEN "half-open" ELSE "closed",
                !.failures  = 0,
                !.successes = IF half THEN more ELSE IF b.state = "half-open" THEN 0 ELSE @,
                !.probe     = FALSE,
                !.cooled    = FALSE]

\* fail()
Failed(b) ==
  LET more == IF b.failures < FailureThreshold THEN b.failures + 1 ELSE b.failures
      trip == b.state = "half-open" \/ more >= FailureThreshold
  IN  [b EXCEPT !.state     = IF trip THEN "open" ELSE @,
                !.failures  = more,
                !.successes = 0,
                !.probe     = FALSE,
                !.cooled    = FALSE]
=============================================================================
