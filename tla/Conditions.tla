------------------------------ MODULE Conditions ------------------------------
(***************************************************************************)
(* The five conditions one record is assessed by: trustConditions() of     *)
(* packages/capkit/src/conditions.ts.  An assessment reads the record, and *)
(* what was found out about it: whether its content matches its hash, the  *)
(* chain, the attestation of its subject and that of its approval.         *)
(*                                                                         *)
(* The sentences of a report, and which condition constrains it, are left  *)
(* out; a report is the states of its conditions and the weakest of them.  *)
(***************************************************************************)
EXTENDS Naturals

States == {"DEMONSTRATED", "FAILED", "UNKNOWN", "ABSENT"}

\* What verifyTrace() found; "none" when nobody ran it.
Verdicts == {"none", "unreadable", "altered", "intact"}

\* verifyChain(): valid, not valid, or not asked.
Chains == {"unchecked", "broken", "valid"}

Assurances == {"ASSERTED", "PROVEN"}

\* ApprovalRegistry.attest(), or "none" when it was not asked.
NotAsked == [state |-> "none", assurance |-> "ASSERTED"]
ApprovalAttestations == [state : States, assurance : Assurances] \union {NotAsked}

\* A record, and what is known about it apart from its subject.
Evidence ==
  [scoped : BOOLEAN, output : BOOLEAN, succeeded : BOOLEAN,
   decision : {"none", "PERMITTED", "DENIED", "REQUIRES_APPROVAL"},
   verdict : Verdicts, chain : Chains,
   approval : ApprovalAttestations, required : Assurances]

Conditions == {"Identity", "Capability", "Evidence", "Governance", "Time"}

Capability(e, hasJti) ==
  CASE ~e.scoped           -> "ABSENT"
    [] e.scoped /\ hasJti  -> "DEMONSTRATED"
    [] e.scoped /\ ~hasJti -> "UNKNOWN"

EvidenceState(e) ==
  CASE e.verdict = "altered" -> "FAILED"
    [] e.verdict = "none"    -> "UNKNOWN"
    [] OTHER                 -> IF e.output THEN "DEMONSTRATED" ELSE "UNKNOWN"

\* Mutant of Approved: who signed is not looked at.
ApprovedByAnybody(e) ==
  CASE e.approval.state = "none" -> "UNKNOWN"
    [] e.approval.state \in {"DEMONSTRATED", "UNKNOWN"} -> e.approval.state
    [] OTHER -> "FAILED"

\* The state of a rule that demanded a person.
Approved(e) ==
  CASE e.approval.state = "none" -> "UNKNOWN"
    [] e.approval.state = "DEMONSTRATED" ->
         IF e.required = "PROVEN" /\ e.approval.assurance # "PROVEN"
         THEN "FAILED" ELSE "DEMONSTRATED"
    [] e.approval.state = "UNKNOWN" -> "UNKNOWN"
    [] OTHER -> "FAILED"

Governance(e) ==
  CASE e.decision = "none"     -> "ABSENT"
    [] e.decision # "none" /\ e.verdict = "none"    -> "UNKNOWN"
    [] e.decision # "none" /\ e.verdict = "altered" -> "FAILED"
    [] OTHER -> CASE e.decision = "DENIED" ->
                       IF e.succeeded THEN "FAILED" ELSE "DEMONSTRATED"
                  [] e.decision = "REQUIRES_APPROVAL" -> Approved(e)
                  [] OTHER -> "DEMONSTRATED"

Time(e) ==
  CASE e.chain = "valid"     -> "DEMONSTRATED"
    [] e.chain = "broken"    -> "FAILED"
    [] e.chain = "unchecked" -> "UNKNOWN"

\* SEVERITY, the worst first.
Severity(state) ==
  CASE state = "FAILED"       -> 1
    [] state = "UNKNOWN"      -> 2
    [] state = "ABSENT"       -> 3
    [] state = "DEMONSTRATED" -> 4

weakest(states) ==
  CHOOSE s \in states : \A other \in states : Severity(s) =< Severity(other)

\* The state of each condition of a record the build can read.
StateOf(identity, hasJti, e) ==
  [c \in Conditions |->
     CASE c = "Identity"   -> identity
       [] c = "Capability" -> Capability(e, hasJti)
       [] c = "Evidence"   -> EvidenceState(e)
       [] c = "Governance" -> Governance(e)
       [] c = "Time"       -> Time(e)]

trustConditions(identity, hasJti, e) ==
  IF e.verdict = "unreadable"
  THEN "UNKNOWN"
  ELSE LET state == StateOf(identity, hasJti, e)
       IN  weakest({state[c] : c \in Conditions})

================================================================================
