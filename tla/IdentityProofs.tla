----------------------------- MODULE IdentityProofs -----------------------------
(***************************************************************************)
(* Proofs about Identity, for every number of subjects, keys, challenges    *)
(* and tokens and every lifetime of a challenge.                            *)
(*                                                                          *)
(* A token is made in two steps, the proof and then the binding, and what   *)
(* the first one found has to hold when the second comes: the request that  *)
(* is pending carries a proof that is its subject's own (PendingInv), and   *)
(* a nonce that was used is no challenge any more and was used once         *)
(* (UsedInv), however many requests fail or are lost in between.            *)
(***************************************************************************)
EXTENDS Identity, TLAPS

\* What a proof has to be for subject s.
OwnProof(p, s) ==
  /\ p.for = s
  /\ p.age <= TTL
  /\ p.key = p.filed
  /\ p.nonce \in drawn /\ p.nonce \notin DOMAIN challenges

PendingInv ==
  ~Idle => /\ OwnProof(pending.proof, pending.subject)
           /\ \A u \in Issued : proofs[u].nonce # pending.proof.nonce

BoundInv == \A t \in DOMAIN bound : bound[t].proven => OwnProof(proofs[t], sub[t])

UsedInv ==
  \A t \in Issued :
    \/ proofs[t].nonce = None
    \/ /\ proofs[t].nonce \in drawn /\ proofs[t].nonce \notin DOMAIN challenges
       /\ \A u \in Issued \ {t} : proofs[u].nonce # proofs[t].nonce

IInv == TypeOK /\ PendingInv /\ BoundInv /\ UsedInv

-----------------------------------------------------------------------------
(* One step.                                                               *)

\* The clock and the bounds are numbers.
LEMMA NumbersAre == TypeOK => now \in Nat /\ TTL \in Nat /\ MaxTime \in Nat /\ MaxChanges \in Nat
BY IdentityAssumption DEF TypeOK

\* The first state has nothing in it.
LEMMA InitOK == Init => IInv
<1>. SUFFICES ASSUME Init PROVE IInv
  OBVIOUS
<1>1. TypeOK
  BY IdentityAssumption DEF Init, TypeOK, Enrolled, Issued, Idle
<1>2. PendingInv /\ BoundInv /\ UsedInv
  BY DEF Init, PendingInv, BoundInv, UsedInv, Issued, Idle
<1>. QED  BY <1>1, <1>2 DEF IInv

\* The four changes of an identity leave challenges, tokens and requests alone.
LEMMA ChangedOK ==
  ASSUME IInv, NEW s \in Subjects, NEW key \in Keys, NEW status \in {"active", "suspended"},
         NEW at \in -1..now, Changed(s, Row(key, status, at))
  PROVE  IInv'
<1>. USE DEF IInv
<1>1. TypeOK'
  BY NumbersAre DEF TypeOK, Changed, Row, Put, Enrolled, Issued, Idle, NoRequest
<1>2. PendingInv' /\ BoundInv' /\ UsedInv'
  BY DEF Changed, PendingInv, BoundInv, UsedInv, OwnProof, Issued, Idle, NoRequest
<1>. QED  BY <1>1, <1>2

\* A fresh nonce is no proof's, and the sweep only takes challenges away.
LEMMA ChallengeOK == ASSUME IInv, NEW s \in Enrolled, Challenge(s) PROVE IInv'
<1>. USE DEF IInv
<1>1. PICK n \in Nonces \ drawn :
        /\ drawn' = drawn \union {n}
        /\ challenges' = Put(Drop(challenges, {m \in DOMAIN challenges : Expired(challenges[m])}),
                             n, [subject |-> s, expires |-> now + TTL])
  BY DEF Challenge
<1>2. /\ DOMAIN challenges' \subseteq DOMAIN challenges \union {n}
      /\ n \in DOMAIN challenges'
      /\ \A m \in DOMAIN challenges' \ {n} : challenges'[m] = challenges[m]
      /\ challenges'[n] = [subject |-> s, expires |-> now + TTL]
  BY <1>1 DEF Put, Drop
<1>3. UNCHANGED <<identities, bound, sub, pending, now, changes, proofs>> /\ Idle
  BY DEF Challenge
<1>4. TypeOK'
  <2>1. DOMAIN challenges' \subseteq drawn' /\ drawn' \subseteq Nonces
    BY <1>1, <1>2 DEF TypeOK
  <2>2. \A m \in DOMAIN challenges' : /\ challenges'[m].subject \in Subjects
                                     /\ challenges'[m].expires \in 0..(now + TTL)
    BY <1>2, NumbersAre DEF TypeOK, Enrolled
  <2>. QED  BY <2>1, <2>2, <1>3 DEF TypeOK, Enrolled, Issued, Idle
<1>5. PendingInv'
  BY <1>3 DEF PendingInv, Idle, NoRequest
<1>6. BoundInv' /\ UsedInv'
  BY <1>1, <1>2, <1>3 DEF BoundInv, UsedInv, OwnProof, Issued, TypeOK
<1>. QED  BY <1>4, <1>5, <1>6

\* What is proved is proved by a challenge that is gone.
LEMMA ProveOK ==
  ASSUME IInv, NEW s \in Enrolled, NEW n \in DOMAIN challenges, NEW key \in Keys, Prove(s, n, key)
  PROVE  IInv'
<1>. USE DEF IInv
<1>1. /\ challenges' = Drop(challenges, {n})
      /\ UNCHANGED <<bound, sub, now, changes, drawn, proofs>> /\ Idle
  BY DEF Prove, Consumed
<1>2. /\ DOMAIN challenges' = DOMAIN challenges \ {n}
      /\ \A m \in DOMAIN challenges' : challenges'[m] = challenges[m]
  BY <1>1 DEF Drop
<1>3. BoundInv' /\ UsedInv'
  BY <1>1, <1>2 DEF BoundInv, UsedInv, OwnProof, Issued
<1>4. CASE ~Holds(s, n, key)
  <2>1. UNCHANGED <<identities, pending>>
    BY <1>4 DEF Prove
  <2>2. TypeOK'
    BY <1>1, <1>2, <2>1 DEF TypeOK, Enrolled, Issued, Idle, NoRequest
  <2>3. PendingInv'
    BY <1>1, <2>1 DEF PendingInv, Idle, NoRequest
  <2>. QED  BY <1>3, <2>2, <2>3
<1>5. CASE Holds(s, n, key)
  <2>1. /\ identities' = Put(identities, s, Row(identities[s].key, identities[s].status, now))
        /\ pending' = Request(s, Proof(n, challenges[n].subject, now - (challenges[n].expires - TTL),
                                       key, identities[s].key))
    BY <1>5 DEF Prove
  <2>2. /\ DOMAIN identities' = DOMAIN identities
        /\ \A r \in DOMAIN identities' \ {s} : identities'[r] = identities[r]
        /\ identities'[s] = [key |-> identities[s].key, status |-> identities[s].status, provenAt |-> now]
    BY <2>1 DEF Put, Row, Enrolled
  <2>3. pending'.subject = s
    BY <2>1 DEF Request
  <2>4. TypeOK'
    <3>1. \A r \in Enrolled' : /\ identities'[r].key \in Keys
                              /\ identities'[r].status \in {"active", "suspended"}
                              /\ identities'[r].provenAt \in -1..now
      BY <2>2, NumbersAre DEF TypeOK, Enrolled
    <3>2. pending'.subject \in Enrolled' /\ Enrolled' \subseteq Subjects
      BY <2>2, <2>3 DEF TypeOK, Enrolled
    <3>. QED  BY <1>1, <1>2, <3>1, <3>2 DEF TypeOK, Issued
  <2>5. /\ challenges[n].subject = s /\ ~(challenges[n].expires < now)
        /\ key = identities[s].key /\ challenges[n].expires \in Int
    BY <1>5, NumbersAre DEF Holds, Expired, TypeOK
  <2>6. now - (challenges[n].expires - TTL) <= TTL
    BY <2>5, NumbersAre
  <2>7. OwnProof(pending.proof, pending.subject)'
    BY <1>1, <1>2, <2>1, <2>5, <2>6 DEF OwnProof, Request, Proof, TypeOK
  <2>8. \A u \in Issued' : proofs'[u].nonce # pending'.proof.nonce
    BY <1>1, <2>1, NamesAssumption DEF UsedInv, Request, Proof, TypeOK, Issued
  <2>. QED  BY <1>3, <2>4, <2>7, <2>8 DEF PendingInv
<1>. QED  BY <1>4, <1>5

\* The token of a pending request takes over its proof.
LEMMA BindOK == ASSUME IInv, NEW t \in Tokens, Bind(t) PROVE IInv'
<1>. USE DEF IInv
<1>1. /\ ~Idle /\ t \notin Issued
      /\ sub' = Put(sub, t, pending.subject)
      /\ proofs' = Put(proofs, t, pending.proof)
      /\ bound' = Put(bound, t, [subject |-> pending.subject, proven |-> TRUE])
      /\ pending' = NoRequest
      /\ UNCHANGED <<identities, challenges, now, changes, drawn>>
  BY DEF Bind, Create
<1>2. /\ Issued' = Issued \union {t} /\ DOMAIN proofs' = DOMAIN proofs \union {t}
      /\ DOMAIN bound' = DOMAIN bound \union {t}
      /\ sub'[t] = pending.subject /\ proofs'[t] = pending.proof
      /\ bound'[t] = [subject |-> pending.subject, proven |-> TRUE]
      /\ \A u \in Issued : sub'[u] = sub[u]
      /\ \A u \in Issued : proofs'[u] = proofs[u]
      /\ \A u \in DOMAIN bound : bound'[u] = bound[u]
  BY <1>1 DEF Put, Issued, TypeOK
<1>3. pending.subject \in Subjects
  BY <1>1 DEF TypeOK
<1>4. sub' \in [Issued' -> Subjects]
  BY <1>1, <1>2, <1>3 DEF Put, TypeOK, Issued
<1>5. TypeOK'
  <2>1. \A u \in DOMAIN bound' : bound'[u].subject = sub'[u] /\ bound'[u].proven \in BOOLEAN
    <3>. SUFFICES ASSUME NEW u \in DOMAIN bound'
                  PROVE  bound'[u].subject = sub'[u] /\ bound'[u].proven \in BOOLEAN
      OBVIOUS
    <3>1. CASE u = t
      BY <3>1, <1>2
    <3>2. CASE u # t
      BY <3>2, <1>2 DEF TypeOK
    <3>. QED  BY <3>1, <3>2
  <2>2. Issued' \subseteq Tokens /\ DOMAIN proofs' = Issued' /\ DOMAIN bound' \subseteq Issued'
    BY <1>2 DEF TypeOK
  <2>. QED  BY <1>1, <1>4, <2>1, <2>2 DEF TypeOK, Enrolled, Idle
<1>6. OwnProof(pending.proof, pending.subject) /\ \A u \in Issued : proofs[u].nonce # pending.proof.nonce
  BY <1>1 DEF PendingInv
<1>7. PendingInv'
  BY <1>1 DEF PendingInv, Idle
<1>8. BoundInv'
  <2>. SUFFICES ASSUME NEW u \in DOMAIN bound', bound'[u].proven
                PROVE  OwnProof(proofs[u], sub[u])'
    BY DEF BoundInv
  <2>1. CASE u = t
    BY <2>1, <1>1, <1>2, <1>6 DEF OwnProof
  <2>2. CASE u # t
    <3>1. u \in DOMAIN bound /\ u \in Issued /\ bound[u].proven
      BY <2>2, <1>2 DEF TypeOK
    <3>2. OwnProof(proofs[u], sub[u]) /\ proofs'[u] = proofs[u] /\ sub'[u] = sub[u]
      BY <3>1, <1>2 DEF BoundInv
    <3>. QED  BY <3>2, <1>1 DEF OwnProof
  <2>. QED  BY <2>1, <2>2
<1>9. UsedInv'
  BY <1>1, <1>2, <1>6 DEF UsedInv, OwnProof
<1>. QED  BY <1>5, <1>7, <1>8, <1>9

\* A token that was asked for without proof has none to be compared with.
LEMMA UnprovenOK ==
  ASSUME IInv, NEW t \in Tokens, NEW s \in Subjects,
         Idle, Create(t, s, NoProof),
         \/ bound' = bound
         \/ bound' = Put(bound, t, [subject |-> s, proven |-> FALSE]),
         UNCHANGED <<identities, challenges, pending, now, changes, drawn>>
  PROVE  IInv'
<1>. USE DEF IInv
<1>1. /\ t \notin Issued
      /\ sub' = Put(sub, t, s)
      /\ proofs' = Put(proofs, t, NoProof)
  BY DEF Create
<1>2. /\ Issued' = Issued \union {t} /\ DOMAIN proofs' = DOMAIN proofs \union {t}
      /\ sub'[t] = s /\ proofs'[t] = NoProof
      /\ \A u \in Issued : sub'[u] = sub[u]
      /\ \A u \in Issued : proofs'[u] = proofs[u]
      /\ sub' \in [Issued' -> Subjects]
  BY <1>1 DEF Put, Issued, TypeOK
<1>3. /\ DOMAIN bound' \subseteq DOMAIN bound \union {t}
      /\ \A u \in DOMAIN bound' \ {t} : bound'[u] = bound[u]
      /\ t \in DOMAIN bound' => bound'[t] = [subject |-> s, proven |-> FALSE]
  BY <1>1 DEF Put, TypeOK
<1>4. TypeOK'
  <2>1. \A u \in DOMAIN bound' : bound'[u].subject = sub'[u] /\ bound'[u].proven \in BOOLEAN
    <3>. SUFFICES ASSUME NEW u \in DOMAIN bound'
                  PROVE  bound'[u].subject = sub'[u] /\ bound'[u].proven \in BOOLEAN
      OBVIOUS
    <3>1. CASE u = t
      <4>1. bound'[u] = [subject |-> s, proven |-> FALSE]
        BY <3>1, <1>3
      <4>2. sub'[u] = s
        BY <3>1, <1>2
      <4>. QED  BY <4>1, <4>2
    <3>2. CASE u # t
      BY <3>2, <1>2, <1>3 DEF TypeOK
    <3>. QED  BY <3>1, <3>2
  <2>2. Issued' \subseteq Tokens /\ DOMAIN proofs' = Issued' /\ DOMAIN bound' \subseteq Issued'
    BY <1>2, <1>3 DEF TypeOK
  <2>. QED  BY <1>2, <2>1, <2>2 DEF TypeOK, Enrolled, Idle
<1>5. PendingInv'
  BY DEF PendingInv, Idle, NoRequest
<1>6. NoProof.nonce = None
  BY DEF NoProof, Proof
<1>7. BoundInv'
  BY <1>2, <1>3 DEF BoundInv, OwnProof, TypeOK
<1>8. UsedInv'
  BY <1>2, <1>6, NamesAssumption DEF UsedInv, TypeOK
<1>. QED  BY <1>4, <1>5, <1>7, <1>8

\* Every step keeps the invariant.
LEMMA StepOK == IInv /\ [Next]_vars => IInv'
<1>. SUFFICES ASSUME IInv, [Next]_vars PROVE IInv'
  OBVIOUS
<1>. USE DEF IInv
<1>e. \A s \in Enrolled : s \in Subjects /\ identities[s].key \in Keys
                       /\ identities[s].status \in {"active", "suspended"} /\ identities[s].provenAt \in -1..now
  BY DEF TypeOK
<1>n. -1 \in -1..now /\ Never = -1
  BY NumbersAre DEF Never
<1>1. ASSUME NEW s \in Subjects, NEW key \in Keys, Enrol(s, key) PROVE IInv'
  BY <1>1, <1>n, ChangedOK DEF Enrol
<1>2. ASSUME NEW s \in Subjects, NEW t \in Tokens, IssueUnproven(t, s) PROVE IInv'
  BY <1>2, UnprovenOK DEF IssueUnproven
<1>3. ASSUME NEW s \in Subjects, NEW t \in Tokens, IssueOld(t, s) PROVE IInv'
  BY <1>3, UnprovenOK DEF IssueOld, tables
<1>4. ASSUME NEW s \in Enrolled, NEW key \in Keys, Rotate(s, key) PROVE IInv'
  BY <1>4, <1>e, ChangedOK DEF Rotate
<1>5. ASSUME NEW s \in Enrolled, Suspend(s) PROVE IInv'
  BY <1>5, <1>e, ChangedOK DEF Suspend
<1>6. ASSUME NEW s \in Enrolled, Reinstate(s) PROVE IInv'
  BY <1>6, <1>e, ChangedOK DEF Reinstate
<1>7. CASE Lose
  <2>1. TypeOK'
    BY <1>7 DEF Lose, tables, TypeOK, Enrolled, Issued, Idle
  <2>2. PendingInv' /\ BoundInv' /\ UsedInv'
    BY <1>7 DEF Lose, tables, PendingInv, BoundInv, UsedInv, OwnProof, Issued, Idle
  <2>. QED  BY <2>1, <2>2
<1>8. CASE Tick
  <2>1. TypeOK'
    BY <1>8, NumbersAre DEF Tick, tables, TypeOK, Enrolled, Issued, Idle, NoRequest
  <2>2. PendingInv' /\ BoundInv' /\ UsedInv'
    BY <1>8 DEF Tick, tables, PendingInv, BoundInv, UsedInv, OwnProof, Issued, Idle, NoRequest
  <2>. QED  BY <2>1, <2>2
<1>9. CASE UNCHANGED vars
  <2>1. TypeOK'
    BY <1>9 DEF vars, tables, TypeOK, Enrolled, Issued, Idle, NoRequest
  <2>2. PendingInv' /\ BoundInv' /\ UsedInv'
    BY <1>9 DEF vars, tables, PendingInv, BoundInv, UsedInv, OwnProof, Issued, Idle, NoRequest
  <2>. QED  BY <2>1, <2>2
<1>. QED  BY <1>1, <1>2, <1>3, <1>4, <1>5, <1>6, <1>7, <1>8, <1>9, ChallengeOK, ProveOK, BindOK DEF Next

-----------------------------------------------------------------------------
(* What a record is worth.                                                 *)

\* A record that is attributed names a subject that stands, and a token that was
\* proven by whoever it was issued to.
LEMMA AttributedIs ==
  ASSUME IInv, NEW r \in Named, attest(r[1], r[2]) = "DEMONSTRATED"
  PROVE  /\ r[1] \in Enrolled /\ identities[r[1]].status = "active"
         /\ r[2] \in Issued /\ proofs[r[2]].for = sub[r[2]]
<1>1. /\ r[1] \in Enrolled /\ identities[r[1]].status # "suspended"
      /\ r[2] \in DOMAIN bound /\ bound[r[2]].proven
  BY DEF attest
<1>2. r[2] \in Issued /\ r[2] # None
  BY <1>1, NamesAssumption DEF IInv, TypeOK
<1>4. OwnProof(proofs[r[2]], sub[r[2]])
  BY <1>1 DEF IInv, BoundInv
<1>. QED  BY <1>1, <1>2, <1>4 DEF IInv, TypeOK, OwnProof

\* The weakest of some states is one of them, and none of them is weaker.
LEMMA WeakestIs ==
  ASSUME NEW S \in SUBSET States, S # {}
  PROVE  /\ weakest(S) \in S
         /\ \A s \in S : Severity(weakest(S)) <= Severity(s)
<1>1. \A s \in States : Severity(s) \in 1..4
  BY DEF States, Severity
<1>2. \E s \in S : \A other \in S : Severity(s) <= Severity(other)
  BY DEF States, Severity
<1>. QED  BY <1>2, Zenon DEF weakest

\* A report is as strong as the weakest condition.
LEMMA ReportIs ==
  ASSUME NEW identity \in States, NEW hasJti \in BOOLEAN, NEW e \in Evidence,
         trustConditions(identity, hasJti, e) = "DEMONSTRATED"
  PROVE  /\ e.verdict # "unreadable"
         /\ identity = "DEMONSTRATED" /\ Capability(e, hasJti) = "DEMONSTRATED"
         /\ EvidenceState(e) = "DEMONSTRATED" /\ Governance(e) = "DEMONSTRATED"
         /\ Time(e) = "DEMONSTRATED"
<1>. DEFINE state == StateOf(identity, hasJti, e)
            S == {state[c] : c \in Conditions}
<1>1. e.verdict # "unreadable" /\ weakest(S) = "DEMONSTRATED"
  BY DEF trustConditions, States
<1>2. /\ Capability(e, hasJti) \in States /\ EvidenceState(e) \in States
      /\ Governance(e) \in States /\ Time(e) \in States
  <2>1. Capability(e, hasJti) \in States /\ EvidenceState(e) \in States
    BY DEF Evidence, Capability, EvidenceState, States, Verdicts
  <2>2. Approved(e) \in States
    BY DEF Evidence, Approved, States
  <2>3. Governance(e) \in States
    BY <2>2 DEF Evidence, Governance, States, Verdicts
  <2>4. Time(e) \in States
    BY DEF Evidence, Time, Chains, States
  <2>. QED  BY <2>1, <2>3, <2>4
<1>3. /\ state["Identity"] = identity /\ state["Capability"] = Capability(e, hasJti)
      /\ state["Evidence"] = EvidenceState(e) /\ state["Governance"] = Governance(e)
      /\ state["Time"] = Time(e)
  BY DEF StateOf, Conditions
<1>4. S = {identity, Capability(e, hasJti), EvidenceState(e), Governance(e), Time(e)}
  <2>. HIDE DEF state
  <2>. QED  BY <1>3 DEF Conditions
<1>5. S \in SUBSET States /\ S # {}
  BY <1>2, <1>4
<1>6. \A s \in S : Severity("DEMONSTRATED") <= Severity(s)
  BY <1>1, <1>5, WeakestIs
<1>7. \A s \in S : s = "DEMONSTRATED"
  BY <1>5, <1>6 DEF Severity, States
<1>. QED  BY <1>1, <1>4, <1>7

\* What a report has to go by for its strongest claim.
LEMMA EarnedIs ==
  ASSUME NEW e \in Evidence, EvidenceState(e) = "DEMONSTRATED", e.verdict # "unreadable",
         Governance(e) = "DEMONSTRATED", Time(e) = "DEMONSTRATED",
         Capability(e, TRUE) = "DEMONSTRATED"
  PROVE  /\ e.scoped /\ e.output /\ e.verdict = "intact" /\ e.chain = "valid"
         /\ e.decision # "none"
         /\ e.decision = "DENIED" => ~e.succeeded
         /\ e.decision = "REQUIRES_APPROVAL" =>
              /\ e.approval.state = "DEMONSTRATED"
              /\ e.required = "PROVEN" => e.approval.assurance = "PROVEN"
<1>1. e.verdict = "intact" /\ e.output
  BY DEF EvidenceState, Evidence, Verdicts
<1>2. e.scoped
  BY DEF Capability, Evidence
<1>3. e.chain = "valid"
  BY DEF Time, Evidence, Chains
<1>4. e.decision # "none" /\ (e.decision = "DENIED" => ~e.succeeded)
  BY <1>1 DEF Governance, Evidence
<1>5. e.decision = "REQUIRES_APPROVAL" => Approved(e) = "DEMONSTRATED"
  BY <1>1 DEF Governance, Evidence
<1>6. Approved(e) = "DEMONSTRATED" =>
        /\ e.approval.state = "DEMONSTRATED"
        /\ e.required = "PROVEN" => e.approval.assurance = "PROVEN"
  BY DEF Approved, Evidence
<1>. QED  BY <1>1, <1>2, <1>3, <1>4, <1>5, <1>6

-----------------------------------------------------------------------------
(* The theorems.                                                           *)

\* Nothing the registry and the routes do leaves the inductive invariant.
THEOREM IdentityInvariant == Spec => []IInv
BY InitOK, StepOK, PTL DEF Spec

\* Every table holds what its columns may, for any number of requests.
THEOREM IdentityTypeOK == Spec => []TypeOK
<1>1. IInv => TypeOK
  BY DEF IInv
<1>. QED  BY <1>1, IdentityInvariant, PTL

\* A token that says it was proven has a proof of its own (prove, bindToken):
\* two tokens are never issued on one challenge, and none on another's.
THEOREM IdentityProofsAreOwn == Spec => []ProofsAreOwn
<1>1. IInv => ProofsAreOwn
  <2>. SUFFICES ASSUME IInv, NEW t \in DOMAIN bound, bound[t].proven
                PROVE  /\ OwnProof(proofs[t], sub[t])
                       /\ \A u \in Issued \ {t} : proofs[u].nonce # proofs[t].nonce
    BY DEF ProofsAreOwn, OwnProof
  <2>1. OwnProof(proofs[t], sub[t]) /\ t \in Issued
    BY DEF IInv, BoundInv, TypeOK
  <2>2. proofs[t].nonce # None
    BY <2>1, NamesAssumption DEF IInv, OwnProof, TypeOK
  <2>. QED  BY <2>1, <2>2 DEF IInv, UsedInv
<1>. QED  BY <1>1, IdentityInvariant, PTL

\* The strongest claim a report makes is earned in every part, whosesoever token
\* the record names (attest, trustConditions).
THEOREM IdentityReportsAreEarned == Spec => []ReportsAreEarned
<1>1. IInv => ReportsAreEarned
  <2>. SUFFICES ASSUME IInv, NEW r \in Named, NEW e \in Checked,
                       Report(r[1], r[2], e) = "DEMONSTRATED"
                PROVE  /\ r[2] \in Issued /\ proofs[r[2]].for = sub[r[2]]
                       /\ r[1] \in Enrolled /\ identities[r[1]].status = "active"
                       /\ e.scoped /\ e.output /\ e.verdict = "intact" /\ e.chain = "valid"
                       /\ e.decision # "none"
                       /\ e.decision = "DENIED" => ~e.succeeded
                       /\ e.decision = "REQUIRES_APPROVAL" =>
                            /\ e.approval.state = "DEMONSTRATED"
                            /\ e.required = "PROVEN" => e.approval.assurance = "PROVEN"
    BY DEF ReportsAreEarned
  <2>1. attest(r[1], r[2]) \in States /\ e \in Evidence
    BY IdentityAssumption DEF attest, States
  <2>2. /\ attest(r[1], r[2]) = "DEMONSTRATED" /\ e.verdict # "unreadable"
        /\ Capability(e, r[2] # None) = "DEMONSTRATED" /\ EvidenceState(e) = "DEMONSTRATED"
        /\ Governance(e) = "DEMONSTRATED" /\ Time(e) = "DEMONSTRATED"
    BY <2>1, ReportIs DEF Report
  <2>3. /\ r[2] \in Issued /\ proofs[r[2]].for = sub[r[2]]
        /\ r[1] \in Enrolled /\ identities[r[1]].status = "active"
    BY <2>2, AttributedIs
  <2>4. r[2] # None
    BY <2>3, NamesAssumption DEF IInv, TypeOK
  <2>5. Capability(e, TRUE) = "DEMONSTRATED"
    BY <2>2, <2>4
  <2>. QED  BY <2>1, <2>2, <2>3, <2>5, EarnedIs
<1>. QED  BY <1>1, IdentityInvariant, PTL

\* What is said of a record's subject changes with the subject's standing only;
\* neither rotation, nor proofs, nor time make a token good or bad, and none is
\* good that nobody proved (attest).
THEOREM IdentityAttestationsStand == Spec => AttestationsStand
<1>1. IInv /\ IInv' /\ [Next]_vars =>
        [\A r \in Named : attest(r[1], r[2])' # attest(r[1], r[2]) =>
           /\ Standing(r[1])' # Standing(r[1])
           /\ attest(r[1], r[2])' = "DEMONSTRATED" =>
                r[2] \in Issued /\ proofs[r[2]].for = sub[r[2]]]_vars
  <2>. SUFFICES ASSUME IInv, IInv', Next, NEW r \in Named, attest(r[1], r[2])' # attest(r[1], r[2])
                PROVE  /\ Standing(r[1])' # Standing(r[1])
                       /\ attest(r[1], r[2])' = "DEMONSTRATED" =>
                            r[2] \in Issued /\ proofs[r[2]].for = sub[r[2]]
    BY DEF vars
  <2>1. r[2] \in Issued \union {None} /\ None \notin Issued /\ None \notin Tokens
    BY NamesAssumption DEF Named, IInv, TypeOK
  <2>2. \A t \in Tokens \ Issued : r[2] # t
    BY <2>1, NamesAssumption
  <2>3. \/ bound' = bound
        \/ \E row : \E t \in Tokens \ Issued : bound' = Put(bound, t, row)
    BY DEF Next, Enrol, IssueUnproven, IssueOld, Rotate, Suspend, Reinstate, Changed, Challenge,
           Prove, Bind, Create, Lose, Tick, tables
  <2>4. /\ r[2] \in DOMAIN bound' <=> r[2] \in DOMAIN bound
        /\ r[2] \in DOMAIN bound => bound'[r[2]] = bound[r[2]]
    BY <2>2, <2>3 DEF Put
  <2>5. Standing(r[1])' # Standing(r[1])
    <3>. SUFFICES ASSUME Standing(r[1])' = Standing(r[1]) PROVE FALSE
      OBVIOUS
    <3>1. \A s \in Enrolled : identities[s].status \in {"active", "suspended"}
      BY DEF IInv, TypeOK
    <3>2. \A s \in Enrolled' : identities'[s].status \in {"active", "suspended"}
      BY DEF IInv, TypeOK
    <3>3. r[1] \in Enrolled' <=> r[1] \in Enrolled
      BY <3>1, <3>2 DEF Standing, None
    <3>4. r[1] \in Enrolled => identities'[r[1]].status = identities[r[1]].status
      BY <3>3 DEF Standing
    <3>5. attest(r[1], r[2])' = attest(r[1], r[2])
      BY <2>4, <3>3, <3>4 DEF attest
    <3>. QED  BY <3>5
  <2>6. ASSUME attest(r[1], r[2])' = "DEMONSTRATED"
        PROVE  r[2] \in Issued /\ proofs[r[2]].for = sub[r[2]]
    <3>1. r[2] \in DOMAIN bound /\ bound[r[2]].proven
      BY <2>4, <2>6 DEF attest
    <3>2. r[2] \in Issued
      BY <3>1 DEF IInv, TypeOK
    <3>. QED  BY <3>1, <3>2 DEF IInv, BoundInv, OwnProof
  <2>. QED  BY <2>5, <2>6
<1>. QED  BY <1>1, IdentityInvariant, PTL DEF Spec, AttestationsStand
================================================================================
