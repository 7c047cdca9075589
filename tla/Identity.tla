------------------------------- MODULE Identity --------------------------------
(***************************************************************************)
(* Who a token was issued to: the registry of                              *)
(* packages/capkit/src/identity.ts, the routes of server.ts that enrol,    *)
(* challenge and issue, and what a record is worth that names a subject    *)
(* and a token: attest(), and trustConditions() of Conditions.             *)
(*                                                                         *)
(* One process serves the routes and none of the handlers awaits, so that  *)
(* one request is answered before the next begins; but each statement is   *)
(* committed on its own, and the process may stop between two.  What is    *)
(* between the proof and the token is pending.  The sweep of a challenge   *)
(* follows its insertion at once: it only takes what no proof accepts.     *)
(*                                                                         *)
(* A signature is the key it was made with; that it is over the nonce, and *)
(* by no key, are one failure.  Labels, kinds, reasons and the metered     *)
(* quota of tokens are left out, and tenants are Commerce's.               *)
(***************************************************************************)
EXTENDS Conditions, Integers

CONSTANTS Subjects,  \* names that requests and records carry
          Keys,      \* key pairs of clients
          Nonces,    \* what randomBytes may return, each once
          Tokens,    \* token ids, each once
          Checked,   \* the evidence records are assessed on
          TTL,       \* CHALLENGE_TTL_MS
          MaxTime,   \* bound: how far the clock goes
          MaxChanges \* bound: how often an identity changes

None == "none"

ASSUME IdentityAssumption == /\ Checked \subseteq Evidence
                             /\ {TTL, MaxTime, MaxChanges} \subseteq Nat
ASSUME NamesAssumption == None \notin Nonces \union Tokens

VARIABLES
  identities, \* table identities: subject -> row, of those enrolled
  challenges, \* table identity_challenges: nonce -> row
  bound,      \* table identity_tokens: token -> row
  sub,        \* token -> its sub, of the tokens issued
  pending,    \* the request for a token whose proof has held
  now,        \* the clock
  changes,    \* how often an identity changed
  drawn,      \* nonces drawn
  proofs      \* token -> what was presented for it (not stored)

tables == <<identities, challenges, bound>>
vars == <<tables, sub, pending, now, changes, drawn, proofs>>

Enrolled == DOMAIN identities
Issued == DOMAIN sub

Row(key, status, provenAt) == [key |-> key, status |-> status, provenAt |-> provenAt]

\* The proof a token was asked for with: the challenge, whose it was and how
\* old, the key that signed it, and the key that was on file.
Proof(nonce, for, age, key, filed) ==
  [nonce |-> nonce, for |-> for, age |-> age, key |-> key, filed |-> filed]

NoProof == Proof(None, None, 0, None, None)

Request(s, proof) == [subject |-> s, proof |-> proof]
NoRequest == Request(None, NoProof)

Idle == pending = NoRequest

Never == -1

Put(f, x, y) == [z \in DOMAIN f \union {x} |-> IF z = x THEN y ELSE f[z]]
Drop(f, X) == [z \in DOMAIN f \ X |-> f[z]]

Init ==
  /\ identities = << >> /\ challenges = << >> /\ bound = << >>
  /\ sub = << >> /\ proofs = << >>
  /\ Idle
  /\ now = 0 /\ changes = 0 /\ drawn = {}

-----------------------------------------------------------------------------
(* Identities: /identities and /identities/:subject.                       *)

Changed(s, row) ==
  /\ Idle
  /\ changes < MaxChanges /\ changes' = changes + 1
  /\ identities' = Put(identities, s, row)
  /\ UNCHANGED <<challenges, bound, sub, pending, now, drawn, proofs>>

\* enrol(), which refuses who is enrolled.
Enrol(s, key) == s \notin Enrolled /\ Changed(s, Row(key, "active", Never))

\* rotate(), which refuses the key on file; challenges already drawn stay.
Rotate(s, key) ==
  LET row == identities[s]
  IN key # row.key /\ Changed(s, Row(key, row.status, row.provenAt))

Suspend(s) ==
  LET row == identities[s] IN Changed(s, Row(row.key, "suspended", row.provenAt))

Reinstate(s) ==
  LET row == identities[s] IN Changed(s, Row(row.key, "active", row.provenAt))

-----------------------------------------------------------------------------
(* Tokens.                                                                 *)

Expired(challenge) == challenge.expires < now

\* POST /identities/:subject/challenge: the row, and the sweep of the expired.
Challenge(s) ==
  /\ Idle
  /\ identities[s].status = "active"
  /\ \E n \in Nonces \ drawn :
       /\ drawn' = drawn \union {n}
       /\ challenges' = Put(Drop(challenges, {m \in DOMAIN challenges : Expired(challenges[m])}),
                            n, [subject |-> s, expires |-> now + TTL])
  /\ UNCHANGED <<identities, bound, sub, pending, now, changes, proofs>>

\* Mutant of Consumed: a challenge that failed may be tried again.
ConsumedOnSuccess(n, ok) == IF ok THEN Drop(challenges, {n}) ELSE challenges

\* Mutant of Consumed: the row stays until the sweep.
ConsumedLater(n, ok) == challenges

\* The challenge is deleted whatever comes of it.
Consumed(n, ok) == Drop(challenges, {n})

\* Mutant of Holds: any subject's challenge will do.
HoldsForAny(s, n, key) ==
  ~Expired(challenges[n]) /\ key = identities[s].key

\* The rest of prove(): the challenge was this subject's, is in time, and the
\* signature verifies against the key on file.
Holds(s, n, key) ==
  /\ challenges[n].subject = s
  /\ ~Expired(challenges[n])
  /\ key = identities[s].key

\* prove(), for POST /auth/token: to a subject that is enrolled and active.
Prove(s, n, key) ==
  LET ok == Holds(s, n, key)
      row == identities[s]
  IN /\ Idle
     /\ row.status = "active"
     /\ challenges' = Consumed(n, ok)
     /\ IF ok
        THEN /\ identities' = Put(identities, s, Row(row.key, row.status, now))
             /\ pending' = Request(s, Proof(n, challenges[n].subject,
                                            now - (challenges[n].expires - TTL),
                                            key, row.key))
        ELSE UNCHANGED <<identities, pending>>
     /\ UNCHANGED <<bound, sub, now, changes, drawn, proofs>>

\* CapabilityToken.create(), for whoever a token is issued to.
Create(t, s, proof) ==
  /\ t \notin Issued
  /\ sub' = Put(sub, t, s)
  /\ proofs' = Put(proofs, t, proof)

\* bindToken(), and the answer.
Bind(t) ==
  /\ ~Idle
  /\ Create(t, pending.subject, pending.proof)
  /\ bound' = Put(bound, t, [subject |-> pending.subject, proven |-> TRUE])
  /\ pending' = NoRequest
  /\ UNCHANGED <<identities, challenges, now, changes, drawn>>

\* Mutant of Lose: the token is bound before it is made.
LoseBound ==
  /\ ~Idle /\ pending' = NoRequest
  /\ \E t \in Tokens \ Issued :
       bound' = Put(bound, t, [subject |-> pending.subject, proven |-> TRUE])
  /\ UNCHANGED <<identities, challenges, sub, now, changes, drawn, proofs>>

\* The scope or the duration is refused, or the process stops: no token.
Lose ==
  /\ ~Idle /\ pending' = NoRequest
  /\ UNCHANGED <<tables, sub, now, changes, drawn, proofs>>

\* POST /auth/token, for a subject nobody has enrolled: bound, but not proven.
IssueUnproven(t, s) ==
  /\ Idle
  /\ s \notin Enrolled
  /\ Create(t, s, NoProof)
  /\ bound' = Put(bound, t, [subject |-> s, proven |-> FALSE])
  /\ UNCHANGED <<identities, challenges, pending, now, changes, drawn>>

\* POST /issue, which asks nobody and binds nothing.
IssueOld(t, s) ==
  /\ Idle
  /\ Create(t, s, NoProof)
  /\ UNCHANGED <<tables, pending, now, changes, drawn>>

Tick == /\ Idle
        /\ now < MaxTime /\ now' = now + 1
        /\ UNCHANGED <<tables, sub, pending, changes, drawn, proofs>>

Next ==
  \/ \E s \in Subjects : \/ \E key \in Keys : Enrol(s, key)
                         \/ \E t \in Tokens : IssueUnproven(t, s) \/ IssueOld(t, s)
  \/ \E s \in Enrolled : \/ \E key \in Keys : Rotate(s, key)
                         \/ Suspend(s) \/ Reinstate(s) \/ Challenge(s)
                         \/ \E n \in DOMAIN challenges, key \in Keys : Prove(s, n, key)
  \/ \E t \in Tokens : Bind(t)
  \/ Lose \/ Tick

Spec == Init /\ [][Next]_vars

-----------------------------------------------------------------------------
(* What a record is worth.                                                 *)

\* Mutant of attest: who is known is who it was.
attestEnrolled(s, t) == IF s \in Enrolled THEN "DEMONSTRATED" ELSE "UNKNOWN"

\* attest(), of a record that names s and the token t, or none.
attest(s, t) ==
  CASE s \notin Enrolled -> "UNKNOWN"
    [] s \in Enrolled /\ identities[s].status = "suspended" -> "FAILED"
    [] OTHER -> CASE t \notin DOMAIN bound -> "UNKNOWN"
                  [] t \in DOMAIN bound ->
                       IF bound[t].proven THEN "DEMONSTRATED" ELSE "FAILED"

\* GET /executions/:id/conditions
Report(s, t, e) == trustConditions(attest(s, t), t # None, e)

\* What POST /executions may record: it takes the subject and the token id
\* from its caller, who may name any token that was issued, its own or another
\* subject's, or none.
Named == Subjects \X (Issued \union {None})

-----------------------------------------------------------------------------
(* Properties.                                                             *)

\* Every table holds what its columns may.
TypeOK ==
  /\ Enrolled \subseteq Subjects
  /\ \A s \in Enrolled : /\ identities[s].key \in Keys
                         /\ identities[s].status \in {"active", "suspended"}
                         /\ identities[s].provenAt \in -1..now
  /\ DOMAIN challenges \subseteq drawn /\ drawn \subseteq Nonces
  /\ \A n \in DOMAIN challenges : /\ challenges[n].subject \in Subjects
                                  /\ challenges[n].expires \in 0..(now + TTL)
  /\ Issued \subseteq Tokens /\ DOMAIN proofs = Issued
  /\ sub \in [Issued -> Subjects]
  /\ DOMAIN bound \subseteq Issued
  /\ \A t \in DOMAIN bound : /\ bound[t].subject = sub[t]
                             /\ bound[t].proven \in BOOLEAN
  /\ Idle \/ pending.subject \in Enrolled
  /\ now \in 0..MaxTime /\ changes \in 0..MaxChanges

\* A token that says it was proven was asked for with a challenge of its own:
\* drawn for its subject no longer ago than TTL, signed with the key then on
\* file, used for no other token and not to be used again (prove, bindToken, POST /auth/token).
ProofsAreOwn ==
  \A t \in DOMAIN bound : bound[t].proven =>
    /\ proofs[t].for = sub[t]
    /\ proofs[t].age <= TTL
    /\ proofs[t].key = proofs[t].filed
    /\ proofs[t].nonce \notin DOMAIN challenges
    /\ \A u \in Issued \ {t} : proofs[u].nonce # proofs[t].nonce

\* What a record is assessed as never says more than was shown, but for one
\* thing: its strongest claim takes a token whose subject proved itself, content
\* and chain that verify, and a rule that held, by a person where it asked for
\* one; and whom the record names is enrolled and not suspended.  That the two
\* are the same subject nobody asks: AttestedOnOwnProof (attest,
\* trustConditions, governanceCondition).
ReportsAreEarned ==
  \A r \in Named, e \in Checked :
    Report(r[1], r[2], e) = "DEMONSTRATED" =>
      /\ r[2] \in Issued /\ proofs[r[2]].for = sub[r[2]]
      /\ r[1] \in Enrolled /\ identities[r[1]].status = "active"
      /\ e.scoped /\ e.output /\ e.verdict = "intact" /\ e.chain = "valid"
      /\ e.decision # "none"
      /\ e.decision = "DENIED" => ~e.succeeded
      /\ e.decision = "REQUIRES_APPROVAL" =>
           /\ e.approval.state = "DEMONSTRATED"
           /\ e.required = "PROVEN" => e.approval.assurance = "PROVEN"

\* What a record says of the subject it names changes when that subject is
\* enrolled, suspended or reinstated, and at no other time, whosesoever token it
\* names; and a token that was issued without proof is not made good later, so
\* that what becomes DEMONSTRATED was proven by somebody (attest, POST
\* /auth/token).
Standing(s) == IF s \in Enrolled THEN identities[s].status ELSE None

AttestationsStand ==
  [][\A r \in Named : attest(r[1], r[2])' # attest(r[1], r[2]) =>
       /\ Standing(r[1])' # Standing(r[1])
       /\ attest(r[1], r[2])' = "DEMONSTRATED" =>
            r[2] \in Issued /\ proofs[r[2]].for = sub[r[2]]]_vars

\* "the token that authorised this was issued only after it signed a challenge
\* with the key on file" (identity.ts:359): a record is attributed to the
\* subject it names on that subject's proof.
AttestedOnOwnProof ==
  \A r \in Named : attest(r[1], r[2]) = "DEMONSTRATED" => proofs[r[2]].for = r[1]

================================================================================
