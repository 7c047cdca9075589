------------------------------- MODULE MCIdentity -------------------------------
(* Instances of Identity for TLC.                                          *)
EXTENDS Identity, TLC

CONSTANTS agent, human, key1, key2, nonce1, nonce2, token1, token2

Symmetry == Permutations(Keys) \union Permutations(Nonces) \union Permutations(Tokens)

\* A record of which everything is in order, and all that differ from it in
\* one respect, or in the decision and one respect more.
Good == [scoped |-> TRUE, output |-> TRUE, succeeded |-> TRUE, decision |-> "PERMITTED",
         verdict |-> "intact", chain |-> "valid", approval |-> NotAsked, required |-> "ASSERTED"]

Decided == {[Good EXCEPT !.decision = d, !.succeeded = b] :
              d \in {"none", "PERMITTED", "DENIED"}, b \in BOOLEAN}

Asked == {[Good EXCEPT !.decision = "REQUIRES_APPROVAL", !.approval = a, !.required = r] :
            a \in ApprovalAttestations, r \in Assurances}

Faulty == {[Good EXCEPT !.scoped = FALSE], [Good EXCEPT !.output = FALSE]}
          \union {[Good EXCEPT !.verdict = v] : v \in Verdicts}
          \union {[Good EXCEPT !.chain = c] : c \in Chains}

Assessed == Decided \union Asked \union Faulty
===============================================================================
