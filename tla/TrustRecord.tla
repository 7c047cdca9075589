------------------------------ MODULE TrustRecord ------------------------------
(***************************************************************************)
(* What packages/trust keeps of its subjects: the events of events.ts and   *)
(* the appeals against them, the score that scoring.ts makes of them, and   *)
(* the contracts and breaches of reciprocal.ts, which are events too.       *)
(*                                                                         *)
(* An event counts in full however old it is: the half-life, the limits on  *)
(* how many rows a reading returns, and notes and reasons are left out.     *)
(* An obligation is the side that owes it and its severity.  Agents and     *)
(* operators have different names.                                          *)
(***************************************************************************)
EXTENDS Integers, Sequences, FiniteSets, SequencesExt

CONSTANTS Agents, Operators,
          Pairs,       \* the agents and operators that make a contract
          Reports,     \* what is reported at once: sequences of kinds
          Saturation,  \* confidenceSaturation: 25
          Level,       \* net weight -> round(50 + 50 * tanh(net / 25))
          MaxEvents,   \* bound: how many events there are
          MaxAppeals,  \* bound: how many appeals are raised
          MaxBreaches, \* bound: how many breaches are recorded
          MaxFaults    \* bound: how many crashes

EVENT_WEIGHTS ==
  [execution_success |-> 1, verification_passed |-> 2, human_approval |-> 2,
   execution_failure |-> -3, verification_failed |-> -6, unsupported_claim |-> -5,
   contradiction |-> -5, peer_disagreement |-> -2, authorisation_denied |-> -4,
   policy_violation |-> -10, manual_override |-> -1, appeal_upheld |-> 4]

\* A kind is any string that a caller of POST /events gives: the union type
\* TrustEventKind is not checked at run time.  One the weights do not list is as
\* good as another.
Unlisted == "unlisted"

Kinds == DOMAIN EVENT_WEIGHTS \cup {Unlisted}

\* findingsToEventKinds(): what a report of verifyOutput() may come to.
Verdicts == {<<"unsupported_claim">>, <<"contradiction">>,
             <<"unsupported_claim", "contradiction">>, <<"verification_passed">>}

Subjects == Agents \cup Operators

Nets == -10 * MaxEvents .. 4 * MaxEvents

ASSUME SubjectsAssumption == Agents \cap Operators = {} /\ Pairs \subseteq Agents \X Operators
ASSUME ReportsAssumption ==
  Reports \subseteq Verdicts \cup {<<k>> : k \in Kinds}
ASSUME ScoreAssumption == Saturation \in Nat \ {0} /\ Level \in [Nets -> 0..100]
ASSUME RecordBounds == {MaxEvents, MaxAppeals, MaxBreaches, MaxFaults} \subseteq Nat

VARIABLES
  events,    \* table trust_events
  appeals,   \* table trust_appeals
  contracts, \* table trust_contracts: <<agent, operator>> -> status
  breaches,  \* table trust_breaches
  faults     \* how often the service stopped in the middle of a request

record == <<events, appeals, contracts, breaches, faults>>

\* `about` is evidence_ref: the number of a breach or of an appeal, or neither.
Nothing == [what |-> "nothing", number |-> 0]
Reference(what, n) == [what |-> what, number |-> n]

References == {Nothing} \cup {Reference("appeal", a) : a \in DOMAIN appeals}
                        \cup {Reference("breach", b) : b \in DOMAIN breaches}

\* `reported` is not stored anywhere: the event came from a caller, and was not
\* written by decideAppeal() or recordBreach().
Event(subject, kind, about, reported) ==
  [subject |-> subject, kind |-> kind, about |-> about, reported |-> reported,
   neutralised |-> FALSE]

Neutralised(e) ==
  [subject |-> e.subject, kind |-> e.kind, about |-> e.about, reported |-> e.reported,
   neutralised |-> TRUE]

\* STANDARD_OBLIGATIONS: five are owed by each side, some major, some minor.
Obligations == [owedBy : {"agent", "operator"}, severity : {"major", "minor"}]

Room(n) == Len(events) + n <= MaxEvents

-----------------------------------------------------------------------------
(* computeScore()                                                          *)

Counted(subject) ==
  {n \in DOMAIN events : events[n].subject = subject /\ ~events[n].neutralised}

\* EVENT_WEIGHTS[kind] ?? 0
WeightOf(kind) == IF kind = Unlisted THEN 0 ELSE EVENT_WEIGHTS[kind]

Net(subject) ==
  FoldSet(LAMBDA n, sum : sum + WeightOf(events[n].kind), 0, Counted(subject))

\* Fewer events than half of what saturates confidence make a score unproven.
Confident(subject) == 2 * Cardinality(Counted(subject)) >= Saturation

Score(subject) == Level[Net(subject)]

-----------------------------------------------------------------------------
RecordInit == /\ events = << >>
              /\ appeals = << >>
              /\ contracts = << >>
              /\ breaches = << >>
              /\ faults = 0

\* POST /events, with one kind and whatever evidence its caller names, and POST
\* /verify, with the kinds its report comes to and no evidence: they are written
\* one by one, and the service may stop in between.
Report(subject, kinds, about) ==
  /\ Room(Len(kinds))
  /\ about # Nothing => Len(kinds) = 1
  /\ \E n \in 1..Len(kinds) :
       /\ n < Len(kinds) => faults < MaxFaults
       /\ faults' = faults + (IF n < Len(kinds) THEN 1 ELSE 0)
       /\ events' = events \o [i \in 1..n |-> Event(subject, kinds[i], about, TRUE)]
  /\ UNCHANGED <<appeals, contracts, breaches>>

-----------------------------------------------------------------------------
(* Appeals.                                                                *)

\* POST /events/:id/appeal: any event, appealed or neutralised before or not.
Appeal(n) ==
  /\ Len(appeals) < MaxAppeals
  /\ n \in DOMAIN events
  /\ appeals' = Append(appeals, [event |-> n, status |-> "open"])
  /\ UNCHANGED <<events, contracts, breaches, faults>>

Decided(a, status) ==
  /\ appeals[a].status = "open"
  /\ appeals' = [appeals EXCEPT ![a].status = status]
  /\ UNCHANGED <<contracts, breaches, faults>>

\* Mutant of Uphold: upheld appeals are decided again.
UpholdAgain(a) ==
  /\ Room(1)
  /\ appeals[a].status # "rejected"
  /\ appeals' = [appeals EXCEPT ![a].status = "upheld"]
  /\ LET n == appeals[a].event
     IN events' = Append([events EXCEPT ![n] = Neutralised(events[n])],
                         Event(events[n].subject, "appeal_upheld", Reference("appeal", a), FALSE))
  /\ UNCHANGED <<contracts, breaches, faults>>

\* Mutant of Uphold: an event that does not count is deleted.
UpholdDeleting(a) ==
  /\ Decided(a, "upheld")
  /\ events' = RemoveAt(events, appeals[a].event)

\* POST /appeals/:id/decide: one transaction settles the appeal, takes the
\* event out of the score and records another that repairs it.
Uphold(a) ==
  /\ Room(1)
  /\ Decided(a, "upheld")
  /\ LET n == appeals[a].event
     IN events' = Append([events EXCEPT ![n] = Neutralised(events[n])],
                         Event(events[n].subject, "appeal_upheld", Reference("appeal", a), FALSE))

Reject(a) == Decided(a, "rejected") /\ UNCHANGED events

-----------------------------------------------------------------------------
(* Contracts.                                                              *)

\* POST /contracts: a pair that has a contract keeps it.
Establish(c) ==
  /\ c \notin DOMAIN contracts
  /\ contracts' = [d \in DOMAIN contracts \cup {c} |->
                     IF d = c THEN "active" ELSE contracts[d]]
  /\ UNCHANGED <<events, appeals, breaches, faults>>

\* POST /contracts/:id/suspend and /reinstate
SetStatus(c, status) ==
  /\ contracts' = [contracts EXCEPT ![c] = status]
  /\ UNCHANGED <<events, appeals, breaches, faults>>

\* Mutant of Charge: whatever goes wrong is held against the agent.
ChargeAgent(c, o, n) ==
  Event(c[1], IF o.severity = "major" THEN "policy_violation" ELSE "execution_failure",
        Reference("breach", n), FALSE)

\* The event a breach leaves, on the record of the side that broke the contract.
Charge(c, o, n) ==
  Event(IF o.owedBy = "agent" THEN c[1] ELSE c[2],
        IF o.severity = "major" THEN "policy_violation" ELSE "execution_failure",
        Reference("breach", n), FALSE)

\* POST /contracts/:id/breach, of a contract in whatever status: a row, then
\* an event.  They are no transaction: the service may stop between the two.
RecordBreach(c, o) ==
  /\ Len(breaches) < MaxBreaches /\ Room(1)
  /\ breaches' = Append(breaches, [contract |-> c, by |-> o.owedBy, remediated |-> FALSE])
  /\ \/ /\ events' = Append(events, Charge(c, o, Len(breaches) + 1))
        /\ UNCHANGED faults
     \/ /\ faults < MaxFaults
        /\ faults' = faults + 1
        /\ UNCHANGED events
  /\ UNCHANGED <<appeals, contracts>>

\* POST /breaches/:id/remediate
Remediate(b) ==
  /\ breaches' = [breaches EXCEPT ![b].remediated = TRUE]
  /\ UNCHANGED <<events, appeals, contracts, faults>>

\* health(): the side with seven in ten of the breaches is named.
Fault(c) ==
  LET By(side) == Cardinality({b \in DOMAIN breaches : breaches[b].contract = c
                                                       /\ breaches[b].by = side})
      all == By("agent") + By("operator")
  IN IF all = 0 THEN "none"
     ELSE IF 10 * By("agent") >= 7 * all THEN "agent"
     ELSE IF 10 * By("agent") <= 3 * all THEN "operator"
     ELSE "shared"

RecordNext ==
  \/ \E s \in Subjects, r \in Reports, about \in References : Report(s, r, about)
  \/ \E n \in DOMAIN events : Appeal(n)
  \/ \E a \in DOMAIN appeals : Uphold(a) \/ Reject(a)
  \/ \E c \in Pairs : Establish(c)
  \/ \E c \in DOMAIN contracts : \/ \E s \in {"active", "suspended"} : SetStatus(c, s)
                                 \/ \E o \in Obligations : RecordBreach(c, o)
  \/ \E b \in DOMAIN breaches : Remediate(b)

-----------------------------------------------------------------------------
RecordTypeOK ==
  /\ Len(events) <= MaxEvents
  /\ \A n \in DOMAIN events :
       /\ events[n].subject \in Subjects /\ events[n].kind \in Kinds
       /\ events[n].neutralised \in BOOLEAN /\ events[n].reported \in BOOLEAN
       /\ events[n].about \in [what : {"nothing", "breach", "appeal"}, number : Nat]
  /\ \A a \in DOMAIN appeals : /\ appeals[a].event \in DOMAIN events
                               /\ appeals[a].status \in {"open", "upheld", "rejected"}
  /\ DOMAIN contracts \subseteq Pairs
  /\ \A c \in DOMAIN contracts : contracts[c] \in {"active", "suspended"}
  /\ \A b \in DOMAIN breaches : /\ breaches[b].contract \in DOMAIN contracts
                                /\ breaches[b].by \in {"agent", "operator"}
                                /\ breaches[b].remediated \in BOOLEAN
  /\ faults \in 0..MaxFaults

\* The evidence of an event that the service wrote itself.  What a caller says
\* its event is about proves nothing: it may name any appeal or breach.
Grounds(e) == IF e.reported THEN Nothing ELSE e.about

\* The events that the service wrote for a row of one of the other tables.
Mentions(what, n) == {e \in DOMAIN events : Grounds(events[e]) = Reference(what, n)}

\* Appeals and the record agree: an event is out of the score exactly when an
\* appeal against it was upheld, and the service repairs each appeal upheld once,
\* on the record of the subject it was about, and no other appeal at all
\* (decideAppeal).  Of appeal_upheld events that callers report it says nothing.
AppealsSettled ==
  /\ \A n \in DOMAIN events :
       events[n].neutralised <=> \E a \in DOMAIN appeals : /\ appeals[a].event = n
                                                           /\ appeals[a].status = "upheld"
  /\ \A a \in DOMAIN appeals :
       /\ Cardinality(Mentions("appeal", a)) = IF appeals[a].status = "upheld" THEN 1 ELSE 0
       /\ \A e \in Mentions("appeal", a) :
            events[e].subject = events[appeals[a].event].subject

\* The service holds a breach against the side that broke the contract, at most
\* once, and never against the other: no agent answers for its operator, and
\* whoever health() names has it on the record (recordBreach, health).  A crash
\* in the middle of the request keeps it off the record for good, and this
\* allows for that: no more breaches are missing than there were crashes.
BreachesCharged ==
  /\ \A b \in DOMAIN breaches :
       /\ Cardinality(Mentions("breach", b)) <= 1
       /\ \A e \in Mentions("breach", b) :
            events[e].subject = breaches[b].contract[IF breaches[b].by = "agent" THEN 1 ELSE 2]
  /\ Cardinality({b \in DOMAIN breaches : Mentions("breach", b) = {}}) <= faults
  /\ \A c \in DOMAIN contracts, side \in {"agent", "operator"} :
       (Fault(c) = side /\ faults = 0) =>
         \E n \in DOMAIN events : /\ Grounds(events[n]).what = "breach"
                                  /\ events[n].subject = c[IF side = "agent" THEN 1 ELSE 2]
===============================================================================
