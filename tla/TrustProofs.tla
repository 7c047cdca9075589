------------------------------ MODULE TrustProofs ------------------------------
(***************************************************************************)
(* Proofs about Trust, for any number of events, appeals, breaches and     *)
(* disputes, any panels, and scores that are whatever Level makes of them. *)
(*                                                                         *)
(* Appeals and breaches are told apart in the events by what these         *)
(* mention: each row is mentioned by no event or by one (MentionedInv),    *)
(* and no event mentions a row that is not there yet, so that a new row    *)
(* starts with none (KnownInv).  That no family settles a dispute alone    *)
(* needs nothing of the weights: an answer with the support of two         *)
(* families has, for each, a participant of another.  That a score is a    *)
(* percentage, and that a panel has a leader, need the sums they are made  *)
(* of to be numbers, whatever the order in which they are taken (IsSum).   *)
(***************************************************************************)
EXTENDS Trust, WellFoundedInduction, FiniteSetTheorems, TLAPS

About == [what : {"nothing", "breach", "appeal"}, number : Nat]
EventRow == [subject : Subjects, kind : Kinds, about : About, reported : BOOLEAN,
             neutralised : BOOLEAN]
AppealRow == [event : Nat, status : {"open", "upheld", "rejected"}]
BreachRow == [contract : Pairs, by : {"agent", "operator"}, remediated : BOOLEAN]

TablesOK ==
  /\ events \in Seq(EventRow) /\ Len(events) <= MaxEvents
  /\ appeals \in Seq(AppealRow) /\ \A a \in DOMAIN appeals : appeals[a].event \in DOMAIN events
  /\ DOMAIN contracts \subseteq Pairs
  /\ \A c \in DOMAIN contracts : contracts[c] \in {"active", "suspended"}
  /\ breaches \in Seq(BreachRow) /\ \A b \in DOMAIN breaches : breaches[b].contract \in DOMAIN contracts
  /\ faults \in 0..MaxFaults

\* An event that the service wrote mentions only a row that is there.
KnownInv ==
  \A e \in DOMAIN events :
    /\ Grounds(events[e]).what = "appeal" => Grounds(events[e]).number \in DOMAIN appeals
    /\ Grounds(events[e]).what = "breach" => Grounds(events[e]).number \in DOMAIN breaches

\* Out of the score, and appealed with success.
NeutralisedInv ==
  \A n \in DOMAIN events :
    events[n].neutralised <=> \E a \in DOMAIN appeals : /\ appeals[a].event = n
                                                        /\ appeals[a].status = "upheld"

\* Each appeal upheld is mentioned by one event and no other appeal by any; a
\* breach is mentioned by none or by one, on the right record.
Owner(b) == breaches[b].contract[IF breaches[b].by = "agent" THEN 1 ELSE 2]

MentionedInv ==
  /\ \A a \in DOMAIN appeals :
       IF appeals[a].status = "upheld"
       THEN \E e \in DOMAIN events : /\ Mentions("appeal", a) = {e}
                                     /\ events[e].subject = events[appeals[a].event].subject
       ELSE Mentions("appeal", a) = {}
  /\ \A b \in DOMAIN breaches :
       \/ Mentions("breach", b) = {}
       \/ \E e \in DOMAIN events : Mentions("breach", b) = {e} /\ events[e].subject = Owner(b)

Unheld == {b \in DOMAIN breaches : Mentions("breach", b) = {}}

FaultsInv == Cardinality(Unheld) <= faults

IInv == TablesOK /\ KnownInv /\ NeutralisedInv /\ MentionedInv /\ FaultsInv

-----------------------------------------------------------------------------
(* Sequences and sets.                                                     *)

LEMMA BoundsAre == MaxEvents \in Nat /\ MaxAppeals \in Nat /\ MaxBreaches \in Nat /\ MaxFaults \in Nat
BY RecordBounds

LEMMA AppendIs ==
  ASSUME NEW S, NEW seq \in Seq(S), NEW x \in S
  PROVE  /\ Append(seq, x) \in Seq(S) /\ Len(Append(seq, x)) = Len(seq) + 1 /\ Len(seq) \in Nat
         /\ DOMAIN Append(seq, x) = DOMAIN seq \cup {Len(seq) + 1} /\ Len(seq) + 1 \notin DOMAIN seq
         /\ Append(seq, x)[Len(seq) + 1] = x
         /\ \A i \in DOMAIN seq : Append(seq, x)[i] = seq[i]
OBVIOUS

LEMMA ExceptIs ==
  ASSUME NEW S, NEW seq \in Seq(S), NEW i \in DOMAIN seq, NEW x \in S
  PROVE  LET new == [seq EXCEPT ![i] = x]
         IN /\ new \in Seq(S) /\ Len(new) = Len(seq) /\ DOMAIN new = DOMAIN seq
            /\ new[i] = x /\ \A j \in DOMAIN seq \ {i} : new[j] = seq[j]
OBVIOUS

LEMMA JoinIs ==
  ASSUME NEW S, NEW seq \in Seq(S), NEW n \in Nat, NEW more \in [1..n -> S]
  PROVE  /\ seq \o more \in Seq(S) /\ Len(seq \o more) = Len(seq) + n /\ Len(seq) \in Nat
         /\ DOMAIN seq \subseteq DOMAIN (seq \o more)
         /\ \A i \in DOMAIN seq : (seq \o more)[i] = seq[i]
         /\ \A i \in DOMAIN (seq \o more) \ DOMAIN seq :
              i - Len(seq) \in 1..n /\ (seq \o more)[i] = more[i - Len(seq)]
<1>1. more \in Seq(S) /\ Len(more) = n
  OBVIOUS
<1>2. /\ seq \o more \in Seq(S) /\ Len(seq \o more) = Len(seq) + n /\ Len(seq) \in Nat
      /\ DOMAIN (seq \o more) = 1..(Len(seq) + n) /\ DOMAIN seq = 1..Len(seq)
  BY <1>1
<1>3. \A i \in 1..(Len(seq) + n) :
        (seq \o more)[i] = IF i <= Len(seq) THEN seq[i] ELSE more[i - Len(seq)]
  BY <1>1
<1>. QED  BY <1>2, <1>3

LEMMA UnheldFinite == TablesOK => IsFiniteSet(Unheld)
<1>. SUFFICES ASSUME TablesOK PROVE IsFiniteSet(Unheld)
  OBVIOUS
<1>1. Len(breaches) \in Nat /\ Unheld \subseteq 1..Len(breaches)
  BY DEF TablesOK, Unheld
<1>2. IsFiniteSet(1..Len(breaches))
  BY <1>1, FS_Interval
<1>. QED  BY <1>1, <1>2, FS_Subset

-----------------------------------------------------------------------------
(* What an event may change.                                               *)

\* Events are added, and each mentions what Row says, or nothing.
Grown(what, number) ==
  /\ DOMAIN events \subseteq DOMAIN events'
  /\ \A e \in DOMAIN events : /\ Grounds(events'[e]) = Grounds(events[e])
                              /\ events'[e].subject = events[e].subject
  /\ \A e \in DOMAIN events' \ DOMAIN events :
       Grounds(events'[e]) \in {Nothing, Reference(what, number)}

LEMMA MentionsStay ==
  ASSUME NEW what, NEW number, Grown(what, number),
         NEW w \in {"appeal", "breach"}, NEW n, <<w, n>> # <<what, number>>
  PROVE  Mentions(w, n)' = Mentions(w, n)
<1>1. Reference(w, n) # Nothing /\ Reference(w, n) # Reference(what, number)
  BY DEF Reference, Nothing
<1>. QED  BY <1>1 DEF Mentions, Grown

\* One event is added, which mentions a row that none did.
LEMMA MentionsOne ==
  ASSUME NEW what, NEW number, Mentions(what, number) = {},
         DOMAIN events \subseteq DOMAIN events',
         \A e \in DOMAIN events : Grounds(events'[e]) = Grounds(events[e]),
         NEW k, DOMAIN events' = DOMAIN events \cup {k}, k \notin DOMAIN events,
         Grounds(events'[k]) = Reference(what, number)
  PROVE  Mentions(what, number)' = {k}
BY DEF Mentions

\* A row that is not there is not mentioned.
LEMMA UnknownIs ==
  ASSUME KnownInv
  PROVE  /\ \A n : n \notin DOMAIN appeals => Mentions("appeal", n) = {}
         /\ \A n : n \notin DOMAIN breaches => Mentions("breach", n) = {}
BY DEF KnownInv, Mentions, Reference

-----------------------------------------------------------------------------
(* Steps of the record.                                                    *)

LEMMA KindsAre ==
  /\ {"unsupported_claim", "contradiction", "verification_passed", "appeal_upheld",
      "policy_violation", "execution_failure"} \subseteq Kinds
  /\ \A r \in Reports : r \in Seq(Kinds)
<1>1. {"unsupported_claim", "contradiction", "verification_passed", "appeal_upheld",
       "policy_violation", "execution_failure"} \subseteq Kinds
  BY DEF Kinds, EVENT_WEIGHTS
<1>3. \A k, l \in Kinds : <<k>> \in Seq(Kinds) /\ <<k, l>> \in Seq(Kinds)
  OBVIOUS
<1>2. \A r \in Verdicts : r \in Seq(Kinds)
  BY <1>1, <1>3, Zenon DEF Verdicts
<1>. QED  BY <1>1, <1>2, <1>3, ReportsAssumption

LEMMA InitOK == RecordInit => IInv
<1>. SUFFICES ASSUME RecordInit PROVE IInv
  OBVIOUS
<1>1. /\ events = << >> /\ appeals = << >> /\ DOMAIN contracts = {} /\ breaches = << >> /\ faults = 0
  BY DEF RecordInit
<1>2. /\ DOMAIN events = {} /\ DOMAIN appeals = {} /\ DOMAIN breaches = {}
      /\ Len(events) = 0 /\ events \in Seq(EventRow) /\ appeals \in Seq(AppealRow)
      /\ breaches \in Seq(BreachRow)
  BY <1>1
<1>3. TablesOK
  BY <1>1, <1>2, BoundsAre DEF TablesOK
<1>4. Unheld = {} /\ Cardinality({}) = 0
  BY <1>2, FS_EmptySet DEF Unheld
<1>. QED  BY <1>1, <1>2, <1>3, <1>4 DEF IInv, KnownInv, NeutralisedInv, MentionedInv, FaultsInv

\* What is mentioned of the rows stays as it is when no event mentions another.
LEMMA MentionedStays ==
  ASSUME TablesOK, MentionedInv, UNCHANGED <<appeals, breaches>>,
         DOMAIN events \subseteq DOMAIN events',
         \A e \in DOMAIN events : events'[e].subject = events[e].subject,
         \A w \in {"appeal", "breach"} : \A k : Mentions(w, k)' = Mentions(w, k)
  PROVE  MentionedInv'
<1>1. ASSUME NEW a \in DOMAIN appeals
      PROVE  IF appeals[a].status = "upheld"
             THEN \E e \in DOMAIN events' : /\ Mentions("appeal", a)' = {e}
                                            /\ events'[e].subject = events'[appeals[a].event].subject
             ELSE Mentions("appeal", a)' = {}
  <2>1. Mentions("appeal", a)' = Mentions("appeal", a) /\ appeals[a].event \in DOMAIN events
    BY DEF TablesOK
  <2>. QED  BY <2>1 DEF MentionedInv
<1>2. ASSUME NEW b \in DOMAIN breaches
      PROVE  \/ Mentions("breach", b)' = {}
             \/ \E e \in DOMAIN events' : Mentions("breach", b)' = {e} /\ events'[e].subject = Owner(b)
  <2>1. Mentions("breach", b)' = Mentions("breach", b)
    OBVIOUS
  <2>. QED  BY <2>1 DEF MentionedInv
<1>3. \A b : Owner(b)' = Owner(b)
  BY DEF Owner
<1>. QED  BY <1>1, <1>2, <1>3 DEF MentionedInv

LEMMA ReportOK ==
  ASSUME IInv, NEW subject \in Subjects, NEW kinds \in Reports, NEW about \in References,
         Report(subject, kinds, about)
  PROVE  IInv'
<1>. USE DEF IInv
<1>1. PICK n \in 1..Len(kinds) :
        /\ n < Len(kinds) => faults < MaxFaults
        /\ faults' = faults + (IF n < Len(kinds) THEN 1 ELSE 0)
        /\ events' = events \o [i \in 1..n |-> Event(subject, kinds[i], about, TRUE)]
  BY DEF Report
<1>2. Len(events) + Len(kinds) <= MaxEvents /\ UNCHANGED <<appeals, contracts, breaches>>
  BY DEF Report, Room
<1>. DEFINE more == [i \in 1..n |-> Event(subject, kinds[i], about, TRUE)]
<1>3. kinds \in Seq(Kinds) /\ Len(kinds) \in Nat /\ n \in Nat /\ n <= Len(kinds)
  BY KindsAre
<1>a. about \in About
  BY DEF References, Reference, Nothing, About, TablesOK
<1>4. \A i \in 1..n : Event(subject, kinds[i], about, TRUE) \in EventRow
  BY <1>3, <1>a DEF Event, EventRow
<1>5. more \in [1..n -> EventRow] /\ \A i \in 1..n : Grounds(more[i]) = Nothing /\ ~more[i].neutralised
  BY <1>4 DEF Event, Grounds
<1>6. /\ events' \in Seq(EventRow) /\ Len(events') = Len(events) + n /\ Len(events) \in Nat
      /\ DOMAIN events \subseteq DOMAIN events'
      /\ \A i \in DOMAIN events : events'[i] = events[i]
      /\ \A i \in DOMAIN events' \ DOMAIN events : Grounds(events'[i]) = Nothing /\ ~events'[i].neutralised
  <2>. HIDE DEF more
  <2>1. /\ events' \in Seq(EventRow) /\ Len(events') = Len(events) + n /\ Len(events) \in Nat
        /\ DOMAIN events \subseteq DOMAIN events'
        /\ \A i \in DOMAIN events : events'[i] = events[i]
        /\ \A i \in DOMAIN events' \ DOMAIN events :
             i - Len(events) \in 1..n /\ events'[i] = more[i - Len(events)]
    <3>1. events' = events \o more /\ events \in Seq(EventRow)
      BY <1>1 DEF TablesOK, more
    <3>2. more \in [1..n -> EventRow] /\ n \in Nat
      BY <1>3, <1>5
    <3>3. \A f \in [1..n -> EventRow] :
            /\ events \o f \in Seq(EventRow) /\ Len(events \o f) = Len(events) + n
            /\ Len(events) \in Nat /\ DOMAIN events \subseteq DOMAIN (events \o f)
            /\ \A i \in DOMAIN events : (events \o f)[i] = events[i]
            /\ \A i \in DOMAIN (events \o f) \ DOMAIN events :
                 i - Len(events) \in 1..n /\ (events \o f)[i] = f[i - Len(events)]
      BY <3>1, <3>2, JoinIs
    <3>. QED  BY <3>1, <3>2, <3>3, Zenon
  <2>2. ASSUME NEW i \in DOMAIN events' \ DOMAIN events
        PROVE  Grounds(events'[i]) = Nothing /\ ~events'[i].neutralised
    BY <1>5, <2>1
  <2>. QED  BY <2>1, <2>2
<1>7. faults \in Nat /\ faults <= faults' /\ faults' \in 0..MaxFaults
  BY <1>1, <1>3, BoundsAre DEF TablesOK
<1>8. TablesOK'
  <2>1. Len(events') <= MaxEvents
    BY <1>2, <1>3, <1>6, BoundsAre
  <2>. QED  BY <1>2, <1>6, <1>7, <2>1 DEF TablesOK
<1>9. \A w \in {"appeal", "breach"} : \A k : Mentions(w, k)' = Mentions(w, k)
  <2>1. Grown("nothing", 0)
    BY <1>6 DEF Grown
  <2>. QED  BY <2>1, MentionsStay
<1>10. KnownInv'
  BY <1>2, <1>6 DEF KnownInv, Nothing
<1>11. NeutralisedInv'
  <2>. SUFFICES ASSUME NEW j \in DOMAIN events'
                PROVE  events'[j].neutralised
                         <=> \E a \in DOMAIN appeals : appeals[a].event = j /\ appeals[a].status = "upheld"
    BY <1>2 DEF NeutralisedInv
  <2>1. CASE j \in DOMAIN events
    BY <1>6, <2>1 DEF NeutralisedInv
  <2>2. CASE j \notin DOMAIN events
    BY <1>6, <2>2 DEF TablesOK
  <2>. QED  BY <2>1, <2>2
<1>12. MentionedInv'
  BY <1>2, <1>6, <1>9, MentionedStays DEF TablesOK
<1>13. FaultsInv'
  <2>1. Unheld' = Unheld
    BY <1>2, <1>9 DEF Unheld
  <2>2. Cardinality(Unheld) \in Nat
    BY UnheldFinite, FS_CardinalityType
  <2>. QED  BY <1>7, <2>1, <2>2 DEF FaultsInv
<1>. QED  BY <1>8, <1>10, <1>11, <1>12, <1>13

\* The events stay: so do their mentions.
LEMMA EventsStay ==
  ASSUME UNCHANGED events
  PROVE  \A w, n : Mentions(w, n)' = Mentions(w, n)
BY DEF Mentions

LEMMA AppealOK ==
  ASSUME IInv, NEW n \in DOMAIN events, Appeal(n)
  PROVE  IInv'
<1>. USE DEF IInv
<1>. DEFINE row == [event |-> n, status |-> "open"]
<1>1. appeals' = Append(appeals, row) /\ UNCHANGED <<events, contracts, breaches, faults>>
  BY DEF Appeal
<1>2. row \in AppealRow /\ row.event = n /\ row.status = "open"
  BY DEF TablesOK, AppealRow
<1>. HIDE DEF row
<1>. DEFINE k == Len(appeals) + 1
<1>3. /\ appeals' \in Seq(AppealRow) /\ DOMAIN appeals' = DOMAIN appeals \cup {k} /\ k \notin DOMAIN appeals
      /\ appeals'[k] = row /\ \A a \in DOMAIN appeals : appeals'[a] = appeals[a]
  BY <1>1, <1>2, AppendIs DEF TablesOK
<1>. HIDE DEF k
<1>4. \A w, m : Mentions(w, m)' = Mentions(w, m)
  BY <1>1, EventsStay
<1>5. TablesOK'
  BY <1>1, <1>2, <1>3 DEF TablesOK
<1>6. KnownInv' /\ NeutralisedInv'
  BY <1>1, <1>2, <1>3 DEF KnownInv, NeutralisedInv
<1>7. MentionedInv'
  <2>1. Mentions("appeal", k) = {}
    BY <1>3, UnknownIs
  <2>. QED  BY <1>1, <1>2, <1>3, <1>4, <2>1 DEF MentionedInv, Owner
<1>8. FaultsInv'
  BY <1>1, <1>4 DEF FaultsInv, Unheld
<1>. QED  BY <1>5, <1>6, <1>7, <1>8

\* An appeal that was open is decided.
LEMMA DecidedIs ==
  ASSUME TablesOK, NEW a \in DOMAIN appeals, NEW status \in {"upheld", "rejected"}, Decided(a, status)
  PROVE  /\ appeals[a].status = "open" /\ UNCHANGED <<contracts, breaches, faults>>
         /\ appeals' \in Seq(AppealRow) /\ DOMAIN appeals' = DOMAIN appeals
         /\ appeals'[a].status = status /\ appeals'[a].event = appeals[a].event
         /\ \A b \in DOMAIN appeals \ {a} : appeals'[b] = appeals[b]
<1>. DEFINE row == [appeals[a] EXCEPT !.status = status]
<1>0. appeals[a] \in AppealRow
  BY DEF TablesOK
<1>1. row \in AppealRow /\ row.status = status /\ row.event = appeals[a].event
  BY <1>0 DEF AppealRow
<1>2. appeals' = [appeals EXCEPT ![a] = row]
  BY DEF Decided
<1>. HIDE DEF row
<1>3. /\ appeals' \in Seq(AppealRow) /\ DOMAIN appeals' = DOMAIN appeals
      /\ appeals'[a] = row /\ \A b \in DOMAIN appeals \ {a} : appeals'[b] = appeals[b]
  BY <1>1, <1>2, ExceptIs DEF TablesOK
<1>. QED  BY <1>1, <1>3 DEF Decided

LEMMA RejectOK ==
  ASSUME IInv, NEW a \in DOMAIN appeals, Reject(a)
  PROVE  IInv'
<1>. USE DEF IInv
<1>1. /\ appeals[a].status = "open" /\ UNCHANGED <<events, contracts, breaches, faults>>
      /\ appeals' \in Seq(AppealRow) /\ DOMAIN appeals' = DOMAIN appeals
      /\ appeals'[a].status = "rejected" /\ appeals'[a].event = appeals[a].event
      /\ \A b \in DOMAIN appeals \ {a} : appeals'[b] = appeals[b]
  BY DecidedIs DEF Reject
<1>2. \A w, m : Mentions(w, m)' = Mentions(w, m)
  BY <1>1, EventsStay
<1>3. TablesOK' /\ KnownInv'
  BY <1>1 DEF TablesOK, KnownInv
<1>4. NeutralisedInv'
  BY <1>1 DEF NeutralisedInv
<1>5. MentionedInv'
  BY <1>1, <1>2 DEF MentionedInv, Owner
<1>6. FaultsInv'
  BY <1>1, <1>2 DEF FaultsInv, Unheld
<1>. QED  BY <1>3, <1>4, <1>5, <1>6

LEMMA UpholdOK ==
  ASSUME IInv, NEW a \in DOMAIN appeals, Uphold(a)
  PROVE  IInv'
<1>. USE DEF IInv
<1>1. /\ appeals[a].status = "open" /\ UNCHANGED <<contracts, breaches, faults>>
      /\ appeals' \in Seq(AppealRow) /\ DOMAIN appeals' = DOMAIN appeals
      /\ appeals'[a].status = "upheld" /\ appeals'[a].event = appeals[a].event
      /\ \A b \in DOMAIN appeals \ {a} : appeals'[b] = appeals[b]
  BY DecidedIs DEF Uphold
<1>. DEFINE n == appeals[a].event
            new == Event(events[n].subject, "appeal_upheld", Reference("appeal", a), FALSE)
            kept == [events EXCEPT ![n] = Neutralised(events[n])]
            k == Len(events) + 1
<1>2. events' = Append(kept, new) /\ Len(events) + 1 <= MaxEvents
  BY DEF Uphold, Room
<1>3. n \in DOMAIN events /\ events[n] \in EventRow /\ a \in Nat
  BY DEF TablesOK
<1>4. Neutralised(events[n]) \in EventRow
  BY <1>3 DEF Neutralised, EventRow
<1>5. new \in EventRow
  BY <1>3, KindsAre DEF Event, EventRow, About, Reference
<1>6. /\ kept \in Seq(EventRow) /\ Len(kept) = Len(events) /\ DOMAIN kept = DOMAIN events
      /\ kept[n] = Neutralised(events[n]) /\ \A j \in DOMAIN events \ {n} : kept[j] = events[j]
  BY <1>3, <1>4, ExceptIs DEF TablesOK
<1>f. /\ Grounds(new) = Reference("appeal", a) /\ ~new.neutralised /\ new.subject = events[n].subject
      /\ Grounds(Neutralised(events[n])) = Grounds(events[n])
      /\ Neutralised(events[n]).subject = events[n].subject /\ Neutralised(events[n]).neutralised
  BY DEF Event, Neutralised, Grounds
<1>. HIDE DEF new, kept
<1>7. /\ events' \in Seq(EventRow) /\ Len(events') = k /\ Len(events) \in Nat
      /\ DOMAIN events' = DOMAIN events \cup {k} /\ k \notin DOMAIN events
      /\ events'[k] = new /\ \A j \in DOMAIN events : events'[j] = kept[j]
  BY <1>2, <1>5, <1>6, AppendIs
<1>. HIDE DEF k
<1>8. /\ \A j \in DOMAIN events : /\ Grounds(events'[j]) = Grounds(events[j])
                                  /\ events'[j].subject = events[j].subject
      /\ events'[n].neutralised
      /\ \A j \in DOMAIN events \ {n} : events'[j].neutralised = events[j].neutralised
      /\ Grounds(events'[k]) = Reference("appeal", a) /\ ~events'[k].neutralised
      /\ events'[k].subject = events[n].subject
  BY <1>3, <1>6, <1>7, <1>f
<1>9. TablesOK'
  <2>1. Len(events') <= MaxEvents
    BY <1>2, <1>7 DEF k
  <2>2. \A b \in DOMAIN appeals' : appeals'[b].event \in DOMAIN events'
    BY <1>1, <1>7 DEF TablesOK
  <2>. QED  BY <1>1, <1>7, <2>1, <2>2 DEF TablesOK
<1>10. KnownInv'
  <2>1. Grounds(events'[k]).what = "appeal" /\ Grounds(events'[k]).number = a
    BY <1>8 DEF Reference
  <2>. QED  BY <1>1, <1>7, <1>8, <2>1 DEF KnownInv
<1>11. NeutralisedInv'
  <2>1. ASSUME NEW j \in DOMAIN events, j # n
        PROVE  events'[j].neutralised <=> \E b \in DOMAIN appeals' : /\ appeals'[b].event = j
                                                                     /\ appeals'[b].status = "upheld"
    BY <1>1, <1>8, <2>1 DEF NeutralisedInv
  <2>2. events'[n].neutralised /\ appeals'[a].event = n /\ appeals'[a].status = "upheld" /\ a \in DOMAIN appeals'
    BY <1>1, <1>8
  <2>3. \A b \in DOMAIN appeals' : appeals'[b].event # k
    BY <1>1, <1>7 DEF TablesOK
  <2>4. ~events'[k].neutralised /\ DOMAIN events' = DOMAIN events \cup {k}
    BY <1>7, <1>8
  <2>. QED  BY <2>1, <2>2, <2>3, <2>4 DEF NeutralisedInv
<1>12. Mentions("appeal", a)' = {k}
  <2>1. Mentions("appeal", a) = {}
    BY <1>1 DEF MentionedInv
  <2>. QED  BY <1>7, <1>8, <2>1, MentionsOne
<1>13. \A w \in {"appeal", "breach"} : \A m : <<w, m>> # <<"appeal", a>> => Mentions(w, m)' = Mentions(w, m)
  <2>1. Grown("appeal", a)
    BY <1>7, <1>8 DEF Grown
  <2>. QED  BY <2>1, MentionsStay
<1>14. MentionedInv'
  <2>1. ASSUME NEW b \in DOMAIN appeals'
        PROVE  IF appeals'[b].status = "upheld"
               THEN \E e \in DOMAIN events' : /\ Mentions("appeal", b)' = {e}
                                              /\ events'[e].subject = events'[appeals'[b].event].subject
               ELSE Mentions("appeal", b)' = {}
    <3>1. CASE b = a
      BY <1>1, <1>3, <1>7, <1>8, <1>12, <3>1
    <3>2. CASE b # a
      <4>1. Mentions("appeal", b)' = Mentions("appeal", b)
        BY <1>13, <3>2
      <4>2. appeals'[b] = appeals[b] /\ b \in DOMAIN appeals /\ appeals[b].event \in DOMAIN events
        BY <1>1, <3>2 DEF TablesOK
      <4>. QED  BY <1>7, <1>8, <4>1, <4>2 DEF MentionedInv
    <3>. QED  BY <3>1, <3>2
  <2>2. \A b \in DOMAIN breaches : Mentions("breach", b)' = Mentions("breach", b)
    BY <1>13
  <2>3. \A b \in DOMAIN breaches' :
          \/ Mentions("breach", b)' = {}
          \/ \E e \in DOMAIN events' : Mentions("breach", b)' = {e} /\ events'[e].subject = Owner(b)'
    <3>. SUFFICES ASSUME NEW b \in DOMAIN breaches
                  PROVE  \/ Mentions("breach", b)' = {}
                         \/ \E e \in DOMAIN events' : /\ Mentions("breach", b)' = {e}
                                                      /\ events'[e].subject = Owner(b)
      BY <1>1 DEF Owner
    <3>1. Mentions("breach", b)' = Mentions("breach", b)
      BY <2>2
    <3>. QED  BY <1>7, <1>8, <3>1 DEF MentionedInv
  <2>. QED  BY <2>1, <2>3 DEF MentionedInv
<1>15. FaultsInv'
  <2>1. \A b \in DOMAIN breaches : Mentions("breach", b)' = Mentions("breach", b)
    BY <1>13
  <2>2. Unheld' = Unheld
    BY <1>1, <2>1 DEF Unheld
  <2>. QED  BY <1>1, <2>2 DEF FaultsInv
<1>. QED  BY <1>9, <1>10, <1>11, <1>14, <1>15

\* A contract is made or changes its status.
LEMMA ContractOK ==
  ASSUME IInv, NEW c \in Pairs, Establish(c) \/ (\E s \in {"active", "suspended"} : SetStatus(c, s)),
         c \in DOMAIN contracts \/ Establish(c)
  PROVE  IInv'
<1>. USE DEF IInv
<1>1. /\ UNCHANGED <<events, appeals, breaches, faults>>
      /\ DOMAIN contracts \subseteq DOMAIN contracts' /\ DOMAIN contracts' \subseteq Pairs
      /\ \A d \in DOMAIN contracts' : contracts'[d] \in {"active", "suspended"}
  BY DEF Establish, SetStatus, TablesOK
<1>2. \A w, m : Mentions(w, m)' = Mentions(w, m)
  BY <1>1, EventsStay
<1>3. TablesOK'
  BY <1>1 DEF TablesOK
<1>4. KnownInv' /\ NeutralisedInv'
  BY <1>1 DEF KnownInv, NeutralisedInv
<1>5. MentionedInv'
  BY <1>1, <1>2, MentionedStays
<1>6. FaultsInv'
  BY <1>1, <1>2 DEF FaultsInv, Unheld
<1>. QED  BY <1>3, <1>4, <1>5, <1>6

LEMMA RemediateOK ==
  ASSUME IInv, NEW b \in DOMAIN breaches, Remediate(b)
  PROVE  IInv'
<1>. USE DEF IInv
<1>. DEFINE row == [breaches[b] EXCEPT !.remediated = TRUE]
<1>0. breaches[b] \in BreachRow
  BY DEF TablesOK
<1>1. row \in BreachRow /\ row.contract = breaches[b].contract /\ row.by = breaches[b].by
  BY <1>0 DEF BreachRow
<1>2. breaches' = [breaches EXCEPT ![b] = row] /\ UNCHANGED <<events, appeals, contracts, faults>>
  BY DEF Remediate
<1>. HIDE DEF row
<1>3. /\ breaches' \in Seq(BreachRow) /\ DOMAIN breaches' = DOMAIN breaches
      /\ \A d \in DOMAIN breaches : /\ breaches'[d].contract = breaches[d].contract
                                    /\ breaches'[d].by = breaches[d].by
  BY <1>1, <1>2, ExceptIs DEF TablesOK
<1>4. \A w, m : Mentions(w, m)' = Mentions(w, m)
  BY <1>2, EventsStay
<1>5. TablesOK' /\ KnownInv' /\ NeutralisedInv'
  BY <1>2, <1>3 DEF TablesOK, KnownInv, NeutralisedInv
<1>6. MentionedInv'
  BY <1>2, <1>3, <1>4 DEF MentionedInv, Owner
<1>7. FaultsInv'
  BY <1>2, <1>3, <1>4 DEF FaultsInv, Unheld
<1>. QED  BY <1>5, <1>6, <1>7

\* The row of a breach, and what is charged for it.
LEMMA ChargeIs ==
  ASSUME TablesOK, NEW c \in DOMAIN contracts, NEW o \in Obligations, NEW m \in Nat
  PROVE  LET row == [contract |-> c, by |-> o.owedBy, remediated |-> FALSE]
             e == Charge(c, o, m)
         IN /\ row \in BreachRow /\ e \in EventRow
            /\ Grounds(e) = Reference("breach", m) /\ ~e.neutralised
            /\ e.subject = row.contract[IF row.by = "agent" THEN 1 ELSE 2]
<1>1. c \in Pairs /\ c[1] \in Agents /\ c[2] \in Operators
  BY SubjectsAssumption DEF TablesOK
<1>2. o.owedBy \in {"agent", "operator"}
  BY DEF Obligations
<1>. DEFINE who == IF o.owedBy = "agent" THEN c[1] ELSE c[2]
            kind == IF o.severity = "major" THEN "policy_violation" ELSE "execution_failure"
<1>3. who \in Subjects /\ who = c[IF o.owedBy = "agent" THEN 1 ELSE 2]
  BY <1>1 DEF Subjects
<1>4. kind \in Kinds
  BY KindsAre
<1>5. Charge(c, o, m) = Event(who, kind, Reference("breach", m), FALSE)
  BY DEF Charge
<1>6. Reference("breach", m) \in About
  BY DEF Reference, About
<1>. HIDE DEF who, kind
<1>7. Event(who, kind, Reference("breach", m), FALSE) \in EventRow
  BY <1>3, <1>4, <1>6 DEF Event, EventRow
<1>. QED  BY <1>1, <1>2, <1>3, <1>5, <1>7 DEF Event, BreachRow, Grounds

LEMMA RecordBreachOK ==
  ASSUME IInv, NEW c \in DOMAIN contracts, NEW o \in Obligations, RecordBreach(c, o)
  PROVE  IInv'
<1>. USE DEF IInv
<1>0. PICK m \in Nat : m = Len(breaches) + 1
  BY DEF TablesOK
<1>. DEFINE row == [contract |-> c, by |-> o.owedBy, remediated |-> FALSE]
            new == Charge(c, o, m)
<1>1. /\ Len(events) + 1 <= MaxEvents /\ breaches' = Append(breaches, row)
      /\ UNCHANGED <<appeals, contracts>>
      /\ \/ events' = Append(events, new) /\ faults' = faults
         \/ faults < MaxFaults /\ faults' = faults + 1 /\ events' = events
  BY <1>0 DEF RecordBreach, Room
<1>3. /\ row \in BreachRow /\ new \in EventRow
      /\ Grounds(new) = Reference("breach", m) /\ ~new.neutralised
      /\ new.subject = row.contract[IF row.by = "agent" THEN 1 ELSE 2] /\ row.contract = c
  BY ChargeIs
<1>. HIDE DEF row, new
<1>4. /\ breaches' \in Seq(BreachRow) /\ DOMAIN breaches' = DOMAIN breaches \cup {m} /\ m \notin DOMAIN breaches
      /\ breaches'[m] = row /\ \A b \in DOMAIN breaches : breaches'[b] = breaches[b]
  BY <1>0, <1>1, <1>3, AppendIs DEF TablesOK
<1>u. Mentions("breach", m) = {}
  BY <1>4, UnknownIs
<1>f. /\ faults \in Nat /\ faults <= MaxFaults /\ MaxFaults \in Nat
      /\ IsFiniteSet(Unheld) /\ Cardinality(Unheld) \in Nat
  BY BoundsAre, UnheldFinite, FS_CardinalityType DEF TablesOK
<1>5. CASE events' = Append(events, new) /\ faults' = faults
  <2>. DEFINE k == Len(events) + 1
  <2>1. /\ events' \in Seq(EventRow) /\ Len(events') = k
        /\ DOMAIN events' = DOMAIN events \cup {k} /\ k \notin DOMAIN events
        /\ events'[k] = new /\ \A j \in DOMAIN events : events'[j] = events[j]
    BY <1>3, <1>5, AppendIs DEF TablesOK
  <2>2. Len(events') <= MaxEvents
    BY <1>1, <2>1
  <2>. HIDE DEF k
  <2>3. TablesOK'
    BY <1>1, <1>3, <1>4, <1>5, <2>1, <2>2 DEF TablesOK
  <2>4. KnownInv'
    <3>1. Grounds(events'[k]).what = "breach" /\ Grounds(events'[k]).number = m
      BY <1>3, <2>1 DEF Reference
    <3>. QED  BY <1>1, <1>4, <2>1, <3>1 DEF KnownInv
  <2>5. NeutralisedInv'
    <3>1. \A a \in DOMAIN appeals : appeals[a].event # k
      BY <2>1 DEF TablesOK
    <3>2. \A j \in DOMAIN events : events'[j].neutralised <=> events[j].neutralised
      BY <2>1
    <3>. QED  BY <1>1, <1>3, <2>1, <3>1, <3>2 DEF NeutralisedInv
  <2>6. Mentions("breach", m)' = {k}
    BY <1>3, <1>u, <2>1, MentionsOne
  <2>7. \A w \in {"appeal", "breach"} : \A n : <<w, n>> # <<"breach", m>> => Mentions(w, n)' = Mentions(w, n)
    <3>1. Grown("breach", m)
      BY <1>3, <2>1 DEF Grown
    <3>. QED  BY <3>1, MentionsStay
  <2>8. MentionedInv'
    <3>1. ASSUME NEW a \in DOMAIN appeals'
          PROVE  IF appeals'[a].status = "upheld"
                 THEN \E e \in DOMAIN events' : /\ Mentions("appeal", a)' = {e}
                                                /\ events'[e].subject = events'[appeals'[a].event].subject
                 ELSE Mentions("appeal", a)' = {}
      <4>1. Mentions("appeal", a)' = Mentions("appeal", a)
        BY <2>7
      <4>2. a \in DOMAIN appeals /\ appeals'[a] = appeals[a] /\ appeals[a].event \in DOMAIN events
        BY <1>1 DEF TablesOK
      <4>. QED  BY <2>1, <4>1, <4>2 DEF MentionedInv
    <3>2. ASSUME NEW b \in DOMAIN breaches'
          PROVE  \/ Mentions("breach", b)' = {}
                 \/ \E e \in DOMAIN events' : Mentions("breach", b)' = {e} /\ events'[e].subject = Owner(b)'
      <4>1. CASE b = m
        BY <1>3, <1>4, <2>1, <2>6, <4>1 DEF Owner
      <4>2. CASE b # m
        <5>1. Mentions("breach", b)' = Mentions("breach", b)
          BY <2>7, <4>2
        <5>2. b \in DOMAIN breaches /\ Owner(b)' = Owner(b)
          BY <1>4, <4>2 DEF Owner
        <5>. QED  BY <2>1, <5>1, <5>2 DEF MentionedInv
      <4>. QED  BY <4>1, <4>2
    <3>. QED  BY <3>1, <3>2 DEF MentionedInv
  <2>9. FaultsInv'
    <3>1. \A b \in DOMAIN breaches : Mentions("breach", b)' = Mentions("breach", b)
      BY <1>4, <2>7
    <3>2. Unheld' = Unheld
      BY <1>4, <2>6, <3>1 DEF Unheld
    <3>. QED  BY <1>5, <3>2 DEF FaultsInv
  <2>. QED  BY <2>3, <2>4, <2>5, <2>8, <2>9
<1>6. CASE faults < MaxFaults /\ faults' = faults + 1 /\ events' = events
  <2>1. \A w, n : Mentions(w, n)' = Mentions(w, n)
    BY <1>6, EventsStay
  <2>2. faults' \in 0..MaxFaults
    BY <1>6, <1>f
  <2>3. TablesOK'
    BY <1>1, <1>3, <1>4, <1>6, <2>2 DEF TablesOK
  <2>4. KnownInv' /\ NeutralisedInv'
    BY <1>1, <1>4, <1>6 DEF KnownInv, NeutralisedInv
  <2>5. MentionedInv'
    <3>1. \A b \in DOMAIN breaches : Owner(b)' = Owner(b)
      BY <1>4 DEF Owner
    <3>. QED  BY <1>1, <1>4, <1>6, <1>u, <2>1, <3>1 DEF MentionedInv
  <2>6. FaultsInv'
    <3>1. Unheld' = Unheld \cup {m} /\ m \notin Unheld
      BY <1>4, <1>u, <2>1 DEF Unheld
    <3>2. Cardinality(Unheld') = Cardinality(Unheld) + 1
      BY <1>f, <3>1, FS_AddElement
    <3>. QED  BY <1>6, <1>f, <3>2 DEF FaultsInv
  <2>. QED  BY <2>3, <2>4, <2>5, <2>6
<1>. QED  BY <1>1, <1>5, <1>6

LEMMA RecordStayOK == IInv /\ UNCHANGED record => IInv'
<1>. SUFFICES ASSUME IInv, UNCHANGED record PROVE IInv'
  OBVIOUS
<1>1. UNCHANGED <<events, appeals, contracts, breaches, faults>>
  BY DEF record
<1>2. \A w, m : Mentions(w, m)' = Mentions(w, m)
  BY <1>1, EventsStay
<1>3. TablesOK' /\ KnownInv' /\ NeutralisedInv'
  BY <1>1 DEF IInv, TablesOK, KnownInv, NeutralisedInv
<1>4. MentionedInv'
  BY <1>1, <1>2, MentionedStays DEF IInv
<1>5. FaultsInv'
  BY <1>1, <1>2 DEF IInv, FaultsInv, Unheld
<1>. QED  BY <1>3, <1>4, <1>5 DEF IInv

LEMMA StepOK == IInv /\ [Next]_vars => IInv'
<1>. SUFFICES ASSUME IInv, [Next]_vars PROVE IInv'
  OBVIOUS
<1>1. ASSUME NEW s \in Subjects, NEW r \in Reports, NEW about \in References, Report(s, r, about)
      PROVE  IInv'
  BY <1>1, ReportOK
<1>2. ASSUME NEW n \in DOMAIN events, Appeal(n) PROVE IInv'
  BY <1>2, AppealOK
<1>3. ASSUME NEW a \in DOMAIN appeals, Uphold(a) \/ Reject(a) PROVE IInv'
  BY <1>3, UpholdOK, RejectOK
<1>4. ASSUME NEW c \in Pairs, Establish(c) PROVE IInv'
  BY <1>4, ContractOK
<1>5. ASSUME NEW c \in DOMAIN contracts, NEW s \in {"active", "suspended"}, SetStatus(c, s) PROVE IInv'
  <2>1. c \in Pairs
    BY DEF IInv, TablesOK
  <2>. QED  BY <1>5, <2>1, ContractOK
<1>6. ASSUME NEW c \in DOMAIN contracts, NEW o \in Obligations, RecordBreach(c, o) PROVE IInv'
  BY <1>6, RecordBreachOK
<1>7. ASSUME NEW b \in DOMAIN breaches, Remediate(b) PROVE IInv'
  BY <1>7, RemediateOK
<1>8. CASE UNCHANGED record
  BY <1>8, RecordStayOK
<1>9. CASE RecordNext
  BY <1>9, <1>1, <1>2, <1>3, <1>4, <1>5, <1>6, <1>7 DEF RecordNext
<1>. QED  BY <1>8, <1>9 DEF Next, Open, Resolve, Decide, vars

-----------------------------------------------------------------------------
(* Sums: what FoldSet's recursion makes of a finite set, by the least size   *)
(* at which it would fail.                                                   *)

\* A non-empty set of naturals has a least element.
LEMMA NatLeast ==
  ASSUME NEW S, S \subseteq Nat, S # {}
  PROVE  \E m \in S : \A s \in S : m <= s
<1>1. IsWellFoundedOn(OpToRel(<, Nat), Nat)
  BY NatLessThanWellFounded
<1>2. PICK m \in S : \A s \in S : ~ (<<s, m>> \in OpToRel(<, Nat))
  BY <1>1, WFMin, Zenon
<1>3. \A s \in Nat, t \in Nat : s < t \/ t <= s
  OBVIOUS
<1>4. ASSUME NEW s \in S, s < m PROVE <<s, m>> \in OpToRel(<, Nat)
  <2>1. s \in Nat /\ m \in Nat
    BY Zenon
  <2>2. <<s, m>> \in Nat \X Nat /\ <<s, m>>[1] = s /\ <<s, m>>[2] = m
    BY <2>1
  <2>. QED  BY <2>2, <1>4, Zenon DEF OpToRel
<1>. QED  BY <1>2, <1>3, <1>4, Zenon

\* The element FoldSet takes next.
Pick(s) == CHOOSE x \in s : TRUE

\* f sums w over the subsets of S the way FoldSet does.
IsSum(f, S, w) ==
  f = [s \in SUBSET S |-> IF s = {} THEN 0 ELSE f[s \ {Pick(s)}] + w[Pick(s)]]

\* What is left has one element less.
LEMMA PickIs ==
  ASSUME NEW S, IsFiniteSet(S), NEW s \in SUBSET S, s # {}
  PROVE  /\ Pick(s) \in s /\ IsFiniteSet(s)
         /\ Cardinality(s) \in Nat \ {0}
         /\ Cardinality(s \ {Pick(s)}) = Cardinality(s) - 1
<1>1. Pick(s) \in s
  BY Zenon DEF Pick
<1>2. IsFiniteSet(s)
  BY FS_Subset
<1>3. Cardinality(s) \in Nat /\ Cardinality(s) # 0
  BY <1>2, FS_CardinalityType, FS_EmptySet
<1>. QED  BY <1>1, <1>2, <1>3, FS_RemoveElement

\* There is such a function, for every finite set.
LEMMA SumExists ==
  ASSUME NEW S, IsFiniteSet(S), NEW w \in [S -> Int]
  PROVE  \E f : IsSum(f, S, w)
<1> DEFINE Small(n) == {s \in SUBSET S : Cardinality(s) <= n}
           Total(f, s) == IF s = {} THEN 0 ELSE f[s \ {Pick(s)}] + w[Pick(s)]
           Sums(n) == \E f \in [Small(n) -> Int] : \A s \in Small(n) : f[s] = Total(f, s)
           Bad == {n \in Nat : ~Sums(n)}
<1>1. \A s \in SUBSET S : IsFiniteSet(s) /\ Cardinality(s) \in Nat
  BY FS_Subset, FS_CardinalityType
<1>2. \A s \in SUBSET S : Cardinality(s) = 0 => s = {}
  BY <1>1, FS_EmptySet
<1>3. Sums(0)
  <2>1. \A s \in Small(0) : s = {}
    BY <1>1, <1>2
  <2>2. [s \in Small(0) |-> 0] \in [Small(0) -> Int]
    OBVIOUS
  <2>. QED  BY <2>1, <2>2
<1>4. ASSUME NEW n \in Nat, Sums(n) PROVE Sums(n + 1)
  <2>1. PICK f \in [Small(n) -> Int] : \A s \in Small(n) : f[s] = Total(f, s)
    BY <1>4
  <2> DEFINE g == [s \in Small(n + 1) |-> Total(f, s)]
  <2>2. ASSUME NEW s \in Small(n + 1), s # {}
        PROVE  s \ {Pick(s)} \in Small(n) /\ Pick(s) \in S
    <3>1. Pick(s) \in s /\ Cardinality(s) \in Nat /\ Cardinality(s \ {Pick(s)}) = Cardinality(s) - 1
      BY <2>2, PickIs
    <3>2. Cardinality(s) <= n + 1 /\ s \subseteq S
      OBVIOUS
    <3>. QED  BY <3>1, <3>2
  <2>3. \A s \in Small(n) : s \in Small(n + 1)
    BY <1>1
  <2>4. \A s \in Small(n + 1) : Total(f, s) \in Int
    BY <2>2
  <2>5. \A s \in Small(n) : g[s] = f[s]
    BY <2>1, <2>3
  <2>6. \A s \in Small(n + 1) : g[s] = Total(g, s)
    BY <2>2, <2>5
  <2>7. g \in [Small(n + 1) -> Int]
    BY <2>4
  <2>. QED  BY <2>6, <2>7
<1>5. Bad = {}
  <2>. SUFFICES ASSUME Bad # {} PROVE FALSE
    OBVIOUS
  <2>1. PICK n \in Bad : \A m \in Bad : n <= m
    <3>1. Bad \subseteq Nat
      BY Zenon
    <3>. QED  BY <3>1, NatLeast, Zenon
  <2>2. n \in Nat /\ ~Sums(n)
    BY Zenon
  <2>. HIDE DEF Sums
  <2>3. n # 0
    BY <1>3, <2>2, Zenon
  <2>4. n - 1 \in Nat /\ ~(n <= n - 1) /\ (n - 1) + 1 = n
    BY <2>2, <2>3
  <2>5. Sums(n - 1)
    BY <2>1, <2>4, Zenon
  <2>. QED  BY <1>4, <2>2, <2>4, <2>5, Zenon
<1>6. Cardinality(S) \in Nat /\ Small(Cardinality(S)) = SUBSET S
  BY <1>1, FS_Subset, FS_CardinalityType
<1>7. Sums(Cardinality(S))
  BY <1>5, <1>6, Zenon
<1>8. PICK f \in [SUBSET S -> Int] : \A s \in SUBSET S : f[s] = Total(f, s)
  BY <1>6, <1>7
<1>9. f = [s \in SUBSET S |-> Total(f, s)]
  BY <1>8
<1>. QED  BY <1>9, Zenon DEF IsSum

\* A sum of integers is an integer, within as many bounds as there are.
LEMMA SumIs ==
  ASSUME NEW S, IsFiniteSet(S), NEW w \in [S -> Int], NEW f, IsSum(f, S, w)
  PROVE  \A s \in SUBSET S : f[s] \in Int
<1> DEFINE Bad == {Cardinality(s) : s \in {t \in SUBSET S : f[t] \notin Int}}
<1>. SUFFICES ASSUME Bad # {} PROVE FALSE
  BY Zenon
<1>1. Bad \subseteq Nat
  BY FS_Subset, FS_CardinalityType
<1>2. PICK n \in Bad : \A m \in Bad : n <= m
  BY <1>1, NatLeast, Zenon
<1>3. PICK s \in SUBSET S : f[s] \notin Int /\ n = Cardinality(s)
  BY Zenon
<1>4. f[s] = IF s = {} THEN 0 ELSE f[s \ {Pick(s)}] + w[Pick(s)]
  BY Zenon DEF IsSum
<1>5. s # {}
  BY <1>3, <1>4
<1>6. /\ Pick(s) \in S /\ s \ {Pick(s)} \in SUBSET S
      /\ Cardinality(s) \in Nat /\ Cardinality(s \ {Pick(s)}) = Cardinality(s) - 1
  BY <1>5, PickIs
<1>7. f[s \ {Pick(s)}] \in Int
  <2>. SUFFICES ASSUME f[s \ {Pick(s)}] \notin Int PROVE FALSE
    OBVIOUS
  <2>1. Cardinality(s \ {Pick(s)}) \in Bad
    BY <1>6, Zenon
  <2>. QED  BY <1>2, <1>3, <1>6, <2>1
<1>. QED  BY <1>3, <1>4, <1>5, <1>6, <1>7

\* What each element adds is between -10 and 4, and so is the sum, as often as
\* there are elements.
LEMMA SumBounded ==
  ASSUME NEW S, IsFiniteSet(S), NEW w \in [S -> -10..4], NEW f, IsSum(f, S, w)
  PROVE  \A s \in SUBSET S : f[s] \in (-10 * Cardinality(s))..(4 * Cardinality(s))
<1> DEFINE In(s) == f[s] \in (-10 * Cardinality(s))..(4 * Cardinality(s))
           Bad == {Cardinality(s) : s \in {t \in SUBSET S : ~In(t)}}
<1>. SUFFICES ASSUME Bad # {} PROVE FALSE
  BY Zenon
<1>1. Bad \subseteq Nat
  BY FS_Subset, FS_CardinalityType
<1>2. PICK n \in Bad : \A m \in Bad : n <= m
  BY <1>1, NatLeast, Zenon
<1>3. PICK s \in SUBSET S : ~In(s) /\ n = Cardinality(s)
  BY Zenon
<1>4. f[s] = IF s = {} THEN 0 ELSE f[s \ {Pick(s)}] + w[Pick(s)]
  BY Zenon DEF IsSum
<1>5. s # {}
  <2>1. Cardinality({}) = 0
    BY FS_EmptySet
  <2>. QED  BY <1>3, <1>4, <2>1
<1>6. /\ Pick(s) \in S /\ s \ {Pick(s)} \in SUBSET S
      /\ Cardinality(s) \in Nat /\ Cardinality(s \ {Pick(s)}) = Cardinality(s) - 1
  BY <1>5, PickIs
<1>7. In(s \ {Pick(s)})
  <2>. SUFFICES ASSUME ~In(s \ {Pick(s)}) PROVE FALSE
    OBVIOUS
  <2>1. Cardinality(s \ {Pick(s)}) \in Bad
    BY <1>6, Zenon
  <2>2. Cardinality(s) <= Cardinality(s \ {Pick(s)})
    BY <1>2, <1>3, <2>1, Zenon
  <2>. QED  BY <1>6, <2>2
<1>8. w[Pick(s)] \in -10..4
  BY <1>6
<1>. QED  BY <1>3, <1>4, <1>5, <1>6, <1>7, <1>8

-----------------------------------------------------------------------------
(* Scores and weights.                                                     *)

\* What the kinds of events weigh.
LEMMA WeightsAre == \A k \in Kinds : WeightOf(k) \in -10..4
BY DEF Kinds, EVENT_WEIGHTS, WeightOf, Unlisted

\* The net weight of a subject's events is one that Level is defined for, so
\* that a score is a percentage, however many events there are.
LEMMA ScoreIs ==
  ASSUME TablesOK, NEW subject
  PROVE  Net(subject) \in Nets /\ Score(subject) \in 0..100
<1> DEFINE C == Counted(subject)
           w == [n \in C |-> WeightOf(events[n].kind)]
           Folds(f) == f = [s \in SUBSET C |->
                              IF s = {} THEN 0
                              ELSE f[s \ {Pick(s)}] + WeightOf(events[Pick(s)].kind)]
           net == CHOOSE f : Folds(f)
<1>1. /\ IsFiniteSet(C) /\ Cardinality(C) \in Nat /\ Cardinality(C) <= MaxEvents
      /\ MaxEvents \in Nat /\ C \subseteq DOMAIN events
  <2>1. /\ Len(events) \in Nat /\ Len(events) <= MaxEvents /\ DOMAIN events = 1..Len(events)
        /\ C \subseteq DOMAIN events
    BY DEF TablesOK, Counted
  <2>2. IsFiniteSet(1..Len(events)) /\ Cardinality(1..Len(events)) = Len(events)
    BY <2>1, FS_Interval
  <2>3. /\ IsFiniteSet(C) /\ Cardinality(C) \in Nat
        /\ Cardinality(C) <= Cardinality(1..Len(events))
    BY <2>1, <2>2, FS_Subset, FS_CardinalityType
  <2>. QED  BY <2>1, <2>2, <2>3, BoundsAre
<1>2. \A n \in C : WeightOf(events[n].kind) \in -10..4
  <2>1. \A n \in DOMAIN events : events[n] \in EventRow
    BY DEF TablesOK
  <2>2. \A row \in EventRow : row.kind \in Kinds
    BY DEF EventRow
  <2>. QED  BY <1>1, <2>1, <2>2, WeightsAre, Zenon
<1>3. Net(subject) = net[C]
  BY Zenon DEF Net, FoldSet, MapThenFoldSet, Pick
<1>. HIDE DEF C
<1>4. w \in [C -> -10..4] /\ w \in [C -> Int]
  BY <1>2
<1>5. \A s \in SUBSET C : s # {} => w[Pick(s)] = WeightOf(events[Pick(s)].kind)
  BY <1>1, PickIs
<1>6. \A f : IsSum(f, C, w) <=> Folds(f)
  BY <1>5, Zenon DEF IsSum
<1>7. \E f : Folds(f)
  BY <1>1, <1>4, <1>6, SumExists, Zenon
<1>8. IsSum(net, C, w)
  BY <1>6, <1>7, Zenon
<1>9. net[C] \in (-10 * Cardinality(C))..(4 * Cardinality(C))
  BY <1>1, <1>4, <1>8, SumBounded, Zenon
<1>10. Net(subject) \in Nets
  BY <1>1, <1>3, <1>9 DEF Nets
<1>. QED  BY <1>10, ScoreAssumption DEF Score

\* The trust arbitrate() is given of each participant is a percentage.
LEMMA TrustedIs == TablesOK => Trusted \in [Agents -> 0..100]
BY ScoreIs DEF Trusted

\* A weight is a number, and so is what any participants weigh together.
LEMMA WeightIs ==
  ASSUME NEW ps \in Panels, NEW i \in DOMAIN ps, NEW trust \in [Agents -> 0..100]
  PROVE  Weight(ps, i, trust) \in Int
<1>1. \A n \in Int : Rounded(n, 500) \in Int /\ Rounded(n, 5) \in Int
  BY DEF Rounded
<1>2. ps[i].agent \in Agents /\ ps[i].confidence \in Int /\ trust[ps[i].agent] \in Int
  <2>1. ps[i].agent \in Agents /\ ps[i].confidence \in 0..100
    BY PanelsAssumption, Zenon
  <2>. QED  BY <2>1
<1>3. \A a, b \in Int : a * b \in Int
  OBVIOUS
<1>4. Influence \in Int
  BY ArbitrationAssumption
<1>5. (ps[i].confidence - 50) * Influence \in Int
  BY <1>2, <1>3, <1>4
<1>6. (50 + trust[ps[i].agent]) * (5000 + (ps[i].confidence - 50) * Influence) \in Int
  BY <1>2, <1>3, <1>5
<1>7. RawWeight(ps[i], trust) \in Int
  BY <1>1, <1>6 DEF RawWeight
<1>. QED  BY <1>1, <1>7, Zenon DEF Weight

LEMMA TotalIs ==
  ASSUME NEW ps \in Panels, NEW trust \in [Agents -> 0..100], NEW S \in SUBSET DOMAIN ps
  PROVE  Sum(ps, S, trust) \in Int
<1> DEFINE w == [i \in S |-> Weight(ps, i, trust)]
           Folds(f) == f = [s \in SUBSET S |->
                              IF s = {} THEN 0
                              ELSE f[s \ {Pick(s)}] + Weight(ps, Pick(s), trust)]
           total == CHOOSE f : Folds(f)
<1>1. IsFiniteSet(S)
  <2>1. Len(ps) \in Nat /\ DOMAIN ps = 1..Len(ps)
    BY PanelsAssumption
  <2>2. IsFiniteSet(1..Len(ps))
    BY <2>1, FS_Interval
  <2>. QED  BY <2>1, <2>2, FS_Subset, Zenon
<1>2. Sum(ps, S, trust) = total[S]
  BY Zenon DEF Sum, FoldSet, MapThenFoldSet, Pick
<1>3. w \in [S -> Int]
  BY WeightIs
<1>4. \A s \in SUBSET S : s # {} => w[Pick(s)] = Weight(ps, Pick(s), trust)
  BY <1>1, PickIs
<1>5. \A f : IsSum(f, S, w) <=> Folds(f)
  BY <1>4, Zenon DEF IsSum
<1>6. \E f : Folds(f)
  BY <1>1, <1>3, <1>5, SumExists, Zenon
<1>7. IsSum(total, S, w)
  BY <1>5, <1>6, Zenon
<1>8. \A s \in SUBSET S : total[s] \in Int
  BY <1>1, <1>3, <1>7, SumIs, Zenon
<1>9. S \in SUBSET S
  OBVIOUS
<1>. QED  BY <1>2, <1>8, <1>9, Zenon

-----------------------------------------------------------------------------
(* Disputes.                                                               *)

\* What two families say is said by somebody outside any one of them.
LEMMA TwoFamilies ==
  ASSUME MinIndependent >= 2, NEW ps, NEW answer, ~(Support(ps, answer) < MinIndependent)
  PROVE  Corroborated(ps, answer)
<1>. SUFFICES ASSUME NEW f, \A i \in For(ps, answer) : ps[i].family = f PROVE FALSE
  BY DEF Corroborated
<1>1. Families(ps, answer) = {} \/ Families(ps, answer) = {f}
  BY DEF Families
<1>2. Cardinality({}) = 0 /\ Cardinality({f}) = 1
  BY FS_EmptySet, FS_Singleton
<1>3. Support(ps, answer) \in {0, 1}
  BY <1>1, <1>2 DEF Support
<1>. QED  BY <1>3, ArbitrationAssumption

\* What arbitrate() resolves can be undone and is corroborated.
LEMMA ArbitrateIs ==
  ASSUME MinIndependent >= 2, NEW ps \in Panels, NEW irreversible \in BOOLEAN, NEW trust,
         Arbitrate(ps, irreversible, trust).outcome = "resolved"
  PROVE  ~irreversible /\ Corroborated(ps, Arbitrate(ps, irreversible, trust).answer)
<1>1. Len(ps) \in Nat \ {0}
  BY PanelsAssumption
<1>2. /\ Verdict("escalate", None).outcome # "resolved" /\ Verdict("no_consensus", None).outcome # "resolved"
      /\ \A a : Verdict("resolved", a).answer = a
  BY DEF Verdict
<1>3. ~irreversible /\ (\/ Arbitrate(ps, irreversible, trust) = Unanimous(ps)
                        \/ Arbitrate(ps, irreversible, trust) = Split(ps, trust))
  BY <1>2 DEF Arbitrate
<1>4. CASE Arbitrate(ps, irreversible, trust) = Unanimous(ps)
  <2>1. /\ Unanimous(ps) = Verdict("resolved", ps[1].answer)
        /\ ~(Support(ps, ps[1].answer) < MinIndependent) \/ ~(Len(ps) > 1)
    BY <1>2, <1>4 DEF Unanimous
  <2>2. ~(Len(ps) > 1) => Corroborated(ps, ps[1].answer)
    <3>1. \A n \in Nat \ {0} : ~(n > 1) => n = 1
      OBVIOUS
    <3>2. ~(Len(ps) > 1) => Len(ps) = 1
      BY <1>1, <3>1
    <3>. QED  BY <3>2, Zenon DEF Corroborated
  <2>. QED  BY <1>2, <1>3, <1>4, <2>1, <2>2, TwoFamilies
<1>5. CASE Arbitrate(ps, irreversible, trust) = Split(ps, trust)
  <2>1. /\ Split(ps, trust) = Verdict("resolved", Leader(ps, trust))
        /\ ~(Support(ps, Leader(ps, trust)) < MinIndependent)
    BY <1>2, <1>5 DEF Split
  <2>. QED  BY <1>2, <1>3, <1>5, <2>1, TwoFamilies
<1>. QED  BY <1>3, <1>4, <1>5

\* A dispute is as NoFamilySettlesAlone has it.
Settled(it) ==
  it.decidedBy = None /\ it.outcome = "resolved" =>
    ~it.irreversible /\ Corroborated(it.positions, it.answer)

DisputesInv ==
  /\ \E S : disputes \in Seq(S)
  /\ \A d \in DOMAIN disputes :
       /\ disputes[d].positions \in Panels /\ disputes[d].irreversible \in BOOLEAN
       /\ Settled(disputes[d])

LEMMA DisputesInit == Init => DisputesInv
<1>. SUFFICES ASSUME Init PROVE DisputesInv
  OBVIOUS
<1>1. disputes = << >> /\ DOMAIN disputes = {} /\ disputes \in Seq({})
  BY DEF Init
<1>. QED  BY <1>1 DEF DisputesInv

LEMMA DisputesStep ==
  ASSUME MinIndependent >= 2, DisputesInv, [Next]_vars
  PROVE  DisputesInv'
<1>0. PICK S : disputes \in Seq(S)
  BY DEF DisputesInv
<1>. DEFINE Good(it) == it.positions \in Panels /\ it.irreversible \in BOOLEAN /\ Settled(it)
<1>1. \A d \in DOMAIN disputes : Good(disputes[d])
  BY DEF DisputesInv
<1>2. ASSUME NEW it, Good(it), disputes' = Append(disputes, it) PROVE DisputesInv'
  <2>1. disputes \in Seq(S \cup {it}) /\ it \in S \cup {it}
    BY <1>0
  <2>2. /\ disputes' \in Seq(S \cup {it}) /\ DOMAIN disputes' = DOMAIN disputes \cup {Len(disputes) + 1}
        /\ disputes'[Len(disputes) + 1] = it /\ \A d \in DOMAIN disputes : disputes'[d] = disputes[d]
    BY <1>2, <2>1, AppendIs
  <2>3. \A d \in DOMAIN disputes' : Good(disputes'[d])
    BY <1>1, <1>2, <2>2
  <2>. QED  BY <2>2, <2>3 DEF DisputesInv, Settled, Corroborated
<1>3. ASSUME NEW d \in DOMAIN disputes, NEW it, Good(it), disputes' = [disputes EXCEPT ![d] = it]
      PROVE  DisputesInv'
  <2>1. disputes \in Seq(S \cup {it}) /\ it \in S \cup {it}
    BY <1>0
  <2>2. /\ disputes' \in Seq(S \cup {it}) /\ DOMAIN disputes' = DOMAIN disputes
        /\ disputes'[d] = it /\ \A e \in DOMAIN disputes \ {d} : disputes'[e] = disputes[e]
    BY <1>3, <2>1, ExceptIs
  <2>3. \A e \in DOMAIN disputes' : Good(disputes'[e])
    BY <1>1, <1>3, <2>2
  <2>. QED  BY <2>2, <2>3 DEF DisputesInv, Settled, Corroborated
<1>4. ASSUME NEW ps \in Panels, NEW irreversible \in BOOLEAN, Open(ps, irreversible) PROVE DisputesInv'
  <2>. DEFINE it == Dispute(ps, irreversible, Verdict(None, None), None)
  <2>1. Good(it)
    BY DEF Dispute, Verdict, None, Settled
  <2>2. disputes' = Append(disputes, it)
    BY <1>4 DEF Open
  <2>. QED  BY <1>2, <2>1, <2>2
<1>5. ASSUME NEW d \in DOMAIN disputes, Resolve(d) PROVE DisputesInv'
  <2>. DEFINE old == disputes[d]
              verdict == Arbitrate(old.positions, old.irreversible, Trusted)
              it == Dispute(old.positions, old.irreversible, verdict, old.decidedBy)
  <2>1. verdict.outcome = "resolved" => ~old.irreversible /\ Corroborated(old.positions, verdict.answer)
    BY <1>1, ArbitrateIs
  <2>. HIDE DEF verdict
  <2>2. Good(it)
    BY <1>1, <2>1 DEF Dispute, Settled
  <2>3. disputes' = [disputes EXCEPT ![d] = it]
    BY <1>5 DEF Resolve, verdict
  <2>. QED  BY <1>3, <2>2, <2>3
<1>6. ASSUME NEW d \in DOMAIN disputes, NEW a, Decide(d, a) PROVE DisputesInv'
  <2>. DEFINE old == disputes[d]
              it == Dispute(old.positions, old.irreversible, Verdict("resolved", a), "person")
  <2>1. Good(it)
    BY <1>1 DEF Dispute, Verdict, Settled, None
  <2>2. disputes' = [disputes EXCEPT ![d] = it]
    BY <1>6 DEF Decide
  <2>. QED  BY <1>3, <2>1, <2>2
<1>7. CASE UNCHANGED disputes
  BY <1>7 DEF DisputesInv, Settled, Corroborated
<1>. QED  BY <1>4, <1>5, <1>6, <1>7 DEF Next, vars

\* Among finitely many one is the greatest by any measure.
LEMMA Heaviest ==
  ASSUME NEW S, IsFiniteSet(S), S # {}, NEW w \in [S -> Int]
  PROVE  \E m \in S : \A s \in S : w[s] <= w[m]
<1> DEFINE Top(T) == \E m \in T : \A s \in T : w[s] <= w[m]
           Bad == {Cardinality(T) : T \in {U \in SUBSET S : U # {} /\ ~Top(U)}}
<1>. SUFFICES ASSUME Bad # {} PROVE FALSE
  BY Zenon
<1>1. Bad \subseteq Nat
  BY FS_Subset, FS_CardinalityType
<1>2. PICK n \in Bad : \A m \in Bad : n <= m
  BY <1>1, NatLeast, Zenon
<1>3. PICK T \in SUBSET S : T # {} /\ ~Top(T) /\ n = Cardinality(T)
  BY Zenon
<1>4. /\ Pick(T) \in T /\ T \ {Pick(T)} \in SUBSET S
      /\ Cardinality(T) \in Nat /\ Cardinality(T \ {Pick(T)}) = Cardinality(T) - 1
  BY <1>3, PickIs
<1>5. T \ {Pick(T)} = {} \/ Top(T \ {Pick(T)})
  <2>. SUFFICES ASSUME T \ {Pick(T)} # {}, ~Top(T \ {Pick(T)}) PROVE FALSE
    OBVIOUS
  <2>1. Cardinality(T \ {Pick(T)}) \in Bad
    BY <1>4, Zenon
  <2>2. Cardinality(T) <= Cardinality(T \ {Pick(T)})
    BY <1>2, <1>3, <2>1, Zenon
  <2>. QED  BY <1>4, <2>2
<1>6. \A s \in T : w[s] \in Int
  OBVIOUS
<1>7. Top(T)
  <2>1. CASE T \ {Pick(T)} = {}
    <3>1. \A s \in T : s = Pick(T)
      BY <1>4, <2>1
    <3>. QED  BY <1>4, <1>6, <3>1
  <2>2. CASE Top(T \ {Pick(T)})
    <3>1. PICK m \in T \ {Pick(T)} : \A s \in T \ {Pick(T)} : w[s] <= w[m]
      BY <2>2
    <3>2. CASE w[Pick(T)] <= w[m]
      <4>1. \A s \in T : w[s] <= w[m]
        BY <3>1, <3>2
      <4>. QED  BY <4>1
    <3>3. CASE ~(w[Pick(T)] <= w[m])
      <4>1. \A s \in T : w[s] <= w[Pick(T)]
        BY <1>4, <1>6, <3>1, <3>3
      <4>. QED  BY <1>4, <4>1
    <3>. QED  BY <3>2, <3>3
  <2>. QED  BY <1>5, <2>1, <2>2
<1>. QED  BY <1>3, <1>7

\* Of any answers given one ranks first: the heaviest, or of equals the one
\* that was given before the others.
LEMMA FirstIs ==
  ASSUME NEW ps \in Panels, NEW trust \in [Agents -> 0..100],
         NEW S \in SUBSET Answers(ps), S # {}
  PROVE  First(ps, S, trust) \in S
<1> DEFINE total(a) == Sum(ps, For(ps, a), trust)
           I == {i \in DOMAIN ps : ps[i].answer \in S}
           w == [i \in I |-> total(ps[i].answer)]
<1>1. /\ DOMAIN ps = 1..Len(ps) /\ Len(ps) \in Nat /\ I \subseteq Nat
      /\ IsFiniteSet(DOMAIN ps)
  <2>1. DOMAIN ps = 1..Len(ps) /\ Len(ps) \in Nat
    BY PanelsAssumption
  <2>2. IsFiniteSet(1..Len(ps))
    BY <2>1, FS_Interval
  <2>. QED  BY <2>1, <2>2
<1>2. IsFiniteSet(I) /\ I # {}
  BY <1>1, FS_Subset DEF Answers
<1>3. \A a : total(a) \in Int
  BY TotalIs DEF For
<1>. HIDE DEF total
<1>4. w \in [I -> Int]
  BY <1>3
<1>5. PICK m \in I : \A i \in I : w[i] <= w[m]
  BY <1>2, <1>4, Heaviest, Zenon
<1> DEFINE M == {i \in I : w[i] = w[m]}
<1>6. M \subseteq Nat /\ M # {}
  BY <1>1
<1>7. PICK first \in M : \A i \in M : first <= i
  BY <1>6, NatLeast, Zenon
<1> DEFINE a == ps[first].answer
<1>8. a \in S /\ first \in For(ps, a) /\ w[first] = total(a)
  BY DEF For
<1>9. ASSUME NEW b \in S \ {a} PROVE Before(ps, a, b, trust)
  <2>1. \A j \in For(ps, b) : j \in I /\ w[j] = total(b) /\ j # first
    BY DEF For
  <2>2. PICK j \in DOMAIN ps : ps[j].answer = b
    BY DEF Answers
  <2>3. j \in For(ps, b)
    BY <2>2 DEF For
  <2>4. total(b) <= total(a)
    BY <1>5, <1>7, <1>8, <2>1, <2>3
  <2>5. CASE total(b) = total(a)
    <3>1. \A k \in For(ps, b) : k \in M
      BY <1>8, <2>1, <2>5
    <3>2. \A k \in For(ps, b) : first < k
      <4>1. \A k \in For(ps, b) : k \in Nat /\ first \in Nat /\ first <= k /\ k # first
        BY <1>6, <1>7, <2>1, <3>1, Zenon
      <4>. QED  BY <4>1
    <3>. QED  BY <1>8, <2>5, <3>2 DEF Before, total
  <2>6. CASE total(b) # total(a)
    <3>1. total(a) > total(b)
      BY <1>3, <2>4, <2>6
    <3>. QED  BY <3>1, Zenon DEF Before, total
  <2>. QED  BY <2>5, <2>6
<1>. QED  BY <1>8, <1>9, Zenon DEF First

\* What arbitrate() answers is one of the answers given, or none.
LEMMA ArbitrateTyped ==
  ASSUME NEW ps \in Panels, NEW irreversible \in BOOLEAN, NEW trust \in [Agents -> 0..100]
  PROVE  \E outcome \in {"resolved", "escalate", "no_consensus"}, answer \in Answers(ps) \cup {None} :
           Arbitrate(ps, irreversible, trust) = Verdict(outcome, answer)
<1>1. 1 \in DOMAIN ps
  BY PanelsAssumption
<1>2. ps[1].answer \in Answers(ps)
  BY <1>1 DEF Answers
<1>3. Leader(ps, trust) \in Answers(ps)
  BY <1>2, FirstIs DEF Leader
<1>4. \/ Arbitrate(ps, irreversible, trust) = Verdict("no_consensus", None)
      \/ Arbitrate(ps, irreversible, trust) = Verdict("escalate", None)
      \/ Arbitrate(ps, irreversible, trust) = Verdict("resolved", ps[1].answer)
      \/ Arbitrate(ps, irreversible, trust) = Verdict("resolved", Leader(ps, trust))
  BY Zenon DEF Arbitrate, Unanimous, Split
<1>. QED  BY <1>2, <1>3, <1>4

DisputeRow ==
  {it \in [positions : Panels, irreversible : BOOLEAN,
           outcome : {None, "resolved", "escalate", "no_consensus"},
           answer : (UNION {Answers(ps) : ps \in Panels}) \cup {None},
           decidedBy : {None, "person"}] :
     it.answer \in Answers(it.positions) \cup {None}}

DisputesOK == disputes \in Seq(DisputeRow) /\ Len(disputes) <= MaxDisputes

\* A dispute that is made of a panel, a verdict and a person is a row.
LEMMA DisputeIs ==
  ASSUME NEW ps \in Panels, NEW irreversible \in BOOLEAN,
         NEW outcome \in {None, "resolved", "escalate", "no_consensus"},
         NEW answer \in Answers(ps) \cup {None}, NEW person \in {None, "person"}
  PROVE  Dispute(ps, irreversible, Verdict(outcome, answer), person) \in DisputeRow
<1>1. answer \in (UNION {Answers(qs) : qs \in Panels}) \cup {None}
  OBVIOUS
<1>. QED  BY <1>1 DEF Dispute, Verdict, DisputeRow

LEMMA DisputesOKStep ==
  ASSUME TablesOK, DisputesOK, [Next]_vars
  PROVE  DisputesOK'
<1>1. disputes \in Seq(DisputeRow) /\ Len(disputes) <= MaxDisputes /\ MaxDisputes \in Nat
  BY DisputesBound DEF DisputesOK
<1>2. ASSUME NEW d \in DOMAIN disputes
      PROVE  /\ disputes[d].positions \in Panels /\ disputes[d].irreversible \in BOOLEAN
             /\ disputes[d].decidedBy \in {None, "person"}
  <2>1. disputes[d] \in DisputeRow
    BY <1>1
  <2>. QED  BY <2>1 DEF DisputeRow
<1>3. ASSUME NEW d \in DOMAIN disputes, NEW it \in DisputeRow, disputes' = [disputes EXCEPT ![d] = it]
      PROVE  DisputesOK'
  <2>1. disputes' \in Seq(DisputeRow) /\ Len(disputes') = Len(disputes)
    BY <1>1, <1>3, ExceptIs
  <2>. QED  BY <1>1, <2>1 DEF DisputesOK
<1>4. ASSUME NEW ps \in Panels, NEW irreversible \in BOOLEAN, Open(ps, irreversible) PROVE DisputesOK'
  <2> DEFINE it == Dispute(ps, irreversible, Verdict(None, None), None)
  <2>1. it \in DisputeRow
    BY DisputeIs
  <2>2. disputes' = Append(disputes, it) /\ Len(disputes) < MaxDisputes
    BY <1>4 DEF Open
  <2>. HIDE DEF it
  <2>3. disputes' \in Seq(DisputeRow) /\ Len(disputes') = Len(disputes) + 1 /\ Len(disputes) \in Nat
    BY <1>1, <2>1, <2>2, AppendIs
  <2>. QED  BY <1>1, <2>2, <2>3 DEF DisputesOK
<1>5. ASSUME NEW d \in DOMAIN disputes, Resolve(d) PROVE DisputesOK'
  <2> DEFINE old == disputes[d]
             verdict == Arbitrate(old.positions, old.irreversible, Trusted)
  <2>1. Trusted \in [Agents -> 0..100]
    BY TrustedIs
  <2>2. PICK outcome \in {"resolved", "escalate", "no_consensus"},
             answer \in Answers(old.positions) \cup {None} : verdict = Verdict(outcome, answer)
    BY <1>2, <2>1, ArbitrateTyped
  <2>3. Dispute(old.positions, old.irreversible, verdict, old.decidedBy) \in DisputeRow
    BY <1>2, <2>2, DisputeIs
  <2>4. disputes' = [disputes EXCEPT ![d] = Dispute(old.positions, old.irreversible, verdict, old.decidedBy)]
    BY <1>5 DEF Resolve
  <2>. QED  BY <1>3, <2>3, <2>4
<1>6. ASSUME NEW d \in DOMAIN disputes, NEW a \in Answers(disputes[d].positions), Decide(d, a)
      PROVE  DisputesOK'
  <2> DEFINE old == disputes[d]
             it == Dispute(old.positions, old.irreversible, Verdict("resolved", a), "person")
  <2>1. it \in DisputeRow
    BY <1>2, DisputeIs
  <2>2. disputes' = [disputes EXCEPT ![d] = it]
    BY <1>6 DEF Decide
  <2>. QED  BY <1>3, <2>1, <2>2
<1>7. CASE UNCHANGED disputes
  BY <1>7 DEF DisputesOK
<1>. QED  BY <1>4, <1>5, <1>6, <1>7 DEF Next, vars

-----------------------------------------------------------------------------
(* Theorems.                                                               *)

\* What events, appeals, contracts and breaches have in common, in every state
\* (TrustEventStore, ReciprocalTrust).
THEOREM TrustInvariant == Spec => []IInv
<1>1. Init => IInv
  BY InitOK DEF Init
<1>. QED  BY <1>1, StepOK, PTL DEF Spec

\* The tables of the record have their types, and an appeal or a breach refers
\* to a row that is there (TrustEventStore, ReciprocalTrust).
THEOREM TrustRecordTypeOK == Spec => []RecordTypeOK
<1>1. IInv => RecordTypeOK
  <2>. SUFFICES ASSUME IInv PROVE RecordTypeOK
    OBVIOUS
  <2>1. TablesOK
    BY DEF IInv
  <2>2. \A n \in DOMAIN events : events[n] \in EventRow
    BY <2>1 DEF TablesOK
  <2>3. \A a \in DOMAIN appeals : appeals[a] \in AppealRow
    BY <2>1 DEF TablesOK
  <2>4. \A b \in DOMAIN breaches : breaches[b] \in BreachRow
    BY <2>1 DEF TablesOK
  <2>5. \A n \in DOMAIN events :
          /\ events[n].subject \in Subjects /\ events[n].kind \in Kinds
          /\ events[n].neutralised \in BOOLEAN /\ events[n].reported \in BOOLEAN
          /\ events[n].about \in [what : {"nothing", "breach", "appeal"}, number : Nat]
    BY <2>2 DEF EventRow, About
  <2>6. \A a \in DOMAIN appeals : appeals[a].status \in {"open", "upheld", "rejected"}
    BY <2>3 DEF AppealRow
  <2>7. \A b \in DOMAIN breaches : /\ breaches[b].by \in {"agent", "operator"}
                                   /\ breaches[b].remediated \in BOOLEAN
    BY <2>4 DEF BreachRow
  <2>. QED  BY <2>1, <2>5, <2>6, <2>7 DEF TablesOK, RecordTypeOK
<1>. QED  BY <1>1, TrustInvariant, PTL

\* The tables have their types; in particular, what a dispute is resolved to is
\* one of the answers its participants gave: there is a leader whatever the
\* weights, and a tie goes to the answer given first (arbitrate).
THEOREM TrustTypeOK == Spec => []TypeOK
<1>1. Init => DisputesOK
  BY DisputesBound DEF Init, DisputesOK
<1>2. IInv => TablesOK
  BY DEF IInv
<1>3. RecordTypeOK /\ DisputesOK => TypeOK
  <2>. SUFFICES ASSUME RecordTypeOK, DisputesOK PROVE TypeOK
    OBVIOUS
  <2>1. \A d \in DOMAIN disputes : disputes[d] \in DisputeRow
    BY DEF DisputesOK
  <2>2. \A it \in DisputeRow :
          /\ it.positions \in Panels /\ it.irreversible \in BOOLEAN
          /\ it.outcome \in {None, "resolved", "escalate", "no_consensus"}
          /\ it.answer \in Answers(it.positions) \cup {None}
          /\ it.decidedBy \in {None, "person"}
    BY DEF DisputeRow
  <2>. QED  BY <2>1, <2>2 DEF DisputesOK, TypeOK
<1>. QED
  BY <1>1, <1>2, <1>3, DisputesOKStep, TrustInvariant, TrustRecordTypeOK, PTL DEF Spec

\* An event is out of the score exactly when an appeal against it was upheld,
\* and each appeal upheld is repaired once, whatever is appealed and in whatever
\* order it is decided (decideAppeal).
THEOREM TrustAppealsSettled == Spec => []AppealsSettled
<1>1. IInv => AppealsSettled
  <2>. SUFFICES ASSUME IInv PROVE AppealsSettled
    OBVIOUS
  <2>1. NeutralisedInv
    BY DEF IInv
  <2>2. ASSUME NEW a \in DOMAIN appeals
        PROVE  /\ Cardinality(Mentions("appeal", a)) = IF appeals[a].status = "upheld" THEN 1 ELSE 0
               /\ \A e \in Mentions("appeal", a) : events[e].subject = events[appeals[a].event].subject
    <3>1. CASE appeals[a].status = "upheld"
      <4>1. PICK e \in DOMAIN events : /\ Mentions("appeal", a) = {e}
                                       /\ events[e].subject = events[appeals[a].event].subject
        BY <3>1 DEF IInv, MentionedInv
      <4>2. Cardinality({e}) = 1
        BY FS_Singleton
      <4>. QED  BY <3>1, <4>1, <4>2
    <3>2. CASE appeals[a].status # "upheld"
      <4>1. Mentions("appeal", a) = {} /\ Cardinality({}) = 0
        BY <3>2, FS_EmptySet DEF IInv, MentionedInv
      <4>. QED  BY <3>2, <4>1
    <3>. QED  BY <3>1, <3>2
  <2>. QED  BY <2>1, <2>2 DEF NeutralisedInv, AppealsSettled
<1>. QED  BY <1>1, TrustInvariant, PTL

\* A breach is held against the side that broke the contract, at most once, and
\* only a crash keeps it off the record (recordBreach, health).
THEOREM TrustBreachesCharged == Spec => []BreachesCharged
<1>1. IInv => BreachesCharged
  <2>. SUFFICES ASSUME IInv PROVE BreachesCharged
    OBVIOUS
  <2>1. ASSUME NEW b \in DOMAIN breaches
        PROVE  /\ Cardinality(Mentions("breach", b)) <= 1
               /\ \A e \in Mentions("breach", b) :
                    events[e].subject = breaches[b].contract[IF breaches[b].by = "agent" THEN 1 ELSE 2]
    <3>1. CASE Mentions("breach", b) = {}
      <4>1. Cardinality({}) = 0
        BY FS_EmptySet
      <4>. QED  BY <3>1, <4>1
    <3>2. CASE \E e \in DOMAIN events : Mentions("breach", b) = {e} /\ events[e].subject = Owner(b)
      <4>1. PICK e \in DOMAIN events : Mentions("breach", b) = {e} /\ events[e].subject = Owner(b)
        BY <3>2
      <4>2. Cardinality({e}) = 1
        BY FS_Singleton
      <4>. QED  BY <4>1, <4>2 DEF Owner
    <3>. QED  BY <3>1, <3>2 DEF IInv, MentionedInv
  <2>2. Cardinality({b \in DOMAIN breaches : Mentions("breach", b) = {}}) <= faults
    BY DEF IInv, FaultsInv, Unheld
  <2>3. ASSUME NEW c \in DOMAIN contracts, NEW side \in {"agent", "operator"}, Fault(c) = side, faults = 0
        PROVE  \E n \in DOMAIN events : /\ Grounds(events[n]).what = "breach"
                                        /\ events[n].subject = c[IF side = "agent" THEN 1 ELSE 2]
    <3>. DEFINE Of(s) == {b \in DOMAIN breaches : breaches[b].contract = c /\ breaches[b].by = s}
    <3>1. \A s : IsFiniteSet(Of(s)) /\ Cardinality(Of(s)) \in Nat
      <4>1. Len(breaches) \in Nat /\ DOMAIN breaches = 1..Len(breaches)
        BY DEF IInv, TablesOK
      <4>2. IsFiniteSet(DOMAIN breaches)
        BY <4>1, FS_Interval
      <4>3. \A s : Of(s) \subseteq DOMAIN breaches
        OBVIOUS
      <4>. QED  BY <4>2, <4>3, FS_Subset, FS_CardinalityType
    <3>. DEFINE agents == Cardinality(Of("agent"))
                operators == Cardinality(Of("operator"))
                all == agents + operators
    <3>2. side = IF all = 0 THEN "none"
                 ELSE IF 10 * agents >= 7 * all THEN "agent"
                 ELSE IF 10 * agents <= 3 * all THEN "operator"
                 ELSE "shared"
      BY <2>3 DEF Fault
    <3>3. agents \in Nat /\ operators \in Nat
      BY <3>1
    <3>. HIDE DEF Of
    <3>4. Cardinality(Of(side)) # 0
      <4>1. CASE side = "agent"
        BY <3>2, <3>3, <4>1
      <4>2. CASE side = "operator"
        BY <3>2, <3>3, <4>2
      <4>. QED  BY <4>1, <4>2
    <3>5. PICK b \in DOMAIN breaches : breaches[b].contract = c /\ breaches[b].by = side
      BY <3>4, FS_EmptySet DEF Of
    <3>6. Unheld = {}
      BY <2>3, UnheldFinite, FS_EmptySet, FS_CardinalityType DEF IInv, FaultsInv
    <3>7. PICK e \in DOMAIN events : Mentions("breach", b) = {e} /\ events[e].subject = Owner(b)
      BY <3>5, <3>6 DEF IInv, MentionedInv, Unheld
    <3>8. Grounds(events[e]).what = "breach"
      BY <3>7 DEF Mentions, Reference
    <3>. QED  BY <3>5, <3>7, <3>8 DEF Owner
  <2>. QED  BY <2>1, <2>2, <2>3 DEF BreachesCharged
<1>. QED  BY <1>1, TrustInvariant, PTL

\* Where two families are asked for, none settles a dispute alone: whatever the
\* weights, the margin, the scores and the order of events, what is resolved can
\* be undone and is said outside any one family; the rest waits for a person
\* (arbitrate, resolve, decide, pending).
THEOREM TrustNoFamilySettlesAlone ==
  ASSUME MinIndependent >= 2
  PROVE  Spec => []NoFamilySettlesAlone
<1>1. DisputesInv /\ [Next]_vars => DisputesInv'
  BY DisputesStep
<1>2. DisputesInv => NoFamilySettlesAlone
  BY DEF DisputesInv, Settled, NoFamilySettlesAlone, Pending
<1>. QED  BY <1>1, <1>2, DisputesInit, PTL DEF Spec
===============================================================================
