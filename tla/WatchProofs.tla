------------------------------ MODULE WatchProofs ------------------------------
(***************************************************************************)
(* Proofs about Watch and the approvals it consults, for any number of      *)
(* requests, people, executions and sweeps that fail, and any batch.        *)
(*                                                                         *)
(* That no record is passed over unread is carried by the sweep itself      *)
(* (SweepInv): what it read reaches down to the mark without a gap, what    *)
(* arrives while it runs is above all it read, and what it has done with is *)
(* noticed.  That only another's grant vouches for an execution is carried  *)
(* by DecidedInv, and by the best of several requests being one of them.    *)
(***************************************************************************)
EXTENDS Watch, Integers, WellFoundedInduction, FiniteSetTheorems, TLAPS

\* Whoever granted a request had not asked for it.
DecidedInv ==
  \A i \in DOMAIN requests : requests[i].state \in {"GRANTED", "CONSUMED"} =>
    requests[i].decidedBy \in People \ {requests[i].by}

\* Who decided or spent a request is named only once it was.
BlankInv ==
  \A i \in DOMAIN requests :
    /\ requests[i].state = "PENDING" => requests[i].decidedBy = None
    /\ requests[i].state # "CONSUMED" => requests[i].consumedBy = None

\* What the record itself shows of s is noticed.
Seen(s) ==
  LET shape == executions[s].shape IN
  /\ shape.decision = "DENIED" /\ shape.succeeded => Noticed("DENIED_BUT_SUCCEEDED", s)
  /\ ~shape.scoped => Noticed("NO_RECORDED_AUTHORITY", s)
  /\ shape.decision = "REQUIRES_APPROVAL" /\ For(shape.action) = {}
       => Noticed("UNAPPROVED_EXECUTION", s)

SweepInv ==
  sweep.on =>
    /\ \A s \in DOMAIN executions : s <= highWater \/ s \in sweep.rows \/ \A r \in sweep.rows : r < s
    /\ \A s \in DOMAIN executions : s \in sweep.rows \ sweep.todo => Seen(s)
    /\ sweep.rows \subseteq DOMAIN executions
    /\ \A r \in sweep.rows : highWater < r

IInv == TypeOK /\ DecidedInv /\ BlankInv /\ SweptIsNoticed /\ SweepInv

-----------------------------------------------------------------------------
(* Numbers: what Min and Max (CHOOSE) are when there is a least or greatest.*)

\* Two integers neither of which exceeds the other are one.
LEMMA Antisymmetry == \A x, y \in Int : x <= y /\ y <= x => x = y
OBVIOUS

\* Min is the least element when there is one: the oldest of a page of records.
LEMMA MinIs ==
  ASSUME NEW S, S \subseteq Int, NEW m \in S, \A s \in S : m <= s
  PROVE  Min(S) = m
<1>1. Min(S) \in S /\ \A s \in S : Min(S) <= s
  BY Zenon DEF Min
<1>2. Min(S) \in Int /\ m \in Int
  BY <1>1, Zenon
<1>3. Min(S) <= m /\ m <= Min(S)
  BY <1>1, Zenon
<1>. QED  BY <1>2, <1>3, Antisymmetry, Zenon

\* Max is the greatest element when there is one: the newest of them.
LEMMA MaxIs ==
  ASSUME NEW S, S \subseteq Int, NEW m \in S, \A s \in S : s <= m
  PROVE  Max(S) = m
<1>1. \A x, y \in Int : x <= y <=> y >= x
  OBVIOUS
<1>2. \A s \in S : m >= s
  BY <1>1
<1>3. Max(S) \in S /\ \A s \in S : Max(S) >= s
  BY <1>2, Zenon DEF Max
<1>4. Max(S) \in Int /\ m \in Int
  BY <1>3, Zenon
<1>5. Max(S) <= m /\ m <= Max(S)
  BY <1>1, <1>3, <1>4, Zenon
<1>. QED  BY <1>4, <1>5, Antisymmetry, Zenon

\* A non-empty set of naturals has a least element.
LEMMA NatLeast ==
  ASSUME NEW S, S \subseteq Nat, S # {}
  PROVE  \E m \in S : \A s \in S : m <= s
<1>1. IsWellFoundedOn(OpToRel(<, Nat), Nat)
  BY NatLessThanWellFounded
<1>2. PICK m \in S : \A s \in S : ~ (<<s, m>> \in OpToRel(<, Nat))
  BY <1>1, WFMin, Zenon
<1>3. \A s \in Nat, t \in Nat : s < t \/ t <= s
  OBVIOUS
<1>4. ASSUME NEW s \in S, s < m PROVE <<s, m>> \in OpToRel(<, Nat)
  <2>1. s \in Nat /\ m \in Nat
    BY Zenon
  <2>2. <<s, m>> \in Nat \X Nat /\ <<s, m>>[1] = s /\ <<s, m>>[2] = m
    BY <2>1
  <2>. QED  BY <2>2, <1>4, Zenon DEF OpToRel
<1>. QED  BY <1>2, <1>3, <1>4, Zenon

\* A non-empty, bounded set of naturals has a greatest element.
LEMMA NatGreatest ==
  ASSUME NEW S, S \subseteq Nat, S # {}, NEW b \in Nat, \A s \in S : s <= b
  PROVE  \E m \in S : \A s \in S : s <= m
<1> DEFINE T == {b - s : s \in S}
<1>1. \A s \in S : s \in Nat /\ b - s \in Nat
  OBVIOUS
<1>2. T \subseteq Nat /\ T # {}
  BY <1>1, Zenon
<1>3. PICK t \in T : \A u \in T : t <= u
  BY <1>2, NatLeast, Zenon
<1>4. PICK m \in S : t = b - m
  BY Zenon DEF T
<1>5. \A s \in S : b - m <= b - s
  BY <1>3, <1>4, Zenon
<1>6. \A s \in S : s <= m
  BY <1>1, <1>5
<1>. QED  BY <1>6

-----------------------------------------------------------------------------
(* Sequences, numbers and sets.                                            *)

LEMMA BoundsAre == TypeOK => /\ head \in Nat /\ highWater \in Nat /\ Cardinality(Traces) \in Nat
                             /\ failures \in Nat /\ MaxFailures \in Nat /\ Batch \in Nat \ {0}
<1>1. Cardinality(Traces) \in Nat
  BY TracesAssumption, FS_CardinalityType
<1>. QED  BY <1>1, FailuresAssumption, BatchAssumption DEF TypeOK

LEMMA RequestsAre ==
  RequestsOK => /\ Len(requests) \in Nat /\ DOMAIN requests = 1..Len(requests)
                /\ \A i \in DOMAIN requests : requests[i] \in Row
BY DEF RequestsOK

\* The least and the greatest of records of which some are read.
LEMMA LeastIs ==
  ASSUME NEW n \in Nat, NEW S \in SUBSET (1..n), S # {}
  PROVE  Min(S) \in S /\ \A s \in S : Min(S) <= s
<1>0. S \subseteq Nat
  OBVIOUS
<1>1. PICK m \in S : \A s \in S : m <= s
  BY <1>0, NatLeast
<1>2. S \subseteq Int
  OBVIOUS
<1>3. Min(S) = m
  BY <1>1, <1>2, MinIs
<1>. QED  BY <1>1, <1>3

LEMMA GreatestIs ==
  ASSUME NEW n \in Nat, NEW S \in SUBSET (1..n), S # {}
  PROVE  Max(S) \in S /\ \A s \in S : s <= Max(S)
<1>0. S \subseteq Nat /\ \A s \in S : s <= n
  OBVIOUS
<1>1. PICK m \in S : \A s \in S : s <= m
  BY <1>0, NatGreatest
<1>2. S \subseteq Int
  OBVIOUS
<1>3. Max(S) = m
  BY <1>1, <1>2, MaxIs
<1>. QED  BY <1>1, <1>3

\* What a sweep reads reaches down to the mark without a gap.
LEMMA UnreadOK ==
  ASSUME TypeOK
  PROVE  /\ Unread \subseteq DOMAIN executions /\ Unread \in SUBSET (1..head)
         /\ \A r \in Unread : highWater < r
         /\ \A s \in DOMAIN executions : s <= highWater \/ s \in Unread \/ \A r \in Unread : r < s
<1>n. head \in Nat /\ highWater \in Nat /\ Batch \in Nat \ {0}
  BY BoundsAre
<1>. DEFINE above == {s \in DOMAIN executions : s > highWater}
            Below(m) == {t \in above : t < m}
<1>1. Unread = {s \in above : Cardinality(Below(s)) < Batch}
  BY DEF Unread
<1>2. above \subseteq 1..head /\ DOMAIN executions \subseteq 1..head
  BY DEF TypeOK
<1>3. \A m \in above : IsFiniteSet(Below(m))
  <2>1. IsFiniteSet(1..head)
    BY <1>n, FS_Interval
  <2>2. \A m \in above : Below(m) \subseteq 1..head
    BY <1>2
  <2>. QED  BY <2>1, <2>2, FS_Subset
<1>4. ASSUME NEW s \in above, NEW r \in Unread, ~ (r < s) PROVE s \in Unread
  <2>1. s \in 1..head /\ r \in above /\ r \in 1..head /\ Cardinality(Below(r)) < Batch
    BY <1>1, <1>2
  <2>2. Below(s) \subseteq Below(r)
    BY <1>2, <1>4, <2>1
  <2>3. Cardinality(Below(s)) <= Cardinality(Below(r)) /\ Cardinality(Below(s)) \in Nat
        /\ Cardinality(Below(r)) \in Nat
    BY <1>3, <2>1, <2>2, FS_Subset, FS_CardinalityType
  <2>. QED  BY <1>n, <1>1, <2>1, <2>3
<1>5. Unread \subseteq above
  BY <1>1
<1>6. \A s \in DOMAIN executions : s > highWater <=> ~ (s <= highWater)
  BY <1>n, <1>2
<1>7. \A r \in Unread : highWater < r
  BY <1>n, <1>2, <1>5
<1>. QED  BY <1>2, <1>4, <1>5, <1>6, <1>7

-----------------------------------------------------------------------------
(* Approvals.                                                              *)

\* A best request there is, as soon as there is one.
LEMMA AnsweringOK ==
  ASSUME RequestsOK, NEW action, For(action) # {}
  PROVE  Answering(action) \in For(action)
<1>n. Len(requests) \in Nat /\ DOMAIN requests = 1..Len(requests)
      /\ \A i \in DOMAIN requests : requests[i] \in Row
  BY RequestsAre
<1>. DEFINE R(i) == rank[State(requests[i])]
            S == For(action)
<1>1. S \subseteq 1..Len(requests)
  BY <1>n DEF For
<1>2. \A i \in S : R(i) \in Nat
  BY <1>n, <1>1 DEF State, rank, Row, Stored
<1>. DEFINE Ranks == {R(i) : i \in S}
<1>3. Ranks \subseteq Nat /\ Ranks # {}
  BY <1>2
<1>4. PICK best \in Ranks : \A r \in Ranks : best <= r
  BY <1>3, NatLeast
<1>. DEFINE T == {i \in S : R(i) = best}
<1>5. T \subseteq Nat /\ T # {} /\ \A i \in T : i <= Len(requests)
  BY <1>n, <1>1, <1>4
<1>6. PICK m \in T : \A i \in T : i <= m
  BY <1>n, <1>5, NatGreatest
<1>7. \A j \in S : R(m) < R(j) \/ (R(m) = R(j) /\ j <= m)
  <2>. TAKE j \in S
  <2>1. R(m) = best /\ best <= R(j) /\ best \in Nat /\ R(j) \in Nat
    BY <1>2, <1>3, <1>4, <1>6
  <2>2. R(j) = best => j <= m
    BY <1>6
  <2>. QED  BY <2>1, <2>2
<1>8. m \in S
  BY <1>6
<1>9. \E i \in For(action) : \A j \in For(action) :
        LET a == rank[State(requests[i])]
            b == rank[State(requests[j])]
        IN  a < b \/ (a = b /\ j <= i)
  BY <1>7, <1>8, Zenon
<1>. QED  BY <1>9, Zenon DEF Answering

\* What is done to the requests, whoever does it.
Changed(i, r) == requests' = [requests EXCEPT ![i] = r]

LEMMA ChangedOK ==
  ASSUME RequestsOK, NEW i \in DOMAIN requests, NEW r \in Row, Changed(i, r)
  PROVE  /\ RequestsOK' /\ Len(requests') = Len(requests) /\ DOMAIN requests' = DOMAIN requests
         /\ requests'[i] = r /\ \A j \in DOMAIN requests \ {i} : requests'[j] = requests[j]
BY RequestsAre DEF RequestsOK, Changed

\* Where a request goes, and what stays of it.
Follows(old, new) ==
  /\ State(new) = State(old) \/ State(new) \in Moves[State(old)]
  /\ <<new.action, new.by>> = <<old.action, old.by>>
  /\ old.decidedBy # None => new.decidedBy = old.decidedBy
  /\ old.consumedBy # None => new.consumedBy = old.consumedBy

\* A row is as BlankInv and DecidedInv have it.
Sound(r) ==
  /\ r.state \in {"GRANTED", "CONSUMED"} => r.decidedBy \in People \ {r.by}
  /\ r.state = "PENDING" => r.decidedBy = None
  /\ r.state # "CONSUMED" => r.consumedBy = None

\* A step of the registry appends a row, or changes one as it may be changed.
LEMMA ApprovalStepIs ==
  ASSUME RequestsOK, DecidedInv, BlankInv, ApprovalStep
  PROVE  \/ \E r \in Row : /\ Sound(r) /\ Len(requests) < MaxRequests
                           /\ requests' = Append(requests, r)
         \/ \E i \in DOMAIN requests, r \in Row :
              Sound(r) /\ Follows(requests[i], r) /\ Changed(i, r)
<1>n. \A i \in DOMAIN requests : requests[i] \in Row /\ Sound(requests[i])
  BY RequestsAre DEF Sound, DecidedInv, BlankInv
<1>1. ASSUME NEW action \in Actions, NEW who \in People, Request(action, who)
      PROVE  \E r \in Row : /\ Sound(r) /\ Len(requests) < MaxRequests
                            /\ requests' = Append(requests, r)
  <2>. DEFINE r == [action |-> action, by |-> who, state |-> "PENDING", overdue |-> FALSE,
                    decidedBy |-> None, consumedBy |-> None]
  <2>1. r \in Row /\ Sound(r)
    BY DEF Row, Stored, Sound
  <2>. QED  BY <1>1, <2>1 DEF Request
<1>2. ASSUME NEW i \in DOMAIN requests, NEW who \in People, NEW decision \in {"GRANTED", "REFUSED"},
             Decide(i, who, decision)
      PROVE  \E r \in Row : Sound(r) /\ Follows(requests[i], r) /\ Changed(i, r)
  <2>. DEFINE old == requests[i]
              r == Updated(old, decision, who, old.consumedBy)
  <2>1. old \in Row /\ Sound(old) /\ State(old) = "PENDING" /\ who # old.by
    BY <1>n, <1>2 DEF Decide
  <2>2. old.state = "PENDING"
    BY <2>1 DEF State
  <2>3. r \in Row /\ Sound(r) /\ State(r) = decision
    BY <2>1, <2>2 DEF Row, Stored, Sound, Updated, State
  <2>4. Follows(old, r)
    BY <2>1, <2>2, <2>3 DEF Follows, Moves, Sound, Updated
  <2>. QED  BY <1>2, <2>3, <2>4 DEF Decide, Changed
<1>3. ASSUME NEW i \in DOMAIN requests, NEW who \in People, Withdraw(i, who)
      PROVE  \E r \in Row : Sound(r) /\ Follows(requests[i], r) /\ Changed(i, r)
  <2>. DEFINE old == requests[i]
              r == Updated(old, "WITHDRAWN", who, old.consumedBy)
  <2>1. old \in Row /\ Sound(old) /\ State(old) = "PENDING"
    BY <1>n, <1>3 DEF Withdraw
  <2>2. old.state = "PENDING"
    BY <2>1 DEF State
  <2>3. r \in Row /\ Sound(r) /\ State(r) = "WITHDRAWN"
    BY <2>1, <2>2 DEF Row, Stored, Sound, Updated, State
  <2>4. Follows(old, r)
    BY <2>1, <2>2, <2>3 DEF Follows, Moves, Sound, Updated
  <2>. QED  BY <1>3, <2>3, <2>4 DEF Withdraw, Changed
<1>4. ASSUME NEW i \in DOMAIN requests, NEW trace \in Traces, Consume(i, trace)
      PROVE  \E r \in Row : Sound(r) /\ Follows(requests[i], r) /\ Changed(i, r)
  <2>. DEFINE old == requests[i]
              r == Updated(old, "CONSUMED", old.decidedBy, trace)
  <2>1. old \in Row /\ Sound(old) /\ State(old) = "GRANTED"
    BY <1>n, <1>4 DEF Consume
  <2>2. old.state = "GRANTED"
    BY <2>1 DEF State
  <2>3. r \in Row /\ Sound(r) /\ State(r) = "CONSUMED"
    BY <2>1, <2>2 DEF Row, Stored, Sound, Updated, State
  <2>4. Follows(old, r)
    BY <2>1, <2>2, <2>3 DEF Follows, Moves, Sound, Updated
  <2>. QED  BY <1>4, <2>3, <2>4 DEF Consume, Changed
<1>5. ASSUME NEW i \in DOMAIN requests, Lapse(i)
      PROVE  \E r \in Row : Sound(r) /\ Follows(requests[i], r) /\ Changed(i, r)
  <2>. DEFINE old == requests[i]
              r == [old EXCEPT !.overdue = TRUE]
  <2>1. old \in Row /\ Sound(old) /\ State(old) = "PENDING"
    BY <1>n, <1>5 DEF Lapse
  <2>2. old.state = "PENDING"
    BY <2>1 DEF State
  <2>3. r \in Row /\ Sound(r) /\ State(r) = "EXPIRED"
    BY <2>1, <2>2 DEF Row, Stored, Sound, State
  <2>4. Follows(old, r)
    BY <2>1, <2>2, <2>3 DEF Follows, Moves, Sound, Row
  <2>. QED  BY <1>5, <2>3, <2>4 DEF Lapse, Changed
<1>. QED  BY <1>1, <1>2, <1>3, <1>4, <1>5 DEF ApprovalStep

LEMMA ApprovalStepOK ==
  ASSUME RequestsOK, DecidedInv, BlankInv, ApprovalStep
  PROVE  /\ RequestsOK' /\ DecidedInv' /\ BlankInv'
         /\ \A i \in DOMAIN requests : i \in DOMAIN requests' /\ Follows(requests[i], requests'[i])
<1>n. /\ Len(requests) \in Nat /\ DOMAIN requests = 1..Len(requests) /\ requests \in Seq(Row)
      /\ \A i \in DOMAIN requests : requests[i] \in Row /\ Sound(requests[i])
  BY RequestsAre DEF Sound, DecidedInv, BlankInv, RequestsOK
<1>s. \A i \in DOMAIN requests : Follows(requests[i], requests[i])
  BY DEF Follows
<1>1. ASSUME NEW r \in Row, Sound(r), Len(requests) < MaxRequests, requests' = Append(requests, r)
      PROVE  /\ RequestsOK' /\ \A i \in DOMAIN requests' : Sound(requests'[i])
             /\ \A i \in DOMAIN requests : i \in DOMAIN requests' /\ requests'[i] = requests[i]
  <2>1. /\ requests' \in Seq(Row) /\ Len(requests') = Len(requests) + 1
        /\ DOMAIN requests' = 1..(Len(requests) + 1)
        /\ requests'[Len(requests) + 1] = r
        /\ \A i \in DOMAIN requests : requests'[i] = requests[i]
    BY <1>n, <1>1
  <2>2. Len(requests') <= MaxRequests
    BY <1>n, <1>1, <2>1, RequestsAssumption
  <2>3. \A i \in DOMAIN requests' : i \in DOMAIN requests \/ i = Len(requests) + 1
    BY <1>n, <2>1
  <2>4. \A i \in DOMAIN requests : i \in DOMAIN requests'
    BY <1>n, <2>1
  <2>. QED  BY <1>n, <1>1, <2>1, <2>2, <2>3, <2>4 DEF RequestsOK
<1>2. ASSUME NEW i \in DOMAIN requests, NEW r \in Row, Sound(r), Follows(requests[i], r), Changed(i, r)
      PROVE  /\ RequestsOK' /\ \A j \in DOMAIN requests' : Sound(requests'[j])
             /\ \A j \in DOMAIN requests : j \in DOMAIN requests' /\ Follows(requests[j], requests'[j])
  <2>1. /\ RequestsOK' /\ DOMAIN requests' = DOMAIN requests
        /\ requests'[i] = r /\ \A j \in DOMAIN requests \ {i} : requests'[j] = requests[j]
    BY <1>2, ChangedOK
  <2>. QED  BY <1>n, <1>s, <1>2, <2>1
<1>3. /\ RequestsOK' /\ \A i \in DOMAIN requests' : Sound(requests'[i])
      /\ \A i \in DOMAIN requests : i \in DOMAIN requests' /\ Follows(requests[i], requests'[i])
  BY <1>s, <1>1, <1>2, ApprovalStepIs
<1>. QED  BY <1>3 DEF DecidedInv, BlankInv, Sound

-----------------------------------------------------------------------------
(* Steps.                                                                  *)

LEMMA InitOK == Init => IInv
<1>. SUFFICES ASSUME Init PROVE IInv
  OBVIOUS
<1>1. /\ requests = << >> /\ DOMAIN executions = {} /\ DOMAIN notices = {}
      /\ head = 0 /\ highWater = 0 /\ sweep = NoSweep /\ failures = 0
  BY DEF Init, NoRequests
<1>2. RequestsOK /\ DOMAIN requests = {}
  BY <1>1, RequestsAssumption DEF RequestsOK
<1>3. Cardinality(Traces) \in Nat
  BY TracesAssumption, FS_CardinalityType
<1>4. sweep \in [on : BOOLEAN, rows : SUBSET (1..head), todo : SUBSET (1..head)]
      /\ sweep.todo \subseteq sweep.rows /\ ~sweep.on
  BY <1>1 DEF NoSweep
<1>5. TypeOK
  BY <1>1, <1>2, <1>3, <1>4, FailuresAssumption DEF TypeOK
<1>6. DecidedInv /\ BlankInv /\ SweptIsNoticed /\ SweepInv
  BY <1>1, <1>2, <1>4 DEF DecidedInv, BlankInv, SweptIsNoticed, SweepInv
<1>. QED  BY <1>5, <1>6 DEF IInv

\* What is noticed stays, and what is raised is noticed.
RaisedOnly(keys) ==
  /\ DOMAIN notices' = DOMAIN notices \cup keys
  /\ \A k \in DOMAIN notices' : notices'[k] \in {"OPEN", "ACKNOWLEDGED"}

LEMMA RaiseOK ==
  ASSUME TypeOK, NEW keys, Raise(keys)
  PROVE  RaisedOnly(keys)
BY DEF Raise, RaisedOnly, TypeOK

\* The keys a sweep may raise.
KeysOK(keys) == \A k \in keys : k[1] \in Kinds /\ k[2] \in Nat

LEMMA NoticesOK ==
  ASSUME TypeOK, NEW keys, KeysOK(keys), RaisedOnly(keys)
  PROVE  \A k \in DOMAIN notices' : /\ k[1] \in Kinds /\ k[2] \in Nat
                                    /\ notices'[k] \in {"OPEN", "ACKNOWLEDGED"}
BY DEF KeysOK, RaisedOnly, TypeOK

LEMMA FindingsOK ==
  ASSUME TypeOK, NEW s \in DOMAIN executions
  PROVE  KeysOK(Findings(s))
<1>1. s \in Nat
  BY BoundsAre DEF TypeOK
<1>. QED  BY <1>1 DEF KeysOK, Findings, Key

LEMMA LapsedOK == TypeOK => KeysOK(Lapsed)
<1>. SUFFICES ASSUME TypeOK PROVE KeysOK(Lapsed)
  OBVIOUS
<1>1. \A i \in DOMAIN requests : i \in Nat
  BY RequestsAre DEF TypeOK
<1>. QED  BY <1>1 DEF KeysOK, Lapsed, Key, Kinds

\* What a record shows is among what is found when it is examined.
LEMMA FindingsCover ==
  ASSUME NEW s \in DOMAIN executions
  PROVE  LET shape == executions[s].shape
         IN /\ shape.decision = "DENIED" /\ shape.succeeded
                 => Key("DENIED_BUT_SUCCEEDED", s) \in Findings(s)
            /\ ~shape.scoped => Key("NO_RECORDED_AUTHORITY", s) \in Findings(s)
            /\ shape.decision = "REQUIRES_APPROVAL" /\ For(shape.action) = {}
                 => Key("UNAPPROVED_EXECUTION", s) \in Findings(s)
<1>. DEFINE shape == executions[s].shape
<1>1. ASSUME shape.decision = "DENIED", shape.succeeded
      PROVE  Key("DENIED_BUT_SUCCEEDED", s) \in Findings(s)
  BY <1>1 DEF Findings, Shows, Kinds
<1>2. ASSUME ~shape.scoped PROVE Key("NO_RECORDED_AUTHORITY", s) \in Findings(s)
  BY <1>2 DEF Findings, Shows, Kinds
<1>3. ASSUME shape.decision = "REQUIRES_APPROVAL", For(shape.action) = {}
      PROVE  Key("UNAPPROVED_EXECUTION", s) \in Findings(s)
  <2>1. Attest(shape.action, executions[s].id) = "ABSENT"
    BY <1>3 DEF Attest
  <2>. QED  BY <1>3, <2>1 DEF Findings, Shows, Kinds
<1>. QED  BY <1>1, <1>2, <1>3

\* What was noticed of a record stays noticed of it, whatever else changes.
LEMMA SeenStays ==
  ASSUME NEW s \in DOMAIN executions, Seen(s), executions'[s] = executions[s],
         DOMAIN notices \subseteq DOMAIN notices',
         \A action : For(action)' = {} => For(action) = {}
  PROVE  Seen(s)'
BY DEF Seen, Noticed

LEMMA SweptIsSeen == SweptIsNoticed <=> \A s \in DOMAIN executions : s <= highWater => Seen(s)
BY DEF SweptIsNoticed, Seen

LEMMA RecordOK ==
  ASSUME IInv, NEW id \in Traces, NEW shape \in Shapes, Record(id, shape)
  PROVE  IInv'
<1>. USE DEF IInv
<1>1. /\ head < Cardinality(Traces) /\ head' = head + 1
      /\ executions' = [s \in DOMAIN executions \cup {head + 1} |->
           IF s = head + 1 THEN [id |-> id, shape |-> shape] ELSE executions[s]]
      /\ UNCHANGED <<requests, notices, highWater, sweep, failures>>
  BY DEF Record
<1>n. head \in Nat /\ highWater \in Nat /\ Cardinality(Traces) \in Nat
  BY BoundsAre
<1>2. /\ DOMAIN executions' = DOMAIN executions \cup {head + 1}
      /\ executions'[head + 1] = [id |-> id, shape |-> shape]
      /\ \A s \in DOMAIN executions : s # head + 1 /\ executions'[s] = executions[s]
  BY <1>1, <1>n DEF TypeOK
<1>3. head' \in 0..Cardinality(Traces) /\ 1..head \subseteq 1..head' /\ highWater' \in 0..head'
      /\ head + 1 \in 1..head'
  BY <1>1, <1>n DEF TypeOK
<1>4. TypeOK'
  <2>1. \A s \in DOMAIN executions' : executions'[s] \in [id : Traces, shape : Shapes]
    BY <1>2 DEF TypeOK
  <2>2. /\ RequestsOK' /\ failures' \in 0..MaxFailures /\ sweep'.todo \subseteq sweep'.rows
        /\ \A k \in DOMAIN notices' : /\ k[1] \in Kinds /\ k[2] \in Nat
                                      /\ notices'[k] \in {"OPEN", "ACKNOWLEDGED"}
    BY <1>1 DEF TypeOK, RequestsOK
  <2>3. sweep' \in [on : BOOLEAN, rows : SUBSET (1..head'), todo : SUBSET (1..head')]
    BY <1>1, <1>3 DEF TypeOK
  <2>4. DOMAIN executions' \subseteq 1..head'
    BY <1>2, <1>3 DEF TypeOK
  <2>. QED  BY <1>3, <2>1, <2>2, <2>3, <2>4 DEF TypeOK
<1>5. \A s \in DOMAIN executions : Seen(s) => Seen(s)'
  <2>1. \A action : For(action)' = For(action)
    BY <1>1 DEF For
  <2>. QED  BY <1>1, <1>2, <2>1, SeenStays
<1>6. SweptIsNoticed'
  <2>1. ~ (head + 1 <= highWater)
    BY <1>n DEF TypeOK
  <2>2. \A s \in DOMAIN executions' : s <= highWater' => Seen(s)'
    BY <1>1, <1>2, <1>5, <2>1, SweptIsSeen
  <2>. QED  BY <2>2 DEF SweptIsNoticed, Seen
<1>7. SweepInv'
  <2>1. sweep.on => \A r \in sweep.rows : r < head + 1
    BY <1>n DEF TypeOK
  <2>2. sweep.on => head + 1 \notin sweep.rows
    BY <1>n DEF TypeOK
  <2>. QED  BY <1>1, <1>2, <1>5, <2>1, <2>2 DEF SweepInv
<1>8. DecidedInv' /\ BlankInv'
  BY <1>1 DEF DecidedInv, BlankInv
<1>. QED  BY <1>4, <1>6, <1>7, <1>8

LEMMA PruneOK == IInv /\ Prune => IInv'
<1>. SUFFICES ASSUME IInv, Prune PROVE IInv'
  OBVIOUS
<1>. USE DEF IInv
<1>1. /\ ~sweep.on
      /\ UNCHANGED <<requests, head, notices, highWater, sweep, failures>>
      /\ DOMAIN executions' \subseteq DOMAIN executions
      /\ \A s \in DOMAIN executions' : executions'[s] = executions[s]
  BY DEF Prune
<1>2. TypeOK'
  BY <1>1 DEF TypeOK, RequestsOK
<1>3. \A s \in DOMAIN executions' : Seen(s) => Seen(s)'
  <2>1. \A action : For(action)' = For(action)
    BY <1>1 DEF For
  <2>. QED  BY <1>1, <2>1, SeenStays
<1>4. SweptIsNoticed'
  <2>1. \A s \in DOMAIN executions' : s <= highWater' => Seen(s)'
    BY <1>1, <1>3, SweptIsSeen
  <2>. QED  BY <2>1 DEF SweptIsNoticed, Seen
<1>5. SweepInv' /\ DecidedInv' /\ BlankInv'
  BY <1>1 DEF SweepInv, DecidedInv, BlankInv
<1>. QED  BY <1>2, <1>4, <1>5

LEMMA ApproveOK == IInv /\ Approve => IInv'
<1>. SUFFICES ASSUME IInv, Approve PROVE IInv'
  OBVIOUS
<1>. USE DEF IInv
<1>1. ~sweep.on /\ UNCHANGED <<executions, head, notices, highWater, sweep, failures>>
  BY DEF Approve
<1>2. /\ RequestsOK' /\ DecidedInv' /\ BlankInv'
      /\ \A i \in DOMAIN requests : i \in DOMAIN requests' /\ Follows(requests[i], requests'[i])
  BY ApprovalStepOK DEF Approve, TypeOK
<1>3. TypeOK'
  BY <1>1, <1>2 DEF TypeOK
<1>4. \A action : For(action)' = {} => For(action) = {}
  BY <1>2 DEF For, Follows
<1>5. SweptIsNoticed'
  <2>1. \A s \in DOMAIN executions : Seen(s) => Seen(s)'
    BY <1>1, <1>4, SeenStays
  <2>2. \A s \in DOMAIN executions' : s <= highWater' => Seen(s)'
    BY <1>1, <2>1, SweptIsSeen
  <2>. QED  BY <2>2 DEF SweptIsNoticed, Seen
<1>6. SweepInv'
  BY <1>1 DEF SweepInv
<1>. QED  BY <1>2, <1>3, <1>5, <1>6

\* Notices are raised, and the sweep moves on; the record stays.
LEMMA SweepStepOK ==
  ASSUME IInv, NEW keys, KeysOK(keys), Raise(keys),
         UNCHANGED <<requests, executions, head>>
  PROVE  /\ RequestsOK' /\ DecidedInv' /\ BlankInv'
         /\ \A k \in DOMAIN notices' : /\ k[1] \in Kinds /\ k[2] \in Nat
                                       /\ notices'[k] \in {"OPEN", "ACKNOWLEDGED"}
         /\ keys \subseteq DOMAIN notices'
         /\ \A s \in DOMAIN executions : Seen(s) => Seen(s)'
         /\ \A action : For(action)' = For(action)
<1>. USE DEF IInv
<1>1. RaisedOnly(keys)
  BY RaiseOK
<1>2. \A k \in DOMAIN notices' : /\ k[1] \in Kinds /\ k[2] \in Nat
                                 /\ notices'[k] \in {"OPEN", "ACKNOWLEDGED"}
  BY <1>1, NoticesOK
<1>3. keys \subseteq DOMAIN notices' /\ DOMAIN notices \subseteq DOMAIN notices'
  BY <1>1 DEF RaisedOnly
<1>4. \A action : For(action)' = For(action)
  BY DEF For
<1>5. \A s \in DOMAIN executions : Seen(s) => Seen(s)'
  BY <1>3, <1>4, SeenStays
<1>7. RequestsOK' /\ DecidedInv' /\ BlankInv'
  BY DEF TypeOK, RequestsOK, DecidedInv, BlankInv
<1>. QED  BY <1>2, <1>3, <1>4, <1>5, <1>7

LEMMA NoSweepIs ==
  \A n \in Nat : /\ NoSweep \in [on : BOOLEAN, rows : SUBSET (1..n), todo : SUBSET (1..n)]
                   /\ NoSweep.todo \subseteq NoSweep.rows /\ ~NoSweep.on
BY DEF NoSweep

LEMMA SweepBeginOK == IInv /\ SweepBegin => IInv'
<1>. SUFFICES ASSUME IInv, SweepBegin PROVE IInv'
  OBVIOUS
<1>. USE DEF IInv
<1>. DEFINE keys ==
       {Key(kind, 0) : kind \in {k \in Kinds : \/ k = "CHAIN_BROKEN" /\ ChainBroken
                                               \/ k = "EPHEMERAL_SIGNING_KEY" /\ EphemeralKey}}
<1>1. /\ ~sweep.on /\ Raise(keys)
      /\ sweep' = [on |-> TRUE, rows |-> Unread, todo |-> Unread]
      /\ UNCHANGED <<requests, executions, head, highWater, failures>>
  BY DEF SweepBegin
<1>2. KeysOK(keys)
  BY DEF KeysOK, Key
<1>. HIDE DEF keys
<1>3. /\ RequestsOK' /\ DecidedInv' /\ BlankInv'
      /\ \A k \in DOMAIN notices' : /\ k[1] \in Kinds /\ k[2] \in Nat
                                    /\ notices'[k] \in {"OPEN", "ACKNOWLEDGED"}
      /\ \A s \in DOMAIN executions : Seen(s) => Seen(s)'
  BY <1>1, <1>2, SweepStepOK
<1>4. /\ Unread \subseteq DOMAIN executions /\ Unread \in SUBSET (1..head)
      /\ \A r \in Unread : highWater < r
      /\ \A s \in DOMAIN executions : s <= highWater \/ s \in Unread \/ \A r \in Unread : r < s
  BY UnreadOK
<1>5. /\ sweep' \in [on : BOOLEAN, rows : SUBSET (1..head), todo : SUBSET (1..head)]
      /\ sweep'.rows = Unread /\ sweep'.todo = Unread
  BY <1>1, <1>4
<1>6. TypeOK'
  BY <1>1, <1>3, <1>5 DEF TypeOK
<1>7. SweepInv'
  BY <1>1, <1>4, <1>5 DEF SweepInv
<1>8. SweptIsNoticed'
  <2>1. \A s \in DOMAIN executions' : s <= highWater' => Seen(s)'
    BY <1>1, <1>3, SweptIsSeen
  <2>. QED  BY <2>1 DEF SweptIsNoticed, Seen
<1>. QED  BY <1>3, <1>6, <1>7, <1>8

LEMMA ExamineOK == IInv /\ Examine => IInv'
<1>. SUFFICES ASSUME IInv, Examine PROVE IInv'
  OBVIOUS
<1>. USE DEF IInv
<1>n. head \in Nat /\ sweep.todo \in SUBSET (1..head) /\ sweep.todo \subseteq sweep.rows
  BY BoundsAre DEF TypeOK
<1>0. PICK m \in sweep.todo : m = Min(sweep.todo)
  BY <1>n, LeastIs DEF Examine
<1>1. /\ sweep.on /\ sweep.todo # {} /\ Raise(Findings(m))
      /\ sweep' = [sweep EXCEPT !.todo = sweep.todo \ {m}]
      /\ UNCHANGED <<requests, executions, head, highWater, failures>>
  BY <1>0 DEF Examine
<1>3. m \in DOMAIN executions
  BY <1>1, <1>n DEF SweepInv
<1>4. /\ RequestsOK' /\ DecidedInv' /\ BlankInv'
      /\ \A k \in DOMAIN notices' : /\ k[1] \in Kinds /\ k[2] \in Nat
                                    /\ notices'[k] \in {"OPEN", "ACKNOWLEDGED"}
      /\ Findings(m) \subseteq DOMAIN notices'
      /\ \A s \in DOMAIN executions : Seen(s) => Seen(s)'
      /\ \A action : For(action)' = For(action)
  BY <1>1, <1>3, FindingsOK, SweepStepOK
<1>5. Seen(m)'
  BY <1>1, <1>3, <1>4, FindingsCover DEF Seen, Noticed
<1>6. /\ sweep' \in [on : BOOLEAN, rows : SUBSET (1..head), todo : SUBSET (1..head)]
      /\ sweep'.rows = sweep.rows /\ sweep'.todo = sweep.todo \ {m} /\ sweep'.on
  BY <1>1 DEF TypeOK
<1>7. TypeOK'
  BY <1>1, <1>4, <1>6, <1>n DEF TypeOK
<1>8. SweepInv'
  BY <1>1, <1>4, <1>5, <1>6 DEF SweepInv
<1>9. SweptIsNoticed'
  <2>1. \A s \in DOMAIN executions' : s <= highWater' => Seen(s)'
    BY <1>1, <1>4, SweptIsSeen
  <2>. QED  BY <2>1 DEF SweptIsNoticed, Seen
<1>. QED  BY <1>4, <1>7, <1>8, <1>9

LEMMA SweepEndOK == IInv /\ SweepEnd => IInv'
<1>. SUFFICES ASSUME IInv, SweepEnd PROVE IInv'
  OBVIOUS
<1>. USE DEF IInv
<1>1. /\ sweep.on /\ sweep.todo = {} /\ Raise(Lapsed)
      /\ highWater' = IF sweep.rows = {} THEN highWater ELSE Max(sweep.rows)
      /\ sweep' = NoSweep
      /\ UNCHANGED <<requests, executions, head, failures>>
  BY DEF SweepEnd
<1>n. head \in Nat /\ highWater \in Nat /\ sweep.rows \in SUBSET (1..head)
  BY BoundsAre DEF TypeOK
<1>2. /\ RequestsOK' /\ DecidedInv' /\ BlankInv'
      /\ \A k \in DOMAIN notices' : /\ k[1] \in Kinds /\ k[2] \in Nat
                                    /\ notices'[k] \in {"OPEN", "ACKNOWLEDGED"}
      /\ \A s \in DOMAIN executions : Seen(s) => Seen(s)'
  BY <1>1, LapsedOK, SweepStepOK
<1>3. /\ highWater' \in 0..head
      /\ \A s \in DOMAIN executions : s <= highWater' => s <= highWater \/ s \in sweep.rows
  <2>1. CASE sweep.rows = {}
    BY <1>1, <2>1 DEF TypeOK
  <2>2. CASE sweep.rows # {}
    <3>1. highWater' \in sweep.rows
      BY <1>1, <1>n, <2>2, GreatestIs
    <3>2. \A s \in DOMAIN executions : ~ (s <= highWater' /\ highWater' < s)
      BY <1>n, <3>1 DEF TypeOK
    <3>. QED  BY <1>1, <1>n, <3>1, <3>2 DEF SweepInv
  <2>. QED  BY <2>1, <2>2
<1>4. \A s \in DOMAIN executions : s <= highWater' => Seen(s)
  <2>1. \A s \in sweep.rows : s \in DOMAIN executions /\ Seen(s)
    BY <1>1 DEF SweepInv
  <2>. QED  BY <1>3, <2>1, SweptIsSeen
<1>5. TypeOK'
  BY <1>1, <1>2, <1>3, <1>n, NoSweepIs DEF TypeOK
<1>6. SweepInv'
  BY <1>1, <1>n, NoSweepIs DEF SweepInv
<1>7. SweptIsNoticed'
  <2>1. \A s \in DOMAIN executions' : s <= highWater' => Seen(s)'
    BY <1>1, <1>2, <1>4
  <2>. QED  BY <2>1 DEF SweptIsNoticed, Seen
<1>. QED  BY <1>2, <1>5, <1>6, <1>7

LEMMA SweepFailsOK == IInv /\ SweepFails => IInv'
<1>. SUFFICES ASSUME IInv, SweepFails PROVE IInv'
  OBVIOUS
<1>. USE DEF IInv
<1>1. PICK written \in SUBSET (IF sweep.todo = {} THEN Lapsed ELSE Findings(Min(sweep.todo))) :
        Raise(written)
  BY DEF SweepFails
<1>2. /\ sweep.on /\ failures < MaxFailures /\ failures' = failures + 1 /\ sweep' = NoSweep
      /\ UNCHANGED <<requests, executions, head, highWater>>
  BY DEF SweepFails
<1>n. /\ head \in Nat /\ failures \in Nat /\ MaxFailures \in Nat
      /\ sweep.todo \in SUBSET (1..head) /\ sweep.todo \subseteq sweep.rows
  BY BoundsAre DEF TypeOK
<1>3. KeysOK(written)
  <2>1. CASE sweep.todo = {}
    BY <2>1, LapsedOK DEF KeysOK
  <2>2. CASE sweep.todo # {}
    <3>1. Min(sweep.todo) \in DOMAIN executions
      BY <1>2, <1>n, <2>2, LeastIs DEF SweepInv
    <3>2. KeysOK(Findings(Min(sweep.todo)))
      BY <3>1, FindingsOK
    <3>. QED  BY <2>2, <3>2 DEF KeysOK
  <2>. QED  BY <2>1, <2>2
<1>4. /\ RequestsOK' /\ DecidedInv' /\ BlankInv'
      /\ \A k \in DOMAIN notices' : /\ k[1] \in Kinds /\ k[2] \in Nat
                                    /\ notices'[k] \in {"OPEN", "ACKNOWLEDGED"}
      /\ \A s \in DOMAIN executions : Seen(s) => Seen(s)'
  BY <1>1, <1>2, <1>3, SweepStepOK
<1>5. failures' \in 0..MaxFailures
  BY <1>2, <1>n
<1>6. TypeOK'
  BY <1>2, <1>4, <1>5, <1>n, NoSweepIs DEF TypeOK
<1>7. SweepInv'
  BY <1>2, <1>n, NoSweepIs DEF SweepInv
<1>8. SweptIsNoticed'
  <2>1. \A s \in DOMAIN executions' : s <= highWater' => Seen(s)'
    BY <1>2, <1>4, SweptIsSeen
  <2>. QED  BY <2>1 DEF SweptIsNoticed, Seen
<1>. QED  BY <1>4, <1>6, <1>7, <1>8

LEMMA AcknowledgeOK ==
  ASSUME IInv, NEW key \in DOMAIN notices, Acknowledge(key)
  PROVE  IInv'
<1>. USE DEF IInv
<1>1. /\ ~sweep.on /\ notices' = [notices EXCEPT ![key] = "ACKNOWLEDGED"]
      /\ UNCHANGED <<requests, executions, head, highWater, sweep, failures>>
  BY DEF Acknowledge
<1>2. TypeOK'
  BY <1>1 DEF TypeOK, RequestsOK
<1>3. \A s \in DOMAIN executions : Seen(s) => Seen(s)'
  <2>1. \A action : For(action)' = For(action)
    BY <1>1 DEF For
  <2>. QED  BY <1>1, <2>1, SeenStays
<1>4. SweptIsNoticed'
  <2>1. \A s \in DOMAIN executions' : s <= highWater' => Seen(s)'
    BY <1>1, <1>3, SweptIsSeen
  <2>. QED  BY <2>1 DEF SweptIsNoticed, Seen
<1>5. SweepInv' /\ DecidedInv' /\ BlankInv'
  BY <1>1 DEF SweepInv, DecidedInv, BlankInv
<1>. QED  BY <1>2, <1>4, <1>5

LEMMA UnchangedOK == IInv /\ UNCHANGED vars => IInv'
BY DEF vars, IInv, TypeOK, RequestsOK, DecidedInv, BlankInv, SweptIsNoticed, SweepInv, Seen, Noticed, For

LEMMA StepOK == IInv /\ [Next]_vars => IInv'
<1>. SUFFICES ASSUME IInv, [Next]_vars PROVE IInv'
  OBVIOUS
<1>1. ASSUME NEW id \in Traces, NEW shape \in Shapes, Record(id, shape) PROVE IInv'
  BY <1>1, RecordOK
<1>2. ASSUME NEW key \in DOMAIN notices, Acknowledge(key) PROVE IInv'
  BY <1>2, AcknowledgeOK
<1>3. CASE Prune \/ Approve \/ SweepBegin \/ Examine \/ SweepEnd \/ SweepFails
  BY <1>3, PruneOK, ApproveOK, SweepBeginOK, ExamineOK, SweepEndOK, SweepFailsOK
<1>4. CASE UNCHANGED vars
  BY <1>4, UnchangedOK
<1>. QED  BY <1>1, <1>2, <1>3, <1>4 DEF Next

-----------------------------------------------------------------------------
(* Theorems.                                                               *)

\* What approvals, executions, notices and a sweep that runs have in common, in
\* every state (ApprovalRegistry, Watch).
THEOREM WatchInvariant == Spec => []IInv
BY InitOK, StepOK, PTL DEF Spec

\* Every table has its type, and the mark never passes the head of the record
\* (Watch, storage.ts).
THEOREM WatchTypeOK == Spec => []TypeOK
<1>1. IInv => TypeOK
  BY DEF IInv
<1>. QED  BY <1>1, WatchInvariant, PTL

\* The mark passes over no record unread, whatever the batch, however many
\* sweeps fail and whatever is recorded while they run (sweep).
THEOREM WatchSweptIsNoticed == Spec => []SweptIsNoticed
<1>1. IInv => SweptIsNoticed
  BY DEF IInv
<1>. QED  BY <1>1, WatchInvariant, PTL

\* The approval record vouches for an execution only by a grant for its action
\* of somebody who had not asked for it (attest, decide).
THEOREM WatchVouchedByAnother == Spec => []VouchedByAnother
<1>1. IInv => VouchedByAnother
  <2>. SUFFICES ASSUME IInv, NEW s \in DOMAIN executions,
                       Attest(executions[s].shape.action, executions[s].id) = "DEMONSTRATED"
                PROVE  \E i \in Grants(executions[s].shape.action) :
                         requests[i].decidedBy \in People \ {requests[i].by}
    BY DEF VouchedByAnother
  <2>. DEFINE action == executions[s].shape.action
              i == Answering(action)
              r == requests[i]
  <2>1. For(action) # {}
    BY DEF Attest
  <2>2. i \in For(action) /\ i \in DOMAIN requests
    BY <2>1, AnsweringOK DEF IInv, TypeOK, For
  <2>3. State(r) \in {"GRANTED", "CONSUMED"}
    BY <2>1 DEF Attest
  <2>4. r.state \in {"GRANTED", "CONSUMED"}
    BY <2>3 DEF State
  <2>5. r.decidedBy \in People \ {r.by}
    BY <2>2, <2>4 DEF IInv, DecidedInv
  <2>. QED  BY <2>2, <2>3, <2>5 DEF Grants
<1>. QED  BY <1>1, WatchInvariant, PTL

\* What DecisionsStand says of a step.
Stands ==
  \A i \in DOMAIN requests :
    /\ i \in DOMAIN requests'
    /\ LET old == requests[i]
           new == requests'[i]
       IN  /\ State(new) = State(old) \/ State(new) \in Moves[State(old)]
           /\ <<new.action, new.by>> = <<old.action, old.by>>
           /\ old.decidedBy # None => new.decidedBy = old.decidedBy
           /\ old.consumedBy # None => new.consumedBy = old.consumedBy

\* A decision is made once, and what a reader was once told stands (decide,
\* withdraw, consume, rowToApproval).
THEOREM WatchDecisionsStand == Spec => DecisionsStand
<1>1. IInv /\ [Next]_vars => [Stands]_requests
  <2>. SUFFICES ASSUME IInv, [Next]_vars, ~UNCHANGED requests PROVE Stands
    OBVIOUS
  <2>1. ApprovalStep
    BY DEF Next, Record, Prune, Approve, SweepBegin, Examine, SweepEnd, SweepFails, Acknowledge, vars
  <2>. QED  BY <2>1, ApprovalStepOK DEF IInv, TypeOK, Stands, Follows
<1>2. DecisionsStand <=> [][Stands]_requests
  BY PTL DEF DecisionsStand, Stands
<1>. QED  BY <1>1, <1>2, WatchInvariant, PTL DEF Spec
===============================================================================
