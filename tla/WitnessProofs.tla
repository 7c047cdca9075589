------------------------------ MODULE WitnessProofs ------------------------------
(***************************************************************************)
(* Proofs about Witness, for every choice of its constants: its types,     *)
(* that a rewritten history never passes an audit and an honest one does,  *)
(* and that witnessings are neither too far apart nor too close.           *)
(*                                                                         *)
(* TypeOK needs the shape of the chain (ChainInv).  RewriteIsCaught needs  *)
(* to know that the editions of history only grow (ReceiptInv): a record   *)
(* written again is never again the one a receipt names.  HonestPasses     *)
(* needs to know where the head of a receipt was when it was asked for     *)
(* (HonestInv), and that the audit counts as the walk did. WindowBounded   *)
(* is about the row alone; what carries it from one row to the next is how *)
(* far ahead the timer is set, which depends on where the sweep is         *)
(* (TimeInv).                                                              *)
(***************************************************************************)
EXTENDS Witness, Integers, WellFoundedInduction, FiniteSetTheorems, SequenceTheorems, TLAPS

-----------------------------------------------------------------------------
(* Numbers: what Min and Max (CHOOSE) are when there is a least or greatest.*)

\* Two integers neither of which exceeds the other are one.
LEMMA Antisymmetry == \A x, y \in Int : x <= y /\ y <= x => x = y
OBVIOUS

\* Min is the least element when there is one: the shortest interval asked for.
LEMMA MinIs ==
  ASSUME NEW S, S \subseteq Int, NEW m \in S, \A s \in S : m <= s
  PROVE  Min(S) = m
<1>1. Min(S) \in S /\ \A s \in S : Min(S) <= s
  BY Zenon DEF Min
<1>2. Min(S) \in Int /\ m \in Int
  BY <1>1, Zenon
<1>3. Min(S) <= m /\ m <= Min(S)
  BY <1>1, Zenon
<1>. QED  BY <1>2, <1>3, Antisymmetry, Zenon

\* A non-empty set of naturals has a least element.
LEMMA NatLeast ==
  ASSUME NEW S, S \subseteq Nat, S # {}
  PROVE  \E m \in S : \A s \in S : m <= s
<1>1. IsWellFoundedOn(OpToRel(<, Nat), Nat)
  BY NatLessThanWellFounded
<1>2. PICK m \in S : \A s \in S : ~ (<<s, m>> \in OpToRel(<, Nat))
  BY <1>1, WFMin, Zenon
<1>3. \A s \in Nat, t \in Nat : s < t \/ t <= s
  OBVIOUS
<1>4. ASSUME NEW s \in S, s < m PROVE <<s, m>> \in OpToRel(<, Nat)
  <2>1. s \in Nat /\ m \in Nat
    BY Zenon
  <2>2. <<s, m>> \in Nat \X Nat /\ <<s, m>>[1] = s /\ <<s, m>>[2] = m
    BY <2>1
  <2>. QED  BY <2>2, <1>4, Zenon DEF OpToRel
<1>. QED  BY <1>2, <1>3, <1>4, Zenon

-----------------------------------------------------------------------------
(* The constants.                                                          *)

\* The interval of an instance is a number of hours, or -1.
LEMMA IntervalType == Interval \in Nat \cup {-1}
<1> DEFINE owed == {h \in Intervals : h >= 0}
<1>1. owed \subseteq Nat
  <2>1. \A h \in owed : h \in Intervals /\ h >= 0
    BY Zenon
  <2>2. \A h \in Intervals : h \in Int
    BY IntervalsAssumption, Zenon
  <2>3. \A h \in Int : h >= 0 => h \in Nat
    OBVIOUS
  <2>. QED  BY <2>1, <2>2, <2>3, Zenon
<1>2. CASE owed = {}
  BY <1>2, Zenon DEF Interval
<1>3. CASE owed # {}
  <2>1. PICK m \in owed : \A h \in owed : m <= h
    BY <1>1, <1>3, NatLeast, Zenon
  <2>2. owed \subseteq Int
    BY <1>1
  <2>3. Min(owed) = m
    BY <2>1, <2>2, MinIs, Zenon
  <2>. QED  BY <1>1, <1>3, <2>1, <2>3, Zenon DEF Interval
<1>. QED  BY <1>2, <1>3

\* One hour more is one more Hour: the only product the proofs reason about.
LEMMA OneHourMore ==
  ASSUME NEW n \in Int
  PROVE  /\ n * Hour \in Int
         /\ (n + 1) * Hour = n * Hour + Hour
BY TimeAssumption

LEMMA HoursNatural ==
  ASSUME NEW n \in Nat
  PROVE  n * Hour \in Nat
BY TimeAssumption

-----------------------------------------------------------------------------
(* The inductive invariant.                                                *)

ChainInv ==
  /\ pruned <= Len(chain)
  /\ chain = << >> => pruned = 0
  /\ chain # << >> => pruned < Len(chain)
  /\ \A n \in 1..Len(chain) : chain[n] <= edition
  /\ pc = "walked" /\ counted > 0 => chain # << >>

ReceiptFits(r) ==
  /\ r.head[2] <= edition
  /\ r.overtaken => /\ r.head[2] < edition
                    /\ \A n \in 1..Len(chain) : n = r.head[1] => chain[n] # r.head[2]

ReceiptInv ==
  /\ \A r \in evidence : ReceiptFits(r)
  /\ asked # NoReceipt => asked \in Receipt /\ ReceiptFits(asked)
  /\ pc \in {"asking", "answered"} => asked # NoReceipt

Limit == (Interval + 1 + misses) * Hour

TimeInv ==
  /\ pc # "idle" \/ stored # << >> => Interval >= 0
  /\ pc = "walked" => nextSweep = now + Hour
  /\ pc \in {"asking", "answered"} => /\ nextSweep = askedAt + Hour
                                      /\ now <= askedAt + Timeout
  /\ \A i \in 2..Len(stored) : stored[i] - stored[i - 1] >= Interval * Hour
  /\ stored # << >> =>
       /\ LastStored <= now
       /\ pc = "idle"   => nextSweep <= LastStored + Limit
       /\ pc # "idle"   => /\ nextSweep <= LastStored + Limit + Hour
                           /\ now - LastStored >= Interval * Hour
       /\ pc = "walked" => now <= LastStored + Limit
       /\ pc \in {"asking", "answered"} => askedAt <= LastStored + Limit

IInv == TypeOK /\ ChainInv /\ ReceiptInv /\ TimeInv
-----------------------------------------------------------------------------
(* Facts about the pieces.                                                 *)

LEMMA LimitFacts ==
  ASSUME misses \in Nat
  PROVE  /\ Limit \in Int
         /\ Interval * Hour \in Int
         /\ Hour \in Nat \ {0} /\ Timeout \in Nat /\ Timeout < Hour
         /\ Interval >= 0 => /\ Limit >= Interval * Hour + Hour
                             /\ (Interval + 1) * Hour = Interval * Hour + Hour
                             /\ Interval * Hour >= 0
         /\ (Interval + 1 + (misses + 1)) * Hour = Limit + Hour
<1>1. Interval \in Int
  BY IntervalType
<1>2. Hour \in Nat \ {0} /\ Timeout \in Nat /\ Timeout < Hour
  BY TimeAssumption
<1>3. Limit \in Int /\ Interval * Hour \in Int
  BY <1>1, OneHourMore DEF Limit
<1>4. (Interval + 1 + (misses + 1)) * Hour = Limit + Hour
  <2>1. Interval + 1 + (misses + 1) = (Interval + 1 + misses) + 1
    BY <1>1
  <2>. QED  BY <1>1, <2>1, OneHourMore DEF Limit
<1>5. ASSUME Interval >= 0
      PROVE  /\ Limit >= Interval * Hour + Hour
             /\ (Interval + 1) * Hour = Interval * Hour + Hour
             /\ Interval * Hour >= 0
  <2>1. (Interval + 1) * Hour = Interval * Hour + Hour
    BY <1>1, OneHourMore
  <2>2. misses * Hour \in Nat /\ Interval * Hour \in Nat
    BY <1>1, <1>5, HoursNatural
  <2>3. Limit = (Interval + 1) * Hour + misses * Hour
    BY <1>1, <1>2 DEF Limit
  <2>. QED  BY <1>2, <1>3, <2>1, <2>2, <2>3
<1>. QED  BY <1>2, <1>3, <1>4, <1>5

\* The records held are as many as were not pruned.
LEMMA HeldCount ==
  ASSUME TypeOK, ChainInv
  PROVE  /\ Cardinality(Held) = Len(chain) - pruned
         /\ Cardinality(Held) \in 0..MaxRecords
<1>1. Len(chain) \in Nat /\ pruned \in Nat /\ MaxRecords \in Nat /\ Len(chain) <= MaxRecords
  BY NotaryAssumption DEF TypeOK
<1>2. \A a, b \in Int : Cardinality(a..b) = IF a > b THEN 0 ELSE b - a + 1
  BY FS_Interval
<1>3. pruned <= Len(chain)
  BY DEF ChainInv
<1>4. pruned + 1 \in Int /\ Len(chain) \in Int
  BY <1>1
<1>5. Cardinality(Held) = IF pruned + 1 > Len(chain) THEN 0 ELSE Len(chain) - (pruned + 1) + 1
  BY <1>2, <1>4, Zenon DEF Held
<1>. QED  BY <1>1, <1>3, <1>5

-----------------------------------------------------------------------------
(* Types and the shape of the chain.                                       *)

LEMMA InitInv == Init => IInv
<1> SUFFICES ASSUME Init PROVE IInv
  OBVIOUS
<1>1. TypeOK
  BY NotaryAssumption, TimeAssumption, FaultsAssumption DEF Init, NotaryInit, TypeOK, NoReceipt
<1>2. ChainInv
  BY DEF Init, NotaryInit, ChainInv
<1>3. ReceiptInv
  BY DEF Init, NotaryInit, ReceiptInv
<1>4. TimeInv
  BY DEF Init, TimeInv, LastStored
<1>. QED  BY <1>1, <1>2, <1>3, <1>4 DEF IInv

\* A sequence that keeps its first elements and changes the rest.
LEMMA RewrittenChain ==
  ASSUME NEW n \in Nat, NEW k, NEW S, NEW e \in S,
         NEW s \in Seq(S), n <= Len(s)
  PROVE  LET t == [i \in 1..n |-> IF i < k THEN s[i] ELSE e]
         IN  t \in Seq(S) /\ Len(t) = n
OBVIOUS

LEMMA TypeAndChainStep ==
  ASSUME IInv, Next
  PROVE  TypeOK' /\ ChainInv'
<1> USE NotaryAssumption, TimeAssumption, FaultsAssumption
<1>0. TypeOK /\ ChainInv /\ ReceiptInv /\ TimeInv
  BY Zenon DEF IInv
<1>. USE <1>0
<1>1. CASE SweepNotDue
  BY <1>1 DEF SweepNotDue, TypeOK, ChainInv
<1>2. CASE Walk
  <2>1. Cardinality(Held) = Len(chain) - pruned /\ Cardinality(Held) \in 0..MaxRecords
    BY HeldCount
  <2>2. TypeOK'
    BY <1>2, <2>1 DEF Walk, TypeOK
  <2>3. ChainInv'
    BY <1>2, <2>1 DEF Walk, TypeOK, ChainInv
  <2>. QED  BY <2>2, <2>3
<1>3. CASE Send
  <2>1. Len(chain) \in 1..MaxRecords /\ chain[Len(chain)] \in 0..MaxRewrites
    BY <1>3 DEF Send, TypeOK, ChainInv
  <2>2. asked' \in Receipt
    BY <1>3, <2>1 DEF Send, TypeOK, Receipt, Hash
  <2>3. TypeOK'
    BY <1>3, <2>2 DEF Send, TypeOK
  <2>4. ChainInv'
    BY <1>3 DEF Send, ChainInv
  <2>. QED  BY <2>3, <2>4
<1>4. CASE SendEmpty
  BY <1>4 DEF SendEmpty, TypeOK, ChainInv
<1>5. CASE NotarySigns
  <2>1. asked \in Receipt
    BY <1>5 DEF NotarySigns, ReceiptInv
  <2>. QED  BY <1>5, <2>1 DEF NotarySigns, Issue, TypeOK, ChainInv
<1>6. CASE Store
  BY <1>6 DEF Store, TypeOK, ChainInv
<1>7. CASE Skipped
  BY <1>7 DEF Skipped, TypeOK, ChainInv
<1>8. CASE Restart
  BY <1>8 DEF Restart, TypeOK, ChainInv
<1>9. CASE Tick
  <2>1. UNCHANGED <<chain, pruned, edition, evidence, nextSweep, pc, counted, asked,
                    askedAt, stored, misses, restarts>>
    BY <1>9 DEF Tick, sweeping
  <2>2. now \in 0..MaxTime /\ now < MaxTime /\ now' = now + 1
    BY <1>9 DEF Tick, TypeOK
  <2>3. pc # "walked"
    BY <1>9 DEF Tick
  <2>4. pc = "idle" => now < nextSweep
    BY <1>9 DEF Tick
  <2>5. nextSweep \in now'..(now' + Hour)
    <3>1. nextSweep \in now..(now + Hour) /\ pc \in {"idle", "walked", "asking", "answered"}
          /\ askedAt \in 0..now
      BY DEF TypeOK
    <3>2. CASE pc = "idle"
      BY <2>2, <2>4, <3>1, <3>2
    <3>3. CASE pc \in {"asking", "answered"}
      <4>1. now < askedAt + Timeout
        BY <1>9, <3>3 DEF Tick
      <4>2. nextSweep = askedAt + Hour
        BY <3>3 DEF TimeInv
      <4>. QED  BY <2>2, <3>1, <4>1, <4>2
    <3>. QED  BY <2>3, <3>1, <3>2, <3>3
  <2>6. TypeOK'
    BY <2>1, <2>2, <2>5 DEF TypeOK
  <2>7. ChainInv'
    BY <2>1 DEF ChainInv
  <2>. QED  BY <2>6, <2>7
<1>10. CASE Recorded
  <2>1. Len(chain) < MaxRecords /\ chain' = Append(chain, edition)
    BY <1>10 DEF Recorded, Extend
  <2>2. UNCHANGED <<pruned, edition, evidence, now, sweeping>>
    BY <1>10 DEF Recorded, Extend
  <2>3. chain \in Seq(0..MaxRewrites) /\ edition \in 0..MaxRewrites /\ Len(chain) \in Nat
    BY DEF TypeOK
  <2>4. chain' \in Seq(0..MaxRewrites) /\ Len(chain') = Len(chain) + 1
    BY <2>1, <2>3
  <2>5. TypeOK'
    BY <2>1, <2>2, <2>4 DEF TypeOK, sweeping
  <2>6. \A n \in 1..Len(chain') : chain'[n] <= edition
    BY <2>1, <2>3, <2>4 DEF ChainInv
  <2>7. UNCHANGED <<pruned, edition, pc, counted>> /\ chain' # << >>
    BY <2>1, <2>2, <2>3 DEF sweeping
  <2>8. pruned' < Len(chain')
    BY <2>3, <2>4, <2>7 DEF ChainInv, TypeOK
  <2>9. ChainInv'
    BY <2>4, <2>6, <2>7, <2>8, <2>3 DEF ChainInv, TypeOK
  <2>. QED  BY <2>5, <2>9
<1>11. CASE Retained
  <2>1. PICK n \in (pruned + 1)..Len(chain) : n # Len(chain) /\ pruned' = n
    BY <1>11 DEF Retained, PruneOldest, Held
  <2>2. UNCHANGED <<chain, edition, evidence, now, sweeping>>
    BY <1>11 DEF Retained, PruneOldest
  <2>3. n \in 1..MaxRecords /\ n < Len(chain) /\ Len(chain) \in Nat
    BY <2>1 DEF TypeOK
  <2>4. TypeOK'
    BY <2>1, <2>2, <2>3 DEF TypeOK, sweeping
  <2>5. ChainInv'
    BY <2>1, <2>2, <2>3 DEF ChainInv, sweeping
  <2>. QED  BY <2>4, <2>5
<1>12. CASE Rewritten
  <2>1. PICK k \in Held :
          /\ RewriteFrom(k)
          /\ asked' = IF asked = NoReceipt THEN asked
                      ELSE [asked EXCEPT !.overtaken = @ \/ asked.head[1] >= k]
          /\ UNCHANGED <<now, nextSweep, pc, counted, askedAt, stored, misses, restarts>>
    BY <1>12, Zenon DEF Rewritten
  <2>2. PICK length \in {Len(chain) - 1, Len(chain)} :
          /\ length >= pruned + 1
          /\ chain' = [n \in 1..length |-> IF n < k THEN chain[n] ELSE edition']
    BY <2>1 DEF RewriteFrom
  <2>3. edition \in Nat /\ edition' = edition + 1 /\ edition' \in 0..MaxRewrites
    <3>1. edition < MaxRewrites /\ edition' = edition + 1
      BY <2>1, Zenon DEF RewriteFrom
    <3>2. edition \in 0..MaxRewrites
      BY DEF TypeOK
    <3>. QED  BY <3>1, <3>2
  <2>4. length \in Nat /\ length <= Len(chain) /\ pruned < length /\ Len(chain) \in Nat
    BY <2>2 DEF TypeOK
  <2>5. chain' \in Seq(0..MaxRewrites) /\ Len(chain') = length
    BY <2>2, <2>3, <2>4, RewrittenChain DEF TypeOK
  <2>6. \A r \in Receipt : [r EXCEPT !.overtaken = @ \/ r.head[1] >= k] \in Receipt
    BY DEF Receipt
  <2>7. evidence' \subseteq Receipt
    BY <2>1, <2>6, Zenon DEF RewriteFrom, Overtake, TypeOK
  <2>8. asked' \in Receipt \cup {NoReceipt}
    BY <2>1, <2>6, Zenon DEF TypeOK
  <2>9. pruned' = pruned
    BY <2>1 DEF RewriteFrom
  <2>10. TypeOK'
    <3>1. UNCHANGED <<now, nextSweep, pc, counted, askedAt, stored, misses, restarts>>
      BY <2>1, Zenon
    <3>2. Len(chain') <= MaxRecords
      BY <2>4, <2>5 DEF TypeOK
    <3>. QED  BY <2>3, <2>5, <2>7, <2>8, <2>9, <3>1, <3>2 DEF TypeOK
  <2>11. \A n \in 1..Len(chain') : chain'[n] <= edition'
    <3>1. \A n \in 1..length : chain'[n] = IF n < k THEN chain[n] ELSE edition'
      BY <2>2
    <3>2. \A n \in 1..length : chain[n] <= edition /\ chain[n] \in Nat
      BY <2>4 DEF ChainInv, TypeOK
    <3>. QED  BY <2>3, <2>5, <3>1, <3>2
  <2>12. ChainInv'
    <3>1. pc' = pc /\ counted' = counted
      BY <2>1, Zenon
    <3>2. pruned' < Len(chain') /\ chain' # << >>
      BY <2>4, <2>5, <2>9 DEF TypeOK
    <3>3. pruned' <= Len(chain')
      BY <2>4, <2>5, <2>9 DEF TypeOK
    <3>. QED  BY <2>11, <3>1, <3>2, <3>3, Zenon DEF ChainInv
  <2>. QED  BY <2>10, <2>12
<1>. QED  BY <1>1, <1>2, <1>3, <1>4, <1>5, <1>6, <1>7, <1>8, <1>9, <1>10, <1>11, <1>12 DEF Next

-----------------------------------------------------------------------------
(* Receipts and the editions of history.                                   *)

\* A receipt stays true of a chain that is only continued.
LEMMA FitsExtended ==
  ASSUME TypeOK, Extend, NEW r \in Receipt, ReceiptFits(r)
  PROVE  ReceiptFits(r)'
<1>1. chain' = Append(chain, edition) /\ edition' = edition
  BY DEF Extend
<1>2. chain \in Seq(0..MaxRewrites) /\ Len(chain) \in Nat
  BY DEF TypeOK
<1>3. /\ Len(chain') = Len(chain) + 1
      /\ \A n \in 1..Len(chain') : chain'[n] = IF n = Len(chain) + 1 THEN edition ELSE chain[n]
  BY <1>1, <1>2
<1>4. r.head[2] <= edition'
  BY <1>1 DEF ReceiptFits
<1>5. ASSUME r.overtaken
      PROVE  /\ r.head[2] < edition'
             /\ \A n \in 1..Len(chain') : n = r.head[1] => chain'[n] # r.head[2]
  <2>1. r.head[2] < edition /\ \A n \in 1..Len(chain) : n = r.head[1] => chain[n] # r.head[2]
    BY <1>5 DEF ReceiptFits
  <2>2. r.head[2] \in Int /\ edition \in Int /\ r.head[2] # edition
    BY <2>1, NotaryAssumption DEF TypeOK, Receipt
  <2>3. \A n \in 1..Len(chain') : n # Len(chain) + 1 => n \in 1..Len(chain)
    BY <1>2, <1>3
  <2>. QED  BY <1>1, <1>3, <2>1, <2>2, <2>3
<1>. QED  BY <1>4, <1>5 DEF ReceiptFits

\* A receipt whose record is written again knows that it is overtaken, and no
\* record of the new edition is its own.
LEMMA FitsRewritten ==
  ASSUME TypeOK, ChainInv, NEW k \in Held, RewriteFrom(k),
         NEW r \in Receipt, ReceiptFits(r)
  PROVE  ReceiptFits([r EXCEPT !.overtaken = @ \/ r.head[1] >= k])'
<1> DEFINE q == [r EXCEPT !.overtaken = @ \/ r.head[1] >= k]
<1>1. PICK length \in {Len(chain) - 1, Len(chain)} :
        chain' = [n \in 1..length |-> IF n < k THEN chain[n] ELSE edition']
  BY DEF RewriteFrom
<1>2. length \in 0..Len(chain) /\ Len(chain) \in Nat /\ k \in Int
  BY DEF TypeOK, Held, RewriteFrom
<1>3. Len(chain') = length /\ \A n \in 1..length : chain'[n] = IF n < k THEN chain[n] ELSE edition'
  BY <1>1, <1>2
<1>4. q.head = r.head /\ q.overtaken = (r.overtaken \/ r.head[1] >= k)
  BY DEF Receipt
<1>5. r.head[2] \in Int /\ edition' = edition + 1 /\ edition \in Int /\ r.head[1] \in Int
  BY NotaryAssumption DEF TypeOK, RewriteFrom, Receipt
<1>6. r.head[2] <= edition
  BY DEF ReceiptFits
<1>7. q.head[2] < edition'
  BY <1>4, <1>5, <1>6
<1>8. ASSUME q.overtaken, NEW n \in 1..Len(chain'), n = q.head[1]
      PROVE  chain'[n] # q.head[2]
  <2>1. CASE n < k
    <3>0. q.head[1] = r.head[1]
      BY <1>4
    <3>1. ~(r.head[1] >= k)
      BY <1>2, <1>5, <1>8, <2>1, <3>0
    <3>2. r.overtaken
      BY <1>4, <1>8, <3>1, Zenon
    <3>3. n \in 1..Len(chain) /\ chain'[n] = chain[n]
      BY <1>2, <1>3, <2>1
    <3>. QED  BY <1>4, <1>8, <3>2, <3>3 DEF ReceiptFits
  <2>2. CASE ~(n < k)
    BY <1>3, <1>4, <1>5, <1>7, <2>2
  <2>. QED  BY <2>1, <2>2
<1>9. q.head[2] <= edition'
  BY <1>4, <1>5, <1>7
<1>. QED  BY <1>7, <1>8, <1>9 DEF ReceiptFits

LEMMA ReceiptStep ==
  ASSUME IInv, Next
  PROVE  ReceiptInv'
<1>0. TypeOK /\ ChainInv /\ ReceiptInv
  BY Zenon DEF IInv
<1>. USE <1>0
<1>1. CASE SweepNotDue
  BY <1>1 DEF SweepNotDue, ReceiptInv, ReceiptFits
<1>2. CASE Walk
  BY <1>2 DEF Walk, ReceiptInv, ReceiptFits
<1>3. CASE Send
  <2>1. Len(chain) \in 1..MaxRecords /\ chain[Len(chain)] \in 0..MaxRewrites
    BY <1>3, NotaryAssumption DEF Send, TypeOK, ChainInv
  <2>2. /\ asked' \in Receipt
        /\ asked'.head[2] = chain[Len(chain)]
        /\ asked'.overtaken = FALSE
    BY <1>3, <2>1 DEF Send, TypeOK, Receipt, Hash
  <2>3. chain[Len(chain)] <= edition
    BY <2>1 DEF ChainInv
  <2>4. ReceiptFits(asked)'
    BY <1>3, <2>2, <2>3 DEF Send, ReceiptFits
  <2>5. asked' # NoReceipt
    BY <2>1, <2>2 DEF Receipt, NoReceipt
  <2>6. \A r \in evidence' : ReceiptFits(r)'
    BY <1>3 DEF Send, ReceiptInv, ReceiptFits
  <2>. QED  BY <2>2, <2>4, <2>5, <2>6, Zenon DEF ReceiptInv
<1>4. CASE SendEmpty
  BY <1>4 DEF SendEmpty, ReceiptInv, ReceiptFits
<1>5. CASE NotarySigns
  BY <1>5 DEF NotarySigns, Issue, ReceiptInv, ReceiptFits
<1>6. CASE Store
  BY <1>6 DEF Store, ReceiptInv, ReceiptFits
<1>7. CASE Skipped
  BY <1>7 DEF Skipped, ReceiptInv, ReceiptFits
<1>8. CASE Restart
  BY <1>8 DEF Restart, ReceiptInv, ReceiptFits
<1>9. CASE Tick
  BY <1>9 DEF Tick, sweeping, ReceiptInv, ReceiptFits
<1>10. CASE Recorded
  <2>1. Extend /\ UNCHANGED <<evidence, asked, pc>>
    BY <1>10 DEF Recorded, Extend, sweeping
  <2>2. \A r \in Receipt : ReceiptFits(r) => ReceiptFits(r)'
    BY <2>1, FitsExtended, Zenon
  <2>3. \A r \in evidence' : ReceiptFits(r)'
    BY <2>1, <2>2, Zenon DEF ReceiptInv, TypeOK
  <2>4. asked # NoReceipt => asked \in Receipt /\ ReceiptFits(asked)
    BY Zenon DEF ReceiptInv
  <2>5. asked' # NoReceipt => asked' \in Receipt /\ ReceiptFits(asked)'
    <3>. SUFFICES ASSUME asked # NoReceipt PROVE asked \in Receipt /\ ReceiptFits(asked)'
      BY <2>1
    <3>1. asked \in Receipt /\ ReceiptFits(asked)
      BY <2>4
    <3>2. PICK r \in Receipt : r = asked
      BY <3>1
    <3>3. ReceiptFits(r)'
      BY <2>2, <3>1, <3>2
    <3>4. asked' = r
      BY <2>1, <3>2
    <3>. QED  BY <3>1, <3>3, <3>4 DEF ReceiptFits
  <2>. QED  BY <2>1, <2>3, <2>5 DEF ReceiptInv
<1>11. CASE Retained
  BY <1>11 DEF Retained, PruneOldest, sweeping, ReceiptInv, ReceiptFits
<1>12. CASE Rewritten
  <2>1. PICK k \in Held :
          /\ RewriteFrom(k)
          /\ asked' = IF asked = NoReceipt THEN asked
                      ELSE [asked EXCEPT !.overtaken = @ \/ asked.head[1] >= k]
          /\ pc' = pc
    BY <1>12, Zenon DEF Rewritten
  <2>. DEFINE q(r) == [r EXCEPT !.overtaken = @ \/ r.head[1] >= k]
  <2>2. \A r \in Receipt : q(r) \in Receipt /\ q(r) # NoReceipt
    BY DEF Receipt, NoReceipt
  <2>3. \A r \in Receipt : ReceiptFits(r) => ReceiptFits(q(r))'
    BY <2>1, FitsRewritten, Zenon
  <2>4. \A r \in evidence' : ReceiptFits(r)'
    <3>1. evidence' = {q(r) : r \in evidence}
      BY <2>1, Zenon DEF RewriteFrom, Overtake
    <3>. SUFFICES ASSUME NEW s \in evidence' PROVE ReceiptFits(s)'
      OBVIOUS
    <3>2. PICK r \in evidence : s = q(r)
      BY <3>1, Zenon
    <3>3. r \in Receipt /\ ReceiptFits(r)
      BY Zenon DEF ReceiptInv, TypeOK
    <3>. QED  BY <2>3, <3>2, <3>3, Zenon
  <2>5. asked' # NoReceipt => asked' \in Receipt /\ ReceiptFits(asked)'
    <3>. SUFFICES ASSUME asked' # NoReceipt PROVE asked' \in Receipt /\ ReceiptFits(asked)'
      OBVIOUS
    <3>1. asked # NoReceipt
      BY <2>1, Zenon
    <3>2. PICK r \in Receipt : r = asked /\ ReceiptFits(r)
      BY <3>1, Zenon DEF ReceiptInv
    <3>3. asked' = q(r)
      BY <2>1, <3>1, <3>2, Zenon
    <3>4. PICK s \in Receipt : s = q(r) /\ ReceiptFits(s)'
      BY <2>2, <2>3, <3>2, Zenon
    <3>5. asked' = s
      BY <3>3, <3>4, Zenon
    <3>. QED  BY <3>4, <3>5 DEF ReceiptFits
  <2>6. pc' \in {"asking", "answered"} => asked' # NoReceipt
    <3>. SUFFICES ASSUME pc \in {"asking", "answered"} PROVE asked' # NoReceipt
      BY <2>1
    <3>1. asked # NoReceipt /\ asked \in Receipt
      BY DEF ReceiptInv
    <3>2. asked' = q(asked)
      BY <2>1, <3>1, Zenon
    <3>. QED  BY <2>2, <3>1, <3>2, Zenon
  <2>. QED  BY <2>4, <2>5, <2>6 DEF ReceiptInv
<1>. QED  BY <1>1, <1>2, <1>3, <1>4, <1>5, <1>6, <1>7, <1>8, <1>9, <1>10, <1>11, <1>12 DEF Next

-----------------------------------------------------------------------------
(* What a receipt says of the chain.                                       *)

\* The receipts there are, the one the notary is being asked for included.
Receipts == evidence \cup ({asked} \ {NoReceipt})

\* Unless history up to it was rewritten, the head is where it was, and what
\* retention took since is from below it.
Honest(r) ==
  ~r.overtaken =>
    /\ r.head[1] <= Len(chain) /\ chain[r.head[1]] = r.head[2]
    /\ r.prunedThen <= pruned /\ r.prunedThen < r.head[1]
    /\ r.exact => r.claimed = r.head[1] - r.prunedThen

HonestInv == \A r \in Receipts : Honest(r)

LEMMA ReceiptsTyped ==
  ASSUME TypeOK
  PROVE  Receipts \subseteq Receipt
BY Zenon DEF Receipts, TypeOK

\* A step that leaves the chain alone and adds no receipt has nothing to show.
LEMMA HonestUnchanged ==
  ASSUME HonestInv, UNCHANGED <<chain, pruned>>, Receipts' \subseteq Receipts
  PROVE  HonestInv'
BY DEF HonestInv, Honest

\* A record is added behind the head, or older ones are pruned.
LEMMA HonestContinued ==
  ASSUME TypeOK, NEW r \in Receipt, Honest(r), Extend \/ PruneOldest
  PROVE  Honest(r)'
<1>1. /\ chain \in Seq(0..MaxRewrites) /\ Len(chain) \in Nat
      /\ pruned \in Int /\ r.prunedThen \in Int /\ r.head[1] \in Nat \ {0}
  BY NotaryAssumption DEF TypeOK, Receipt
<1>2. CASE Extend
  <2>1. chain' = Append(chain, edition) /\ pruned' = pruned
    BY <1>2 DEF Extend
  <2>2. /\ Len(chain') = Len(chain) + 1
        /\ \A n \in 1..Len(chain) : chain'[n] = chain[n]
    BY <1>1, <2>1
  <2>. QED  BY <1>1, <2>1, <2>2 DEF Honest
<1>3. CASE PruneOldest
  <2>1. chain' = chain /\ pruned' \in Int /\ pruned < pruned'
    BY <1>1, <1>3 DEF PruneOldest, Held
  <2>. QED  BY <1>1, <2>1 DEF Honest
<1>. QED  BY <1>2, <1>3

\* A head below the record that is rewritten stays where it is.
LEMMA HonestRewritten ==
  ASSUME TypeOK, NEW k \in Held, RewriteFrom(k), NEW r \in Receipt, Honest(r)
  PROVE  Honest([r EXCEPT !.overtaken = @ \/ r.head[1] >= k])'
<1> DEFINE q == [r EXCEPT !.overtaken = @ \/ r.head[1] >= k]
<1>1. PICK length \in {Len(chain) - 1, Len(chain)} :
        chain' = [n \in 1..length |-> IF n < k THEN chain[n] ELSE edition']
  BY DEF RewriteFrom
<1>2. /\ length \in 0..Len(chain) /\ Len(chain) \in Nat /\ Len(chain) - 1 <= length
      /\ k \in Int /\ k <= Len(chain) /\ pruned' = pruned
  BY DEF TypeOK, Held, RewriteFrom
<1>3. Len(chain') = length /\ \A n \in 1..length : chain'[n] = IF n < k THEN chain[n] ELSE edition'
  BY <1>1, <1>2
<1>4. /\ q.head = r.head /\ q.overtaken = (r.overtaken \/ r.head[1] >= k)
      /\ q.prunedThen = r.prunedThen /\ q.exact = r.exact /\ q.claimed = r.claimed
  BY DEF Receipt
<1>5. r.head[1] \in Nat \ {0}
  BY NotaryAssumption DEF Receipt
<1>. SUFFICES ASSUME ~q.overtaken
              PROVE  /\ r.head[1] <= Len(chain') /\ chain'[r.head[1]] = r.head[2]
                     /\ r.prunedThen <= pruned' /\ r.prunedThen < r.head[1]
                     /\ r.exact => r.claimed = r.head[1] - r.prunedThen
  BY <1>4, Zenon DEF Honest
<1>6. ~r.overtaken /\ ~(r.head[1] >= k)
  BY <1>4, Zenon
<1>7. r.head[1] < k /\ r.head[1] \in 1..length
  BY <1>2, <1>5, <1>6
<1>8. /\ chain[r.head[1]] = r.head[2]
      /\ r.prunedThen <= pruned /\ r.prunedThen < r.head[1]
      /\ r.exact => r.claimed = r.head[1] - r.prunedThen
  BY <1>6, Zenon DEF Honest
<1>9. chain'[r.head[1]] = chain[r.head[1]]
  BY <1>3, <1>7
<1>. QED  BY <1>2, <1>3, <1>7, <1>8, <1>9

\* Every step preserves HonestInv.
LEMMA HonestStep ==
  ASSUME IInv, HonestInv, Next
  PROVE  HonestInv'
<1>0. TypeOK /\ ChainInv /\ ReceiptInv
  BY Zenon DEF IInv
<1>1. CASE Send
  <2>1. /\ chain # << >> /\ pruned < Len(chain) /\ Len(chain) \in Nat /\ pruned \in Nat
        /\ Cardinality(Held) = Len(chain) - pruned
    BY <1>0, <1>1, HeldCount DEF Send, ChainInv, TypeOK
  <2>2. asked' = [head |-> <<Len(chain), chain[Len(chain)]>>, claimed |-> counted,
                  exact |-> counted = Len(chain) - pruned,
                  prunedThen |-> pruned, overtaken |-> FALSE]
    BY <1>1, <2>1 DEF Send, Hash
  <2>3. UNCHANGED <<chain, pruned, evidence>>
    BY <1>1 DEF Send
  <2>4. /\ asked'.head[1] = Len(chain) /\ asked'.head[2] = chain[Len(chain)]
        /\ asked'.prunedThen = pruned
        /\ asked'.exact => asked'.claimed = Len(chain) - pruned
    BY <2>2
  <2>5. Honest(asked)'
    BY <2>1, <2>3, <2>4 DEF Honest
  <2>6. \A r \in evidence' : Honest(r)'
    BY <2>3 DEF HonestInv, Honest, Receipts
  <2>. QED  BY <2>5, <2>6, Zenon DEF HonestInv, Receipts
<1>2. CASE NotarySigns
  <2>1. asked # NoReceipt
    BY <1>0, <1>2 DEF NotarySigns, ReceiptInv
  <2>. QED  BY <1>2, <2>1, HonestUnchanged DEF NotarySigns, Issue, Receipts
<1>3. CASE Recorded \/ Retained
  <2>1. (Extend \/ PruneOldest) /\ UNCHANGED <<evidence, asked>>
    BY <1>3 DEF Recorded, Retained, Extend, PruneOldest, sweeping
  <2>2. Receipts' = Receipts
    BY <2>1 DEF Receipts
  <2>3. \A r \in Receipts : r \in Receipt /\ Honest(r)
    BY <1>0, ReceiptsTyped, Zenon DEF HonestInv
  <2>4. \A r \in Receipts : Honest(r)'
    BY <1>0, <2>1, <2>3, HonestContinued, Zenon
  <2>. QED  BY <2>2, <2>4 DEF HonestInv
<1>4. CASE Rewritten
  <2>1. PICK k \in Held :
          /\ RewriteFrom(k)
          /\ asked' = IF asked = NoReceipt THEN asked
                      ELSE [asked EXCEPT !.overtaken = @ \/ asked.head[1] >= k]
    BY <1>4, Zenon DEF Rewritten
  <2>. DEFINE q(r) == [r EXCEPT !.overtaken = @ \/ r.head[1] >= k]
  <2>2. \A s \in Receipts' : \E r \in Receipts : s = q(r)
    BY <2>1, Zenon DEF Receipts, RewriteFrom, Overtake
  <2>3. \A r \in Receipts : r \in Receipt /\ Honest(r)
    BY <1>0, ReceiptsTyped, Zenon DEF HonestInv
  <2>4. \A r \in Receipts : Honest(q(r))'
    BY <1>0, <2>1, <2>3, HonestRewritten, Zenon
  <2>. SUFFICES ASSUME NEW s \in Receipts' PROVE Honest(s)'
    BY DEF HonestInv
  <2>5. PICK r \in Receipts : s = q(r)
    BY <2>2, Zenon
  <2>. QED  BY <2>4, <2>5, Zenon
<1>5. CASE SweepNotDue
  BY <1>5, HonestUnchanged DEF SweepNotDue, Receipts
<1>6. CASE Walk
  BY <1>6, HonestUnchanged DEF Walk, Receipts
<1>7. CASE SendEmpty
  BY <1>7, HonestUnchanged DEF SendEmpty, Receipts
<1>8. CASE Store
  BY <1>8, HonestUnchanged DEF Store, Receipts
<1>9. CASE Skipped
  BY <1>9, HonestUnchanged DEF Skipped, Receipts
<1>10. CASE Restart
  BY <1>10, HonestUnchanged DEF Restart, Receipts
<1>11. CASE Tick
  BY <1>11, HonestUnchanged DEF Tick, sweeping, Receipts
<1>. QED  BY <1>1, <1>2, <1>3, <1>4, <1>5, <1>6, <1>7, <1>8, <1>9, <1>10, <1>11 DEF Next

-----------------------------------------------------------------------------
(* How far ahead the timer is set, wherever the sweep is.                  *)

\* The part of TimeInv that speaks of the row the next decision is made from.
RowInv ==
  stored # << >> =>
    /\ LastStored <= now
    /\ pc = "idle"   => nextSweep <= LastStored + Limit
    /\ pc # "idle"   => /\ nextSweep <= LastStored + Limit + Hour
                        /\ now - LastStored >= Interval * Hour
    /\ pc = "walked" => now <= LastStored + Limit
    /\ pc \in {"asking", "answered"} => askedAt <= LastStored + Limit

\* A step that writes no row keeps TimeInv when it keeps the rest of it.
LEMMA TimeWithoutRow ==
  ASSUME TimeInv, stored' = stored, RowInv',
         pc' # "idle" => Interval >= 0,
         pc' = "walked" => nextSweep' = now' + Hour,
         pc' \in {"asking", "answered"} => nextSweep' = askedAt' + Hour /\ now' <= askedAt' + Timeout
  PROVE  TimeInv'
BY DEF TimeInv, RowInv

LEMMA TimeStep ==
  ASSUME IInv, Next
  PROVE  TimeInv'
<1>0. TypeOK /\ TimeInv
  BY Zenon DEF IInv
<1> DEFINE L == Limit
           I == Interval * Hour
<1>a. /\ L \in Int /\ I \in Int
      /\ Hour \in Nat \ {0} /\ Timeout \in Nat /\ Timeout < Hour
      /\ Interval >= 0 => L >= I + Hour /\ I >= 0
      /\ (Interval + 1 + (misses + 1)) * Hour = L + Hour
  BY <1>0, LimitFacts DEF TypeOK
<1>b. /\ now \in Nat /\ nextSweep \in Int /\ now <= nextSweep /\ nextSweep <= now + Hour
      /\ askedAt \in Int /\ askedAt <= now
      /\ pc \in {"idle", "walked", "asking", "answered"}
      /\ misses \in Nat
      /\ stored \in Seq(0..MaxTime)
  BY <1>0, TimeAssumption DEF TypeOK
<1>c. stored # << >> => LastStored \in Int
  BY <1>b, TimeAssumption DEF LastStored
<1>d. /\ pc # "idle" \/ stored # << >> => Interval >= 0
      /\ pc = "walked" => nextSweep = now + Hour
      /\ pc \in {"asking", "answered"} => nextSweep = askedAt + Hour /\ now <= askedAt + Timeout
      /\ RowInv
  BY <1>0, Zenon DEF TimeInv, RowInv
<1>e. stored # << >> =>
        /\ LastStored <= now
        /\ pc = "idle"   => nextSweep <= LastStored + L
        /\ pc # "idle"   => nextSweep <= LastStored + L + Hour /\ now - LastStored >= I
        /\ pc = "walked" => now <= LastStored + L
        /\ pc \in {"asking", "answered"} => askedAt <= LastStored + L
  BY <1>d DEF RowInv
<1>f. misses' = misses => Limit' = L
  BY DEF Limit
<1>g. misses' = misses + 1 => Limit' = L + Hour
  BY <1>a DEF Limit
<1>h. stored' = stored => LastStored' = LastStored
  BY DEF LastStored
<1>. HIDE DEF L, I
<1>k. ASSUME UNCHANGED <<now, nextSweep, pc, askedAt, stored, misses>>
      PROVE  TimeInv'
  BY <1>0, <1>k DEF TimeInv, LastStored, Limit
<1>m. ASSUME stored' = stored,
             stored # << >> =>
               /\ LastStored <= now'
               /\ pc' = "idle"   => nextSweep' <= LastStored + Limit'
               /\ pc' # "idle"   => nextSweep' <= LastStored + Limit' + Hour /\ now' - LastStored >= I
               /\ pc' = "walked" => now' <= LastStored + Limit'
               /\ pc' \in {"asking", "answered"} => askedAt' <= LastStored + Limit'
      PROVE  RowInv'
  BY <1>h, <1>m DEF RowInv, I
<1>1. CASE SweepNotDue
  <2>1. UNCHANGED <<now, pc, askedAt, stored, misses>> /\ pc = "idle" /\ nextSweep' = now + Hour /\ ~Due
    BY <1>1 DEF SweepNotDue
  <2>2. stored # << >> => now - LastStored < I
    BY <1>a, <1>b, <1>c, <1>d, <2>1 DEF Due, I
  <2>3. RowInv'
    BY <1>a, <1>b, <1>c, <1>d, <1>e, <1>f, <1>m, <2>1, <2>2
  <2>. QED  BY <1>0, <2>1, <2>3, TimeWithoutRow
<1>2. CASE Walk
  <2>1. UNCHANGED <<now, askedAt, stored, misses>> /\ pc = "idle" /\ pc' = "walked"
        /\ now = nextSweep /\ nextSweep' = now + Hour /\ Due
    BY <1>2 DEF Walk
  <2>2. Interval >= 0 /\ (stored # << >> => now - LastStored >= I)
    BY <2>1 DEF Due, I
  <2>3. RowInv'
    BY <1>a, <1>b, <1>c, <1>e, <1>f, <1>m, <2>1, <2>2
  <2>. QED  BY <1>0, <2>1, <2>2, <2>3, TimeWithoutRow
<1>3. CASE Send
  <2>1. UNCHANGED <<now, nextSweep, stored, misses>> /\ pc = "walked" /\ pc' = "asking" /\ askedAt' = now
    BY <1>3 DEF Send
  <2>2. RowInv'
    BY <1>a, <1>b, <1>c, <1>e, <1>f, <1>m, <2>1
  <2>. QED  BY <1>0, <1>a, <1>b, <1>d, <2>1, <2>2, TimeWithoutRow
<1>4. CASE SendEmpty
  <2>1. UNCHANGED <<now, nextSweep, stored, askedAt>> /\ pc = "walked" /\ pc' = "idle" /\ misses' = misses + 1
    BY <1>4 DEF SendEmpty
  <2>2. RowInv'
    BY <1>a, <1>b, <1>c, <1>e, <1>g, <1>m, <2>1
  <2>. QED  BY <1>0, <2>1, <2>2, TimeWithoutRow
<1>5. CASE NotarySigns
  <2>1. UNCHANGED <<now, nextSweep, stored, askedAt, misses>> /\ pc = "asking" /\ pc' = "answered"
    BY <1>5 DEF NotarySigns
  <2>2. RowInv'
    BY <1>e, <1>f, <1>m, <2>1
  <2>. QED  BY <1>0, <1>d, <2>1, <2>2, TimeWithoutRow
<1>6. CASE Store
  <2>1. UNCHANGED <<now, nextSweep, askedAt>> /\ pc = "answered" /\ pc' = "idle" /\ misses' = 0
        /\ stored' = Append(stored, now)
    BY <1>6 DEF Store
  <2>2. now \in 0..MaxTime
    BY <1>0 DEF TypeOK
  <2>3. /\ Len(stored') = Len(stored) + 1 /\ stored' # << >> /\ Len(stored) \in Nat
        /\ stored'[Len(stored) + 1] = now
        /\ \A i \in 1..Len(stored) : stored'[i] = stored[i]
    BY <1>b, <2>1, <2>2
  <2>4. LastStored' = now
    BY <2>3 DEF LastStored
  <2>5. Interval >= 0 /\ Interval \in Int
    BY <1>d, <2>1, IntervalType
  <2>6. Limit' = I + Hour
    <3>1. Interval + 1 + 0 = Interval + 1
      BY <2>5
    <3>2. (Interval + 1) * Hour = I + Hour
      BY <2>5, OneHourMore DEF I
    <3>. QED  BY <2>1, <3>1, <3>2 DEF Limit
  <2>7. \A i \in 2..Len(stored') : stored'[i] - stored'[i - 1] >= I
    <3>. SUFFICES ASSUME NEW i \in 2..Len(stored') PROVE stored'[i] - stored'[i - 1] >= I
      OBVIOUS
    <3>1. CASE i = Len(stored) + 1
      <4>1. stored # << >> /\ i - 1 = Len(stored) /\ i - 1 \in 1..Len(stored)
        BY <1>b, <2>3, <3>1
      <4>2. stored'[i - 1] = LastStored
        BY <2>3, <4>1 DEF LastStored
      <4>. QED  BY <1>e, <2>1, <2>3, <3>1, <4>1, <4>2
    <3>2. CASE i # Len(stored) + 1
      <4>1. i \in 2..Len(stored) /\ i \in 1..Len(stored) /\ i - 1 \in 1..Len(stored)
        BY <2>3, <3>2
      <4>2. stored[i] - stored[i - 1] >= I
        BY <1>0, <4>1 DEF TimeInv, I
      <4>. QED  BY <2>3, <4>1, <4>2
    <3>. QED  BY <3>1, <3>2
  <2>8. RowInv'
    <3>1. nextSweep' <= LastStored' + Limit'
      BY <1>a, <1>b, <2>1, <2>4, <2>5, <2>6
    <3>. QED  BY <1>b, <2>1, <2>4, <3>1 DEF RowInv
  <2>. QED  BY <2>1, <2>5, <2>7, <2>8 DEF TimeInv, RowInv, I
<1>7. CASE Skipped
  <2>1. UNCHANGED <<now, nextSweep, stored, askedAt>> /\ pc # "idle" /\ pc' = "idle" /\ misses' = misses + 1
    BY <1>7 DEF Skipped
  <2>2. RowInv'
    BY <1>a, <1>b, <1>c, <1>e, <1>g, <1>m, <2>1
  <2>. QED  BY <1>0, <2>1, <2>2, TimeWithoutRow
<1>8. CASE Restart
  <2>1. UNCHANGED <<now, stored, askedAt>> /\ pc' = "idle" /\ nextSweep' = now
        /\ misses' = IF pc = "idle" THEN misses ELSE misses + 1
    BY <1>8 DEF Restart
  <2>2. RowInv'
    <3>1. CASE pc = "idle"
      BY <1>a, <1>b, <1>c, <1>e, <1>f, <1>m, <2>1, <3>1
    <3>2. CASE pc # "idle"
      BY <1>a, <1>b, <1>c, <1>e, <1>g, <1>m, <2>1, <3>2
    <3>. QED  BY <3>1, <3>2
  <2>. QED  BY <1>0, <2>1, <2>2, TimeWithoutRow
<1>9. CASE Tick
  <2>1. UNCHANGED <<nextSweep, pc, askedAt, stored, misses>> /\ now' = now + 1 /\ pc # "walked"
        /\ (pc \in {"asking", "answered"} => now < askedAt + Timeout)
    BY <1>9 DEF Tick, sweeping
  <2>2. RowInv'
    BY <1>a, <1>b, <1>c, <1>e, <1>f, <1>m, <2>1
  <2>. QED  BY <1>0, <1>a, <1>b, <1>d, <2>1, <2>2, TimeWithoutRow
<1>10. CASE Recorded
  BY <1>10, <1>k DEF Recorded, sweeping
<1>11. CASE Retained
  BY <1>11, <1>k DEF Retained, sweeping
<1>12. CASE Rewritten
  BY <1>12, <1>k, Zenon DEF Rewritten
<1>. QED  BY <1>1, <1>2, <1>3, <1>4, <1>5, <1>6, <1>7, <1>8, <1>9, <1>10, <1>11, <1>12 DEF Next

-----------------------------------------------------------------------------
(* The theorems.                                                           *)

LEMMA IInvStep == IInv /\ [Next]_vars => IInv'
<1>1. ASSUME IInv, Next PROVE IInv'
  BY <1>1, TypeAndChainStep, ReceiptStep, TimeStep, Zenon DEF IInv
<1>2. ASSUME IInv, UNCHANGED vars PROVE IInv'
  BY <1>2 DEF IInv, vars, sweeping, TypeOK, ChainInv, ReceiptInv, ReceiptFits,
              TimeInv, LastStored, Limit
<1>. QED  BY <1>1, <1>2, Zenon

\* Every state the witnessing reaches satisfies the inductive invariant.
THEOREM WitnessInvariant == Spec => []IInv
BY InitInv, IInvStep, PTL DEF Spec

\* Every variable keeps its type (Witness.tla).
THEOREM WitnessTypeOK == Spec => []TypeOK
<1>1. IInv => TypeOK
  BY Zenon DEF IInv
<1>. QED  BY <1>1, WitnessInvariant, PTL

\* No audit finds in its place a head whose history was dropped or altered, for
\* any number of records, of rewrites and of receipts (auditAgainstReceipts).
THEOREM WitnessRewriteIsCaught == Spec => []RewriteIsCaught
<1>1. ASSUME IInv, NEW r \in evidence, r.overtaken
      PROVE  Finding(r) # "PRESENT" /\ ~Consistent(evidence)
  <2>1. TypeOK /\ ChainInv /\ ReceiptFits(r) /\ r \in Receipt
    BY <1>1, Zenon DEF IInv, ReceiptInv, TypeOK
  <2>2. \A n \in 1..Len(chain) : Hash(n) # r.head
    BY <1>1, <2>1 DEF ReceiptFits, Hash
  <2>3. \A n \in Held : n \in 1..Len(chain)
    BY <2>1 DEF Held, TypeOK
  <2>4. FoundAt(r) = 0
    BY <2>2, <2>3, Zenon DEF FoundAt
  <2>5. Finding(r) = "MISSING"
    BY <2>4, Zenon DEF Finding
  <2>6. Finding(r) # "PRESENT"
    BY <2>5
  <2>. QED  BY <1>1, <2>6, Zenon DEF Consistent
<1>2. IInv => RewriteIsCaught
  BY <1>1, Zenon DEF RewriteIsCaught
<1>. QED  BY <1>2, WitnessInvariant, PTL

\* An audit finds an honest chain's witnessed head in its place, for any number
\* of records and receipts and wherever the witnessing failed, provided that the
\* length posted with it was its place and that nothing was pruned since
\* (sweepWitness, auditAgainstReceipts).
THEOREM WitnessHonestPasses == Spec => []HonestPasses
<1>1. Init => HonestInv
  BY DEF Init, NotaryInit, HonestInv, Receipts
<1>2. IInv /\ HonestInv /\ [Next]_vars => HonestInv'
  <2>1. ASSUME HonestInv, UNCHANGED vars PROVE HonestInv'
    BY <2>1, HonestUnchanged DEF vars, sweeping, Receipts
  <2>. QED  BY <2>1, HonestStep
<1>3. ASSUME IInv, HonestInv, NEW r \in evidence, ~r.overtaken, r.exact, r.prunedThen = pruned
      PROVE  Finding(r) = "PRESENT"
  <2>1. r \in Receipt /\ pruned \in Nat /\ Len(chain) \in Nat
    BY <1>3, NotaryAssumption DEF IInv, TypeOK
  <2>2. /\ r.head[1] \in Nat /\ r.head[1] <= Len(chain) /\ chain[r.head[1]] = r.head[2]
        /\ pruned < r.head[1] /\ r.claimed = r.head[1] - pruned
        /\ r.head = <<r.head[1], r.head[2]>>
    BY <1>3, <2>1, NotaryAssumption DEF HonestInv, Receipts, Honest, Receipt
  <2>3. r.head[1] \in Held /\ Hash(r.head[1]) = r.head
    BY <2>1, <2>2 DEF Held, Hash
  <2>4. \A n \in Held : Hash(n) = r.head => n = r.head[1]
    BY <2>2 DEF Hash
  <2>5. (CHOOSE n \in Held : Hash(n) = r.head) = r.head[1]
    BY <2>3, <2>4, Zenon
  <2>6. FoundAt(r) = r.head[1] - pruned
    BY <2>3, <2>5, Zenon DEF FoundAt
  <2>7. FoundAt(r) = r.claimed /\ FoundAt(r) # 0
    BY <2>1, <2>2, <2>6
  <2>. QED  BY <2>7, Zenon DEF Finding
<1>4. IInv /\ HonestInv => HonestPasses
  BY <1>3, Zenon DEF HonestPasses
<1>. QED  BY <1>1, <1>2, <1>4, WitnessInvariant, PTL DEF Spec

\* The stretch of history no receipt covers is bounded by the interval, one
\* sweep, an hour for each witnessing that failed and the wait for an answer,
\* whatever the plans, the timer and the timeout are (witnessDue, sweepWitness).
THEOREM WitnessWindowBounded == Spec => []WindowBounded
<1>1. ASSUME IInv, stored # << >>
      PROVE  now - LastStored <= (Interval + 1 + misses) * Hour + Timeout
  <2>1. TypeOK /\ TimeInv
    BY <1>1, Zenon DEF IInv
  <2>2. Limit \in Int /\ Hour \in Nat /\ Timeout \in Nat
    BY <2>1, LimitFacts DEF TypeOK
  <2>3. LastStored \in Int /\ now \in Int /\ nextSweep \in Int /\ now <= nextSweep /\ askedAt \in Int
    BY <1>1, <2>1, TimeAssumption DEF TypeOK, LastStored
  <2>4. now <= LastStored + Limit + Timeout
    <3>1. CASE pc = "idle"
      <4>1. nextSweep <= LastStored + Limit
        BY <1>1, <2>1, <3>1 DEF TimeInv
      <4>. QED  BY <2>2, <2>3, <4>1
    <3>2. CASE pc = "walked"
      <4>1. now <= LastStored + Limit
        BY <1>1, <2>1, <3>2 DEF TimeInv
      <4>. QED  BY <2>2, <2>3, <4>1
    <3>3. CASE pc \in {"asking", "answered"}
      <4>1. askedAt <= LastStored + Limit /\ now <= askedAt + Timeout
        BY <1>1, <2>1, <3>3 DEF TimeInv
      <4>. QED  BY <2>2, <2>3, <4>1
    <3>. QED  BY <2>1, <3>1, <3>2, <3>3 DEF TypeOK
  <2>5. now - LastStored <= Limit + Timeout
    BY <2>2, <2>3, <2>4
  <2>. QED  BY <2>5 DEF Limit
<1>2. IInv => WindowBounded
  BY <1>1, Zenon DEF WindowBounded
<1>. QED  BY <1>2, WitnessInvariant, PTL

\* No two rows are closer than the interval, however often capkit restarts and
\* however often the notary fails to answer (witnessDue).
THEOREM WitnessWitnessingsSpaced == Spec => []WitnessingsSpaced
<1>1. IInv => WitnessingsSpaced
  BY Zenon DEF IInv, TimeInv, WitnessingsSpaced
<1>. QED  BY <1>1, WitnessInvariant, PTL

=============================================================================
