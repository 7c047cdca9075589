---------------------------- MODULE RevocationProofs ----------------------------
(***************************************************************************)
(* Proofs about Revocation, for every choice of its constants: any services, *)
(* any number of replicas that write, any lifetimes and any bounds.          *)
(*                                                                           *)
(* RevokedStaysRefused is about a guard that has asked and been answered.    *)
(* What carries it is that an entry never ends before the earliest end of    *)
(* its token, in the table, in the file and in every index (RowInv, LineInv, *)
(* IndexInv), and that an index which takes the file for read lists all its  *)
(* tokens but those whose revocations may have ended and those overlooked.   *)
(***************************************************************************)
EXTENDS Revocation, Integers, WellFoundedInduction, SequenceTheorems, TLAPS

Listed(t) == \E n \in DOMAIN file : file[n].token = t

RowInv ==
  store = "sqlite" =>
    /\ \A t \in DOMAIN table : t \in DOMAIN ends /\ ends[t] <= table[t]
    /\ \A t \in acked : InForce(t) => t \in DOMAIN table

LineInv ==
  store = "file" =>
    /\ \A n \in DOMAIN file : /\ file[n].token \in DOMAIN ends
                             /\ ends[file[n].token] <= file[n].exp
    /\ \A t \in acked : Listed(t)

\* What one service remembers of the file.
IndexOf(s) ==
  /\ \A t \in DOMAIN index[s] : t \in DOMAIN ends /\ ends[t] <= index[s][t] /\ Listed(t)
  /\ \A n \in 1..lastSize[s] :
       InForce(file[n].token) => file[n].token \in DOMAIN index[s] \cup overlooked[s]

IndexInv == store = "file" => \A s \in Services : IndexOf(s)

GuardInv ==
  \A s \in Services : guard[s].barred => /\ guard[s].at = "asked" => guard[s].revoked
                                         /\ guard[s].at # "admitted"

IInv == TypeOK /\ RowInv /\ LineInv /\ IndexInv /\ GuardInv

\* A replica that writes beside another.
Beside(s) == s \in Capkits /\ \E c \in Capkits : c # s

\* No other service overlooks a line: a service that only reads, reads them all,
\* and a replica that writes alone has written them all.
OnlyReplicasOverlook == \A s \in Services : overlooked[s] # {} => Beside(s)

-----------------------------------------------------------------------------
(* Numbers: what Min and Max (CHOOSE) are when there is a least or greatest.*)

\* Two integers neither of which exceeds the other are one.
LEMMA Antisymmetry == \A x, y \in Int : x <= y /\ y <= x => x = y
OBVIOUS

\* Max is the greatest element when there is one: the last line of a token.
LEMMA MaxIs ==
  ASSUME NEW S, S \subseteq Int, NEW m \in S, \A s \in S : s <= m
  PROVE  Max(S) = m
<1>1. \A x, y \in Int : x <= y <=> y >= x
  OBVIOUS
<1>2. \A s \in S : m >= s
  BY <1>1
<1>3. Max(S) \in S /\ \A s \in S : Max(S) >= s
  BY <1>2, Zenon DEF Max
<1>4. Max(S) \in Int /\ m \in Int
  BY <1>3, Zenon
<1>5. Max(S) <= m /\ m <= Max(S)
  BY <1>1, <1>3, <1>4, Zenon
<1>. QED  BY <1>4, <1>5, Antisymmetry, Zenon

\* A non-empty set of naturals has a least element.
LEMMA NatLeast ==
  ASSUME NEW S, S \subseteq Nat, S # {}
  PROVE  \E m \in S : \A s \in S : m <= s
<1>1. IsWellFoundedOn(OpToRel(<, Nat), Nat)
  BY NatLessThanWellFounded
<1>2. PICK m \in S : \A s \in S : ~ (<<s, m>> \in OpToRel(<, Nat))
  BY <1>1, WFMin, Zenon
<1>3. \A s \in Nat, t \in Nat : s < t \/ t <= s
  OBVIOUS
<1>4. ASSUME NEW s \in S, s < m PROVE <<s, m>> \in OpToRel(<, Nat)
  <2>1. s \in Nat /\ m \in Nat
    BY Zenon
  <2>2. <<s, m>> \in Nat \X Nat /\ <<s, m>>[1] = s /\ <<s, m>>[2] = m
    BY <2>1
  <2>. QED  BY <2>2, <1>4, Zenon DEF OpToRel
<1>. QED  BY <1>2, <1>3, <1>4, Zenon

\* A non-empty, bounded set of naturals has a greatest element.
LEMMA NatGreatest ==
  ASSUME NEW S, S \subseteq Nat, S # {}, NEW b \in Nat, \A s \in S : s <= b
  PROVE  \E m \in S : \A s \in S : s <= m
<1> DEFINE T == {b - s : s \in S}
<1>1. \A s \in S : s \in Nat /\ b - s \in Nat
  OBVIOUS
<1>2. T \subseteq Nat /\ T # {}
  BY <1>1, Zenon
<1>3. PICK t \in T : \A u \in T : t <= u
  BY <1>2, NatLeast, Zenon
<1>4. PICK m \in S : t = b - m
  BY Zenon DEF T
<1>5. \A s \in S : b - m <= b - s
  BY <1>3, <1>4, Zenon
<1>6. \A s \in S : s <= m
  BY <1>1, <1>5
<1>. QED  BY <1>6

-----------------------------------------------------------------------------
(* What the stores answer.                                                 *)

\* A store is one of two.
LEMMA StoreIs == TypeOK => store \in Stores /\ store \in {"sqlite", "file"}
BY StoresAssumption DEF TypeOK

\* The clock is a natural number.
LEMMA ClockIs == TypeOK => now \in Nat
<1>1. MaxTime \in Nat
  BY BoundsAssumption, Zenon
<1>2. TypeOK => now \in 0..MaxTime
  BY Zenon DEF TypeOK
<1>. QED  BY <1>1, <1>2

\* The line of a token that counts, its last, is a line of the file.
LEMMA LastLine ==
  ASSUME file \in Seq([token : Tokens, exp : Nat]), NEW t, Listed(t)
  PROVE  Max(LinesOf(t)) \in LinesOf(t)
<1>1. LinesOf(t) # {} /\ LinesOf(t) \subseteq DOMAIN file
  BY Zenon DEF Listed, LinesOf
<1>2. DOMAIN file = 1..Len(file) /\ Len(file) \in Nat
  BY LenProperties
<1>3. LinesOf(t) \subseteq Nat /\ LinesOf(t) \subseteq Int /\ \A n \in LinesOf(t) : n <= Len(file)
  BY <1>1, <1>2
<1>4. PICK m \in LinesOf(t) : \A n \in LinesOf(t) : n <= m
  BY <1>1, <1>2, <1>3, NatGreatest, Zenon
<1>5. Max(LinesOf(t)) = m
  BY <1>3, <1>4, MaxIs, Zenon
<1>. QED  BY <1>4, <1>5, Zenon

\* A reading of the file lists the tokens of its lines, none of them for a
\* shorter time than the token was ever revoked for.
ReadsAll ==
  /\ \A t : t \in DOMAIN ReadFile <=> Listed(t)
  /\ \A t \in DOMAIN ReadFile : t \in DOMAIN ends /\ ReadFile[t] \in Nat /\ ends[t] <= ReadFile[t]

LEMMA ReadFileLists == TypeOK /\ LineInv /\ store = "file" => ReadsAll
<1>. SUFFICES ASSUME TypeOK, LineInv, store = "file" PROVE ReadsAll
  OBVIOUS
<1>1. \A t : t \in DOMAIN ReadFile <=> Listed(t)
  BY Zenon DEF ReadFile, Listed
<1>2. ASSUME NEW t, Listed(t) PROVE Max(LinesOf(t)) \in LinesOf(t)
  BY <1>2, LastLine, Zenon DEF TypeOK
<1>3. ASSUME NEW t \in DOMAIN ReadFile
      PROVE  t \in DOMAIN ends /\ ReadFile[t] \in Nat /\ ends[t] <= ReadFile[t]
  <2>1. Listed(t)
    BY <1>1, Zenon
  <2>2. PICK n \in DOMAIN file : n = Max(LinesOf(t)) /\ file[n].token = t
    BY <1>2, <2>1, Zenon DEF LinesOf
  <2>3. ReadFile[t] = file[n].exp
    BY <2>2, Zenon DEF ReadFile
  <2>4. file[n] \in [token : Tokens, exp : Nat]
    BY <2>2, ElementOfSeq, LenProperties DEF TypeOK
  <2>5. t \in DOMAIN ends /\ ends[t] <= file[n].exp
    BY <2>2, Zenon DEF LineInv
  <2>. QED  BY <2>3, <2>4, <2>5
<1>. QED  BY <1>1, <1>3, Zenon DEF ReadsAll

\* What a service looks a token up in after refresh(): none for a shorter time
\* than it was ever revoked for, and all that the file lists and that are in
\* force, but those overlooked.
LEMMA RefreshedLists ==
  ASSUME TypeOK, LineInv, IndexInv, store = "file", NEW s \in Services
  PROVE  /\ \A t \in DOMAIN Refreshed(s) : /\ t \in DOMAIN ends /\ Listed(t)
                                           /\ Refreshed(s)[t] \in Nat
                                           /\ ends[t] <= Refreshed(s)[t]
         /\ \A t : InForce(t) /\ Listed(t) => t \in DOMAIN Refreshed(s) \cup Missed(s)
<1>1. CASE Len(file) = lastSize[s]
  <2>1. Refreshed(s) = index[s] /\ Missed(s) = overlooked[s]
    BY <1>1, Zenon DEF Refreshed, Missed
  <2>2. \A t \in DOMAIN index[s] : index[s][t] \in Nat
    BY Zenon DEF TypeOK, TokenMap
  <2>3. DOMAIN file = 1..lastSize[s]
    BY <1>1, LenProperties DEF TypeOK
  <2>4. IndexOf(s)
    BY Zenon DEF IndexInv
  <2>. QED  BY <2>1, <2>2, <2>3, <2>4, Zenon DEF IndexOf, Listed
<1>2. CASE Len(file) # lastSize[s]
  <2>1. Refreshed(s) = ReadFile
    BY <1>2, Zenon DEF Refreshed
  <2>2. ReadsAll
    BY ReadFileLists, Zenon
  <2>. QED  BY <2>1, <2>2, Zenon DEF ReadsAll
<1>. QED  BY <1>1, <1>2, Zenon

\* The one answer to a question about a token that was never revoked, or whose
\* revocations are in force, if no line about it was overlooked: whether it is in
\* the table, or in the file.
LEMMA AnswerIs ==
  ASSUME TypeOK, RowInv, LineInv, IndexInv, NEW s \in Services, NEW t,
         t \in DOMAIN ends => InForce(t), t \notin Missed(s)
  PROVE  RevokedAt(s, t) <=> IF store = "sqlite" THEN t \in DOMAIN table ELSE Listed(t)
<1>1. ASSUME t \in DOMAIN ends PROVE ends[t] \in Nat /\ now \in Nat /\ now <= ends[t]
  BY <1>1, ClockIs, Zenon DEF TypeOK, TokenMap, InForce
<1>2. CASE store = "sqlite"
  <2>1. ASSUME t \in DOMAIN table PROVE t \in DOMAIN ends /\ table[t] \in Nat /\ ends[t] <= table[t]
    BY <1>2, <2>1, Zenon DEF RowInv, TypeOK, TokenMap
  <2>2. ASSUME t \in DOMAIN table PROVE table[t] >= now
    BY <1>1, <2>1, <2>2
  <2>. QED  BY <1>2, <2>2, Zenon DEF RevokedAt, Known, Live
<1>3. CASE store # "sqlite"
  <2>1. store = "file"
    BY <1>3, StoreIs
  <2>2. Known(s) = Refreshed(s)
    BY <1>3, Zenon DEF Known
  <2>3. ASSUME t \in DOMAIN Refreshed(s) PROVE Refreshed(s)[t] >= now
    <3>1. Refreshed(s)[t] \in Nat /\ t \in DOMAIN ends /\ ends[t] <= Refreshed(s)[t]
      BY <2>1, <2>3, RefreshedLists, Zenon
    <3>. QED  BY <1>1, <3>1
  <2>4. Listed(t) => t \in DOMAIN ends
    BY <2>1, Zenon DEF LineInv, Listed
  <2>5. t \in DOMAIN Refreshed(s) <=> Listed(t)
    BY <2>1, <2>4, RefreshedLists, Zenon
  <2>. QED  BY <1>3, <2>2, <2>3, <2>5, Zenon DEF RevokedAt, Live
<1>. QED  BY <1>2, <1>3

-----------------------------------------------------------------------------
(* The type invariant, in parts: what is on disk, what the services remember *)
(* of it, their guards, and the rest.                                        *)

FileType ==
  /\ TokenMap(table) /\ TokenMap(ends)
  /\ file \in Seq([token : Tokens, exp : Nat])
  /\ \A n \in DOMAIN file : file[n].token \in Issued

MemoryType ==
  /\ DOMAIN index = Services /\ \A s \in Services : TokenMap(index[s])
  /\ lastSize \in [Services -> 0..Len(file)]
  /\ overlooked \in [Services -> SUBSET Issued]

GuardType == guard \in [Services -> [at : {"idle", "asked", "admitted", "refused"},
                                     token : Tokens \cup {"none"},
                                     revoked : BOOLEAN, barred : BOOLEAN]]

Frame == /\ store \in Stores
         /\ now \in 0..MaxTime
         /\ Issued \subseteq Tokens /\ TokenMap(expires)
         /\ acked \subseteq Issued
         /\ written \in 0..MaxRevocations /\ faults \in 0..MaxFaults

LEMMA TypeParts == TypeOK <=> Frame /\ FileType /\ MemoryType /\ GuardType
BY Zenon DEF TypeOK, Frame, FileType, MemoryType, GuardType

LEMMA TypePartsNext == Frame' /\ FileType' /\ MemoryType' /\ GuardType' => TypeOK'
BY TypeParts, PTL

LEMMA PutIs ==
  ASSUME NEW map, TokenMap(map), NEW t \in Issued, NEW exp \in Nat
  PROVE  TokenMap(Put(map, t, exp))
BY Zenon DEF TokenMap, Put

LEMMA WithoutIs ==
  ASSUME NEW map, TokenMap(map), NEW tokens
  PROVE  TokenMap(Without(map, tokens))
BY Zenon DEF TokenMap, Without

\* What revoke() makes of the disk has its type.
LEMMA WriteType ==
  ASSUME Frame, FileType, NEW t \in Issued, NEW exp \in Nat, Write(t, exp), UNCHANGED expires
  PROVE  /\ FileType' /\ written' \in 0..MaxRevocations
         /\ Len(file) \in Nat /\ Len(file') \in {Len(file), Len(file) + 1}
<1>1. Issued' = Issued
  BY DEF Issued
<1>2. written' \in 0..MaxRevocations
  <2>1. MaxRevocations \in Nat /\ written \in 0..MaxRevocations
    BY BoundsAssumption, Zenon DEF Frame
  <2>. QED  BY <2>1 DEF Write
<1>3. DOMAIN ends' \subseteq Issued' /\ \A u \in DOMAIN ends' : ends'[u] \in Nat
  <2>1. Sooner(t, exp) \in Nat
    BY Zenon DEF Sooner, FileType, TokenMap
  <2>2. TokenMap(Put(ends, t, Sooner(t, exp)))
    BY <2>1, PutIs, Zenon DEF FileType
  <2>. QED  BY <1>1, <2>2, Zenon DEF TokenMap, Write
<1>4. CASE store = "sqlite"
  <2>1. table' = Put(table, t, exp) /\ file' = file
    BY <1>4, Zenon DEF Write
  <2>2. TokenMap(Put(table, t, exp))
    BY PutIs, Zenon DEF FileType
  <2>3. Len(file) \in Nat /\ Len(file') = Len(file)
    BY <2>1, LenProperties DEF FileType
  <2>. QED  BY <1>1, <1>2, <1>3, <2>1, <2>2, <2>3, Zenon DEF FileType, TokenMap
<1>5. CASE store # "sqlite"
  <2> DEFINE line == [token |-> t, exp |-> exp]
  <2>1. file' = Append(file, line) /\ table' = table
    BY <1>5, Zenon DEF Write
  <2>2. line \in [token : Tokens, exp : Nat]
    BY DEF Frame
  <2>3. /\ file' \in Seq([token : Tokens, exp : Nat])
        /\ Len(file') = Len(file) + 1 /\ Len(file) \in Nat
        /\ \A n \in 1..Len(file) : file'[n] = file[n]
        /\ file'[Len(file) + 1] = line
    BY <2>1, <2>2, AppendProperties, LenProperties DEF FileType
  <2>4. DOMAIN file = 1..Len(file) /\ DOMAIN file' = 1..(Len(file) + 1)
    BY <2>3, LenProperties DEF FileType
  <2>5. \A n \in DOMAIN file' : n \in DOMAIN file \/ n = Len(file) + 1
    BY <2>3, <2>4
  <2>6. \A n \in DOMAIN file' : file'[n].token \in Issued'
    <3>1. line.token = t
      OBVIOUS
    <3>. QED  BY <1>1, <2>3, <2>4, <2>5, <3>1, Zenon DEF FileType
  <2>. QED  BY <1>1, <1>2, <1>3, <2>1, <2>3, <2>6, Zenon DEF FileType, TokenMap
<1>. QED  BY <1>4, <1>5

\* A service's memory of the file is replaced, and the others' stay; the file may
\* have grown.
LEMMA MemoryStep ==
  ASSUME MemoryType, UNCHANGED expires, Len(file) \in Nat, Len(file') \in Nat, Len(file) <= Len(file'),
         NEW s \in Services, NEW map, TokenMap(map), NEW size \in 0..Len(file'),
         NEW tokens \in SUBSET Issued,
         index' = [index EXCEPT ![s] = map], lastSize' = [lastSize EXCEPT ![s] = size],
         overlooked' = [overlooked EXCEPT ![s] = tokens]
  PROVE  MemoryType'
<1>1. Issued' = Issued
  BY DEF Issued
<1>2. DOMAIN index' = Services /\ \A u \in Services : TokenMap(index'[u])
  <2>1. DOMAIN index' = Services /\ index'[s] = map /\ \A u \in Services : u # s => index'[u] = index[u]
    BY Zenon DEF MemoryType
  <2>. QED  BY <2>1, Zenon DEF MemoryType
<1>3. lastSize' \in [Services -> 0..Len(file')]
  <2>1. lastSize \in [Services -> 0..Len(file)]
    BY Zenon DEF MemoryType
  <2>2. 0..Len(file) \subseteq 0..Len(file')
    OBVIOUS
  <2>. QED  BY <2>1, <2>2
<1>4. overlooked' \in [Services -> SUBSET Issued]
  <2>1. overlooked \in [Services -> SUBSET Issued]
    BY Zenon DEF MemoryType
  <2>. QED  BY <2>1
<1>. QED  BY <1>1, <1>2, <1>3, <1>4, Zenon DEF MemoryType, TokenMap

LEMMA SameMemory ==
  ASSUME MemoryType, UNCHANGED <<expires, index, lastSize, overlooked>>,
         Len(file) \in Nat, Len(file') \in Nat, Len(file) <= Len(file')
  PROVE  MemoryType'
<1>1. Issued' = Issued
  BY DEF Issued
<1>2. 0..Len(file) \subseteq 0..Len(file')
  OBVIOUS
<1>3. lastSize \in [Services -> 0..Len(file')]
  <2>1. lastSize \in [Services -> 0..Len(file)]
    BY Zenon DEF MemoryType
  <2>. QED  BY <1>2, <2>1
<1>. QED  BY <1>1, <1>3, Zenon DEF MemoryType, TokenMap

LEMMA SameFile ==
  ASSUME FileType, UNCHANGED <<expires, table, file, ends>>
  PROVE  FileType' /\ Len(file) \in Nat /\ Len(file') \in Nat /\ Len(file) <= Len(file')
<1>1. Issued' = Issued
  BY DEF Issued
<1>2. Len(file) \in Nat
  BY LenProperties DEF FileType
<1>3. FileType'
  BY <1>1, Zenon DEF FileType, TokenMap
<1>. QED  BY <1>2, <1>3

LEMMA SameStores ==
  ASSUME FileType, MemoryType, UNCHANGED <<expires, stored, noted>>
  PROVE  FileType' /\ MemoryType'
<1>1. UNCHANGED <<table, file, index, lastSize, ends, overlooked>>
  BY DEF stored, noted
<1>. QED  BY <1>1, SameFile, SameMemory, Zenon

LEMMA SameFrame ==
  ASSUME Frame, UNCHANGED <<store, expires>>, now' \in 0..MaxTime, acked' \subseteq Issued,
         written' \in 0..MaxRevocations, faults' \in 0..MaxFaults
  PROVE  Frame'
<1>1. Issued' = Issued
  BY DEF Issued
<1>. QED  BY <1>1, Zenon DEF Frame, TokenMap

\* What a reading of the file makes, and what a service looks a token up in.
LEMMA ReadFileType == FileType => TokenMap(ReadFile)
<1>. SUFFICES ASSUME FileType PROVE TokenMap(ReadFile)
  OBVIOUS
<1>1. DOMAIN file = 1..Len(file) /\ Len(file) \in Nat
  BY LenProperties DEF FileType
<1>2. ASSUME NEW t \in DOMAIN ReadFile PROVE t \in Issued /\ ReadFile[t] \in Nat
  <2>1. Listed(t)
    BY <1>2, Zenon DEF ReadFile, Listed
  <2>2. PICK m \in DOMAIN file : m = Max(LinesOf(t)) /\ file[m].token = t
    BY <2>1, LastLine, Zenon DEF LinesOf, FileType
  <2>3. ReadFile[t] = file[m].exp
    BY <2>2, Zenon DEF ReadFile
  <2>4. file[m] \in [token : Tokens, exp : Nat]
    BY <1>1, <2>2, ElementOfSeq DEF FileType
  <2>. QED  BY <2>2, <2>3, <2>4 DEF FileType
<1>. QED  BY <1>2, Zenon DEF TokenMap

LEMMA KnownType ==
  ASSUME FileType, MemoryType, NEW s \in Services
  PROVE  TokenMap(Known(s)) /\ Missed(s) \in SUBSET Issued
<1>1. TokenMap(table) /\ TokenMap(index[s])
  BY Zenon DEF FileType, MemoryType
<1>2. TokenMap(ReadFile)
  BY ReadFileType
<1>3. overlooked[s] \in SUBSET Issued
  BY DEF MemoryType
<1>. QED  BY <1>1, <1>2, <1>3, Zenon DEF Known, Refreshed, Missed

\* A revocation ends at a number of seconds.
LEMMA EndsType ==
  ASSUME TypeOK, NEW t, NEW exp \in Ends(t)
  PROVE  exp \in Nat
<1>1. now + Hold \in Nat
  BY ClockIs, SpansAssumption
<1>2. \A u \in Issued : expires[u] \in Nat
  BY Zenon DEF TypeOK, TokenMap, Issued
<1>. QED  BY <1>1, <1>2, Zenon DEF Ends, Valid

LEMMA CrashType == ASSUME TypeOK, Crash PROVE faults' \in 0..MaxFaults
<1>1. MaxFaults \in Nat /\ faults \in 0..MaxFaults
  BY BoundsAssumption, Zenon DEF TypeOK
<1>. QED  BY <1>1 DEF Crash

\* A request has its type.
LEMMA RequestType ==
  ASSUME NEW at \in {"idle", "asked", "admitted", "refused"}, NEW t \in Tokens \cup {"none"},
         NEW revoked \in BOOLEAN, NEW barred \in BOOLEAN
  PROVE  Request(at, t, revoked, barred)
           \in [at : {"idle", "asked", "admitted", "refused"}, token : Tokens \cup {"none"},
                revoked : BOOLEAN, barred : BOOLEAN]
BY DEF Request

LEMMA GuardStepType ==
  ASSUME GuardType, NEW s \in Services, NEW at \in {"idle", "asked", "admitted", "refused"},
         NEW t \in Tokens \cup {"none"}, NEW revoked \in BOOLEAN, NEW barred \in BOOLEAN,
         guard' = [guard EXCEPT ![s] = Request(at, t, revoked, barred)]
  PROVE  GuardType'
<1> DEFINE R == [at : {"idle", "asked", "admitted", "refused"}, token : Tokens \cup {"none"},
                 revoked : BOOLEAN, barred : BOOLEAN]
<1>1. Request(at, t, revoked, barred) \in R
  BY RequestType DEF R
<1>2. guard \in [Services -> R]
  BY Zenon DEF GuardType, R
<1> HIDE DEF R
<1>3. guard' \in [Services -> R]
  BY <1>1, <1>2
<1>. QED  BY <1>3, Zenon DEF GuardType, R

LEMMA IdleType ==
  ASSUME GuardType, NEW s \in Services, guard' = [guard EXCEPT ![s] = Idle]
  PROVE  GuardType'
<1>1. guard' = [guard EXCEPT ![s] = Request("idle", "none", FALSE, FALSE)]
  BY Zenon DEF Idle
<1>. QED  BY <1>1, GuardStepType, Zenon

LEMMA AnswerType ==
  ASSUME GuardType, NEW s \in Services, NEW verdict \in {"admitted", "refused"}, Answer(s, verdict)
  PROVE  GuardType'
<1>1. /\ guard[s].token \in Tokens \cup {"none"}
      /\ guard[s].revoked \in BOOLEAN /\ guard[s].barred \in BOOLEAN
  BY DEF GuardType
<1>2. guard' = [guard EXCEPT ![s] =
                  Request(verdict, guard[s].token, guard[s].revoked, guard[s].barred)]
  BY Zenon DEF Answer
<1>3. verdict \in {"idle", "asked", "admitted", "refused"}
  OBVIOUS
<1>. QED  BY <1>1, <1>2, <1>3, GuardStepType, Zenon

\* A process that starts remembers the file.
LEMMA StartedType ==
  ASSUME MemoryType, GuardType, FileType', UNCHANGED expires,
         Len(file) \in Nat, Len(file') \in Nat, Len(file) <= Len(file'),
         NEW s \in Services, Started(s, Opened')
  PROVE  MemoryType' /\ GuardType'
<1>1. /\ guard' = [guard EXCEPT ![s] = Idle]
      /\ index' = [index EXCEPT ![s] = ReadFile']
      /\ lastSize' = [lastSize EXCEPT ![s] = Len(file')]
      /\ overlooked' = [overlooked EXCEPT ![s] = {}]
  BY DEF Started, Opened
<1>2. TokenMap(ReadFile')
  <2>1. TokenMap(ReadFile)'
    BY ReadFileType, PTL
  <2>. QED  BY <2>1 DEF TokenMap, Issued
<1>3. Len(file') \in 0..Len(file') /\ {} \in SUBSET Issued
  OBVIOUS
<1>. QED  BY <1>1, <1>2, <1>3, MemoryStep, IdleType, Zenon

LEMMA TypeStep == TypeOK /\ [Next]_vars => TypeOK'
<1> SUFFICES ASSUME TypeOK, [Next]_vars PROVE TypeOK'
  OBVIOUS
<1>. USE TypePartsNext
<1>0. Frame /\ FileType /\ MemoryType /\ GuardType
  BY TypeParts, Zenon
<1>1. /\ now \in 0..MaxTime /\ acked \subseteq Issued
      /\ written \in 0..MaxRevocations /\ faults \in 0..MaxFaults
  BY <1>0, Zenon DEF Frame, Issued
<1>2. ASSUME NEW t \in Tokens, NEW l \in Lifetimes, Issue(t, l) PROVE TypeOK'
  <2>1. Issued' = Issued \cup {t} /\ TokenMap(expires)'
    <3>1. now + l \in Nat
      BY ClockIs, SpansAssumption
    <3>2. expires' = [u \in Issued \cup {t} |-> IF u = t THEN now + l ELSE expires[u]]
      BY <1>2, Zenon DEF Issue, Put, Issued
    <3>. QED  BY <1>0, <3>1, <3>2, Zenon DEF Frame, TokenMap, Issued
  <2>2. UNCHANGED <<store, now, table, file, index, lastSize, guard, acked, ends, overlooked,
                    written, faults>>
    BY <1>2 DEF Issue, stored, noted
  <2>3. Frame'
    BY <1>0, <2>1, <2>2, Zenon DEF Frame
  <2>4. FileType'
    BY <1>0, <2>1, <2>2, Zenon DEF FileType, TokenMap
  <2>5. MemoryType'
    <3>1. overlooked \in [Services -> SUBSET Issued']
      <4>1. overlooked \in [Services -> SUBSET Issued] /\ Issued \subseteq Issued'
        BY <1>0, <2>1, Zenon DEF MemoryType
      <4>. QED  BY <4>1
    <3>. QED  BY <1>0, <2>1, <2>2, <3>1, Zenon DEF MemoryType, TokenMap
  <2>. QED  BY <1>0, <2>2, <2>3, <2>4, <2>5, Zenon DEF GuardType
<1>3. ASSUME NEW t \in Tokens, NEW c \in Services, NEW exp \in Ends(t), RevokeRoute(c, t, exp),
             acked' \in {acked, acked \cup {t}}, faults' \in 0..MaxFaults
      PROVE  /\ Frame' /\ FileType' /\ UNCHANGED expires
             /\ Len(file) \in Nat /\ Len(file') \in Nat /\ Len(file) <= Len(file')
             /\ t \in Issued /\ exp \in Nat
  <2>1. /\ t \in Issued /\ Write(t, exp) /\ exp \in Nat
        /\ UNCHANGED <<store, now, expires>>
    BY <1>3, EndsType, Zenon DEF RevokeRoute
  <2>2. /\ FileType' /\ written' \in 0..MaxRevocations
        /\ Len(file) \in Nat /\ Len(file') \in {Len(file), Len(file) + 1}
    BY <1>0, <2>1, WriteType, Zenon
  <2>3. Len(file') \in Nat /\ Len(file) <= Len(file')
    BY <2>2
  <2>4. acked' \subseteq Issued /\ now' \in 0..MaxTime
    BY <1>1, <1>3, <2>1, Zenon
  <2>5. Frame'
    BY <1>0, <1>3, <2>1, <2>2, <2>4, SameFrame, Zenon
  <2>. QED  BY <2>1, <2>2, <2>3, <2>5, Zenon
<1>4. ASSUME NEW t \in Tokens, NEW c \in Services, Revoke(c, t) PROVE TypeOK'
  <2>1. PICK exp \in Ends(t) : /\ RevokeRoute(c, t, exp) /\ Remember(c, t, exp)
                               /\ acked' = acked \cup {t} /\ guard' = guard /\ faults' = faults
    BY <1>4, Zenon DEF Revoke
  <2>2. /\ Frame' /\ FileType' /\ UNCHANGED expires
        /\ Len(file) \in Nat /\ Len(file') \in Nat /\ Len(file) <= Len(file')
        /\ t \in Issued /\ exp \in Nat
    BY <1>1, <1>3, <2>1, Zenon
  <2>3. MemoryType'
    <3>1. CASE store = "sqlite"
      <4>1. UNCHANGED <<index, lastSize, overlooked>>
        BY <2>1, <3>1, Zenon DEF Remember
      <4>. QED  BY <1>0, <2>2, <4>1, SameMemory, Zenon
    <3>2. CASE store # "sqlite"
      <4> DEFINE missed == (overlooked[c] \cup Unread(c)) \ {t}
      <4>1. /\ index' = [index EXCEPT ![c] = Put(index[c], t, exp)]
            /\ lastSize' = [lastSize EXCEPT ![c] = Len(file) + 1]
            /\ overlooked' = [overlooked EXCEPT ![c] = missed]
        BY <2>1, <3>2, Zenon DEF Remember
      <4>2. TokenMap(Put(index[c], t, exp))
        BY <1>0, <2>2, PutIs, Zenon DEF MemoryType
      <4>3. Len(file) + 1 \in 0..Len(file')
        <5>1. file' = Append(file, [token |-> t, exp |-> exp])
          BY <2>1, <3>2, Zenon DEF RevokeRoute, Write
        <5>2. [token |-> t, exp |-> exp] \in [token : Tokens, exp : Nat]
          BY <2>2
        <5>3. Len(file') = Len(file) + 1
          BY <1>0, <5>1, <5>2, AppendProperties DEF FileType
        <5>. QED  BY <2>2, <5>3
      <4>4. missed \in SUBSET Issued
        <5>1. overlooked[c] \subseteq Issued
          BY <1>0 DEF MemoryType
        <5>2. Unread(c) \subseteq Issued
          <6>1. lastSize[c] \in Nat
            BY <1>0, <2>2 DEF MemoryType
          <6>2. (lastSize[c] + 1)..Len(file) \subseteq DOMAIN file
            BY <1>0, <2>2, <6>1, LenProperties DEF FileType
          <6>. QED  BY <1>0, <6>2, Zenon DEF Unread, FileType
        <5>. QED  BY <5>1, <5>2
      <4> HIDE DEF missed
      <4>. QED  BY <1>0, <2>2, <4>1, <4>2, <4>3, <4>4, MemoryStep, Zenon
    <3>. QED  BY <3>1, <3>2
  <2>. QED  BY <1>0, <2>1, <2>2, <2>3, Zenon DEF GuardType
<1>5. ASSUME NEW t \in Tokens, NEW c \in Services, RevokeUnanswered(c, t) PROVE TypeOK'
  <2>1. PICK exp \in Ends(t) : /\ RevokeRoute(c, t, exp) /\ acked' = acked /\ Crash
                               /\ Started(c, Opened')
    BY <1>5, Zenon DEF RevokeUnanswered
  <2>2. faults' \in 0..MaxFaults
    BY <2>1, CrashType, Zenon
  <2>3. /\ Frame' /\ FileType' /\ UNCHANGED expires
        /\ Len(file) \in Nat /\ Len(file') \in Nat /\ Len(file) <= Len(file')
    BY <1>3, <2>1, <2>2, Zenon
  <2>. QED  BY <1>0, <2>1, <2>3, StartedType, Zenon
<1>6. ASSUME NEW t \in Tokens, NEW s \in Services, Ask(s, t) PROVE TypeOK'
  <2>1. UNCHANGED <<store, now, expires, table, file, acked, ends, written, faults>>
    BY <1>6, Zenon DEF Ask
  <2>2. GuardType'
    <3>1. RevokedAt(s, t) \in BOOLEAN /\ Barred(s, t) \in BOOLEAN
      BY DEF RevokedAt, Barred
    <3>2. "asked" \in {"idle", "asked", "admitted", "refused"} /\ t \in Tokens \cup {"none"}
      OBVIOUS
    <3>. QED  BY <1>0, <1>6, <3>1, <3>2, GuardStepType, Zenon DEF Ask
  <2>3. FileType' /\ Len(file) \in Nat /\ Len(file') \in Nat /\ Len(file) <= Len(file')
    BY <1>0, <2>1, SameFile, Zenon
  <2>4. overlooked' = [overlooked EXCEPT ![s] = Missed(s)] /\ Missed(s) \in SUBSET Issued
    BY <1>0, <1>6, KnownType, Zenon DEF Ask
  <2>5. MemoryType'
    <3>1. CASE store = "file"
      <4>1. TokenMap(Without(Known(s), {t} \ Live(Known(s))))
        BY <1>0, KnownType, WithoutIs, Zenon
      <4>2. Len(file) \in 0..Len(file')
        BY <2>3
      <4>. QED  BY <1>0, <1>6, <2>1, <2>3, <2>4, <3>1, <4>1, <4>2, MemoryStep, Zenon DEF Ask
    <3>2. CASE store # "file"
      <4>1. UNCHANGED <<index, lastSize>> /\ Issued' = Issued
        BY <1>6, <2>1, <3>2 DEF Ask, Issued
      <4>2. overlooked' \in [Services -> SUBSET Issued]
        <5>1. overlooked \in [Services -> SUBSET Issued]
          BY <1>0, Zenon DEF MemoryType
        <5>. QED  BY <2>4, <5>1
      <4>. QED  BY <1>0, <2>1, <4>1, <4>2, Zenon DEF MemoryType, TokenMap
    <3>. QED  BY <3>1, <3>2
  <2>. QED  BY <1>0, <1>1, <2>1, <2>2, <2>3, <2>5, SameFrame, Zenon
<1>7. ASSUME NEW s \in Services, NEW verdict \in {"admitted", "refused"}, Answer(s, verdict),
             faults' \in 0..MaxFaults
      PROVE  TypeOK'
  <2>1. UNCHANGED <<store, now, expires, stored, acked, noted, written>>
    BY <1>7, Zenon DEF Answer
  <2>2. FileType' /\ MemoryType'
    BY <1>0, <2>1, SameStores, Zenon
  <2>. QED  BY <1>0, <1>1, <1>7, <2>1, <2>2, AnswerType, SameFrame, Zenon
<1>8. ASSUME NEW s \in Services, Prune(s) PROVE TypeOK'
  <2>1. UNCHANGED <<store, now, expires, file, lastSize, guard, acked, ends, overlooked,
                    written, faults>>
    BY <1>8 DEF Prune, noted
  <2>2. Frame' /\ GuardType'
    BY <1>0, <1>1, <2>1, SameFrame, Zenon DEF GuardType
  <2>3. CASE store = "sqlite"
    <3>1. table' = Without(table, Stale(table)) /\ index' = index
      BY <1>8, <2>3, Zenon DEF Prune
    <3>2. TokenMap(table')
      BY <1>0, <3>1, WithoutIs, Zenon DEF FileType
    <3>3. FileType'
      BY <1>0, <2>1, <3>2, Zenon DEF FileType, TokenMap, Issued
    <3>4. Len(file) \in Nat /\ Len(file') \in Nat /\ Len(file) <= Len(file')
      <4>1. Len(file) \in Nat
        BY <1>0, LenProperties DEF FileType
      <4>. QED  BY <2>1, <4>1
    <3>. QED  BY <1>0, <2>1, <2>2, <3>1, <3>3, <3>4, SameMemory, Zenon
  <2>4. CASE store # "sqlite"
    <3>1. index' = [index EXCEPT ![s] = Without(index[s], Stale(index[s]))] /\ table' = table
      BY <1>8, <2>4, Zenon DEF Prune
    <3>2. TokenMap(Without(index[s], Stale(index[s])))
      BY <1>0, WithoutIs, Zenon DEF MemoryType
    <3>3. FileType' /\ Len(file) \in Nat /\ Len(file') \in Nat /\ Len(file) <= Len(file')
      BY <1>0, <2>1, <3>1, SameFile, Zenon
    <3>4. lastSize' = [lastSize EXCEPT ![s] = lastSize[s]] /\ lastSize[s] \in 0..Len(file')
      <4>1. lastSize \in [Services -> 0..Len(file)]
        BY <1>0, Zenon DEF MemoryType
      <4>. QED  BY <2>1, <4>1
    <3>5. overlooked' = [overlooked EXCEPT ![s] = overlooked[s]] /\ overlooked[s] \in SUBSET Issued
      <4>1. overlooked \in [Services -> SUBSET Issued]
        BY <1>0, Zenon DEF MemoryType
      <4>. QED  BY <2>1, <4>1
    <3>. QED  BY <1>0, <2>1, <2>2, <3>1, <3>2, <3>3, <3>4, <3>5, MemoryStep, Zenon
  <2>. QED  BY <2>3, <2>4
<1>9. ASSUME NEW s \in Services, Restart(s) PROVE TypeOK'
  <2>1. UNCHANGED <<store, now, expires, table, file, acked, ends, written>> /\ Crash
    BY <1>9, Zenon DEF Restart
  <2>2. Started(s, Opened')
    BY <1>9, <2>1 DEF Restart, Opened, ReadFile, LinesOf
  <2>3. FileType' /\ Len(file) \in Nat /\ Len(file') \in Nat /\ Len(file) <= Len(file')
    BY <1>0, <2>1, SameFile, Zenon
  <2>. QED  BY <1>0, <1>1, <2>1, <2>2, <2>3, CrashType, StartedType, SameFrame, Zenon
<1>10. ASSUME NEW s \in Services, Admit(s) \/ Refuse(s) \/ Unavailable(s) PROVE TypeOK'
  <2>1. ASSUME Admit(s) PROVE TypeOK'
    BY <1>1, <1>7, <2>1, Zenon DEF Admit
  <2>2. ASSUME Refuse(s) PROVE TypeOK'
    BY <1>1, <1>7, <2>2, Zenon DEF Refuse
  <2>3. ASSUME Unavailable(s) PROVE TypeOK'
    <3>1. Crash /\ Answer(s, "refused")
      BY <2>3, Zenon DEF Unavailable, Crash
    <3>. QED  BY <1>7, <3>1, CrashType, Zenon
  <2>. QED  BY <1>10, <2>1, <2>2, <2>3, Zenon
<1>11. ASSUME Tick PROVE TypeOK'
  <2>1. UNCHANGED <<store, expires, stored, guard, acked, noted, written, faults>>
    BY <1>11, Zenon DEF Tick
  <2>2. now' \in 0..MaxTime
    BY <1>1, <1>11, BoundsAssumption DEF Tick
  <2>3. FileType' /\ MemoryType'
    BY <1>0, <2>1, SameStores, Zenon
  <2>. QED  BY <1>0, <1>1, <2>1, <2>2, <2>3, SameFrame, Zenon DEF GuardType
<1>12. ASSUME UNCHANGED vars PROVE TypeOK'
  <2>1. UNCHANGED <<store, now, expires, stored, guard, acked, noted, written, faults>>
    BY <1>12 DEF vars
  <2>2. FileType' /\ MemoryType'
    BY <1>0, <2>1, SameStores, Zenon
  <2>. QED  BY <1>0, <1>1, <2>1, <2>2, SameFrame, Zenon DEF GuardType
<1>. QED
  BY <1>2, <1>4, <1>5, <1>6, <1>8, <1>9, <1>10, <1>11, <1>12, Zenon DEF Next

-----------------------------------------------------------------------------
(* The entries outlast what their tokens were revoked for.                  *)

\* What changes as time passes and revocations are written: the file only grows,
\* and the earliest end of a token comes no later than before.
Grown ==
  /\ \A n \in 1..Len(file) : file'[n] = file[n]
  /\ \A t \in DOMAIN ends : /\ t \in DOMAIN ends' /\ ends'[t] <= ends[t]
                            /\ InForce(t)' => InForce(t)
  /\ \A t : Listed(t) => Listed(t)'

\* A line that is taken for read is a line of the file.
LEMMA LineIs ==
  ASSUME TypeOK, NEW s \in Services
  PROVE  /\ Len(file) \in Nat /\ DOMAIN file = 1..Len(file)
         /\ lastSize[s] \in 0..Len(file)
         /\ \A n \in 1..lastSize[s] : n \in 1..Len(file)
<1>1. Len(file) \in Nat /\ DOMAIN file = 1..Len(file)
  BY LenProperties DEF TypeOK
<1>2. lastSize[s] \in 0..Len(file)
  BY DEF TypeOK
<1>. QED  BY <1>1, <1>2

\* Nothing is written: the stores grow by nothing.
LEMMA GrownSame ==
  ASSUME TypeOK, TypeOK', UNCHANGED <<file, ends>>, now <= now'
  PROVE  Grown
<1>1. ASSUME NEW t \in DOMAIN ends PROVE ends[t] \in Nat /\ ends[t] <= ends[t]
  <2>1. ends[t] \in Nat
    BY Zenon DEF TypeOK, TokenMap
  <2>. QED  BY <2>1
<1>2. now \in Nat /\ now' \in Nat
  <2>1. MaxTime \in Nat
    BY BoundsAssumption, Zenon
  <2>2. now \in 0..MaxTime /\ now' \in 0..MaxTime
    BY Zenon DEF TypeOK
  <2>. QED  BY <2>1, <2>2
<1>3. ASSUME NEW t \in DOMAIN ends, InForce(t)' PROVE InForce(t)
  BY <1>1, <1>2, <1>3 DEF InForce
<1>. QED  BY <1>1, <1>3, Zenon DEF Grown, Listed

\* Where the disk and the answers stay, what is true of them stays true.
LEMMA RowsSame ==
  ASSUME RowInv, LineInv, Grown, UNCHANGED <<store, table, file, ends, acked>>
  PROVE  RowInv' /\ LineInv'
<1>1. \A t : t \in DOMAIN ends => (InForce(t)' => InForce(t))
  BY Zenon DEF Grown
<1>2. \A t : InForce(t)' => t \in DOMAIN ends
  BY DEF InForce
<1>3. RowInv'
  BY <1>1, <1>2, Zenon DEF RowInv
<1>4. LineInv'
  BY Zenon DEF LineInv, Listed
<1>. QED  BY <1>3, <1>4

\* A line of before that is in force was so before.
LEMMA GrownForce ==
  ASSUME Grown, NEW n, file'[n] = file[n], file[n].token \in DOMAIN ends, InForce(file[n].token)'
  PROVE  InForce(file[n].token)
<1> DEFINE t == file[n].token
<1>1. t \in DOMAIN ends' /\ now' <= ends'[t]
  BY DEF InForce
<1>2. InForce(t)'
  BY <1>1 DEF InForce
<1>. QED  BY <1>2, Zenon DEF Grown

\* A service that does nothing still has read what it had.
LEMMA MemoryKept ==
  ASSUME TypeOK, TypeOK', LineInv, store = "file", Grown, NEW s \in Services, IndexOf(s),
         index'[s] = index[s], lastSize'[s] = lastSize[s], overlooked'[s] = overlooked[s]
  PROVE  IndexOf(s)'
<1>1. ASSUME NEW t \in DOMAIN index[s]
      PROVE  t \in DOMAIN ends' /\ ends'[t] <= index[s][t] /\ Listed(t)'
  <2>1. t \in DOMAIN ends /\ ends[t] <= index[s][t] /\ Listed(t)
    BY Zenon DEF IndexOf
  <2>2. t \in DOMAIN ends' /\ ends'[t] <= ends[t] /\ Listed(t)'
    BY <2>1, Zenon DEF Grown
  <2>3. ends[t] \in Nat /\ ends'[t] \in Nat /\ index[s][t] \in Nat
    BY <2>1, <2>2, Zenon DEF TypeOK, TokenMap
  <2>. QED  BY <2>1, <2>2, <2>3
<1>2. ASSUME NEW n \in 1..lastSize[s], InForce(file[n].token)'
      PROVE  file'[n].token \in DOMAIN index[s] \cup overlooked[s]
  <2>1. n \in DOMAIN file /\ file'[n] = file[n]
    BY LineIs, Zenon DEF Grown
  <2>2. InForce(file[n].token)
    BY <1>2, <2>1, GrownForce, Zenon DEF LineInv
  <2>. QED  BY <2>1, <2>2, Zenon DEF IndexOf
<1>. QED  BY <1>1, <1>2, Zenon DEF IndexOf

\* A service's memory is replaced by one that holds what it must, and the others
\* keep theirs.
LEMMA MemoryReplaced ==
  ASSUME TypeOK, TypeOK', LineInv, IndexInv, Grown, UNCHANGED store, NEW s \in Services,
         \A u \in Services : u # s => /\ index'[u] = index[u] /\ lastSize'[u] = lastSize[u]
                                      /\ overlooked'[u] = overlooked[u],
         store = "file" => IndexOf(s)'
  PROVE  IndexInv'
<1>. SUFFICES ASSUME store = "file", NEW u \in Services PROVE IndexOf(u)'
  BY DEF IndexInv
<1>1. CASE u = s
  BY <1>1
<1>2. CASE u # s
  BY <1>2, MemoryKept, Zenon DEF IndexInv
<1>. QED  BY <1>1, <1>2

\* When the memories stay as they are.
LEMMA MemoriesSame ==
  ASSUME TypeOK, TypeOK', LineInv, IndexInv, Grown, UNCHANGED <<store, index, lastSize, overlooked>>
  PROVE  IndexInv'
<1>. SUFFICES ASSUME store = "file", NEW u \in Services PROVE IndexOf(u)'
  BY DEF IndexInv
<1>. QED  BY MemoryKept, Zenon DEF IndexInv

\* The arrays of memories have one for each service.
LEMMA MemoryDomains ==
  TypeOK => DOMAIN index = Services /\ DOMAIN lastSize = Services /\ DOMAIN overlooked = Services
BY DEF TypeOK

\* The constructor reads the file.
LEMMA StartedKnows ==
  ASSUME TypeOK, TypeOK', LineInv', (store = "file")', NEW s \in Services, Started(s, Opened')
  PROVE  IndexOf(s)'
<1>1. /\ index' = [index EXCEPT ![s] = ReadFile']
      /\ lastSize' = [lastSize EXCEPT ![s] = Len(file')]
      /\ overlooked' = [overlooked EXCEPT ![s] = {}]
  BY DEF Started, Opened
<1>2. index'[s] = ReadFile' /\ lastSize'[s] = Len(file')
  BY <1>1, MemoryDomains, Zenon
<1>3. ReadsAll'
  BY TypeOK', LineInv', (store = "file")', ReadFileLists, PTL
<1>4. DOMAIN file' = 1..Len(file')
  BY LenProperties DEF TypeOK
<1>5. \A n \in 1..Len(file') : Listed(file[n].token)'
  BY <1>4, Zenon DEF Listed
<1>. QED  BY <1>2, <1>3, <1>5, Zenon DEF IndexOf, ReadsAll

\* A revocation is written, and perhaps answered.
LEMMA Written ==
  ASSUME TypeOK, TypeOK', RowInv, LineInv, NEW t \in Tokens, NEW exp \in Nat, Write(t, exp),
         UNCHANGED <<store, now>>, acked' \in {acked, acked \cup {t}}
  PROVE  /\ Grown /\ RowInv' /\ LineInv'
         /\ t \in DOMAIN ends' /\ ends'[t] <= exp
         /\ store = "file" => /\ Listed(t)' /\ Len(file') = Len(file) + 1
                              /\ file'[Len(file) + 1].token = t
<1>1. /\ DOMAIN ends' = DOMAIN ends \cup {t} /\ ends'[t] = Sooner(t, exp)
      /\ \A u \in DOMAIN ends : u # t => ends'[u] = ends[u]
  BY Zenon DEF Write, Put
<1>2. \A u \in DOMAIN ends : ends[u] \in Nat
  BY Zenon DEF TypeOK, TokenMap
<1>3. ends'[t] <= exp /\ ends'[t] \in Nat /\ (t \in DOMAIN ends => ends'[t] <= ends[t])
  BY <1>1, <1>2 DEF Sooner
<1>4. ASSUME NEW u \in DOMAIN ends
      PROVE  u \in DOMAIN ends' /\ ends'[u] <= ends[u] /\ ends'[u] \in Nat /\ ends[u] \in Nat
  <2>1. CASE u = t
    BY <1>1, <1>2, <1>3, <2>1
  <2>2. CASE u # t
    BY <1>1, <1>2, <2>2
  <2>. QED  BY <2>1, <2>2
<1>5. ASSUME NEW u \in DOMAIN ends, InForce(u)' PROVE InForce(u)
  <2>1. now <= ends'[u] /\ now \in Nat
    BY <1>5, ClockIs DEF InForce
  <2>. QED  BY <1>4, <2>1 DEF InForce
<1>6. \A u, m : u \in DOMAIN ends /\ m \in Nat /\ ends[u] <= m => ends'[u] <= m
  BY <1>4
<1>7. acked' \subseteq acked \cup {t}
  OBVIOUS
<1>8. CASE store = "sqlite"
  <2>1. /\ DOMAIN table' = DOMAIN table \cup {t} /\ table'[t] = exp
        /\ \A u \in DOMAIN table : u # t => table'[u] = table[u]
        /\ file' = file
    BY <1>8, Zenon DEF Write, Put
  <2>2. ASSUME NEW u \in DOMAIN table' PROVE u \in DOMAIN ends' /\ ends'[u] <= table'[u]
    <3>1. CASE u = t
      BY <1>1, <1>3, <2>1, <3>1
    <3>2. CASE u # t
      <4>1. u \in DOMAIN table /\ u \in DOMAIN ends /\ ends[u] <= table[u] /\ table[u] \in Nat
        BY <1>8, <2>1, <2>2, <3>2, Zenon DEF RowInv, TypeOK, TokenMap
      <4>. QED  BY <1>1, <1>6, <2>1, <3>2, <4>1, Zenon
    <3>. QED  BY <3>1, <3>2
  <2>3. ASSUME NEW u \in acked', InForce(u)' PROVE u \in DOMAIN table'
    <3>1. CASE u = t
      BY <2>1, <3>1
    <3>2. CASE u # t
      <4>1. u \in acked /\ u \in DOMAIN ends
        BY <1>1, <1>7, <2>3, <3>2 DEF InForce
      <4>. QED  BY <1>5, <1>8, <2>1, <2>3, <4>1, Zenon DEF RowInv
    <3>. QED  BY <3>1, <3>2
  <2>4. RowInv' /\ LineInv'
    BY <1>8, <2>2, <2>3 DEF RowInv, LineInv
  <2>5. Grown
    BY <1>4, <1>5, <2>1, Zenon DEF Grown, Listed
  <2>. QED  BY <1>1, <1>3, <1>8, <2>4, <2>5
<1>9. CASE store # "sqlite"
  <2> DEFINE line == [token |-> t, exp |-> exp]
  <2>1. store = "file" /\ file' = Append(file, line) /\ table' = table
    BY <1>9, StoreIs DEF Write
  <2>2. /\ Len(file) \in Nat /\ Len(file') = Len(file) + 1
        /\ \A n \in 1..Len(file) : file'[n] = file[n]
        /\ file'[Len(file) + 1].token = t /\ file'[Len(file) + 1].exp = exp
    <3>1. line \in [token : Tokens, exp : Nat]
      OBVIOUS
    <3>. QED  BY <2>1, <3>1, AppendProperties, LenProperties DEF TypeOK
  <2>3. DOMAIN file = 1..Len(file) /\ DOMAIN file' = 1..(Len(file) + 1)
    BY <2>2, LenProperties DEF TypeOK
  <2>4. /\ DOMAIN file' = DOMAIN file \cup {Len(file) + 1}
        /\ \A n \in DOMAIN file : file'[n] = file[n]
    BY <2>2, <2>3
  <2>5. Listed(t)' /\ \A u : Listed(u) => Listed(u)'
    BY <2>2, <2>4, Zenon DEF Listed
  <2>6. ASSUME NEW n \in DOMAIN file'
        PROVE  file'[n].token \in DOMAIN ends' /\ ends'[file'[n].token] <= file'[n].exp
    <3>1. CASE n = Len(file) + 1
      BY <1>1, <1>3, <2>2, <3>1
    <3>2. CASE n # Len(file) + 1
      <4>1. n \in DOMAIN file /\ file'[n] = file[n]
        BY <2>4, <2>6, <3>2, Zenon
      <4>2. file[n].token \in DOMAIN ends /\ ends[file[n].token] <= file[n].exp
        BY <2>1, <4>1, Zenon DEF LineInv
      <4>3. file[n].exp \in Nat
        <5>1. file[n] \in [token : Tokens, exp : Nat]
          BY <4>1, <2>3, ElementOfSeq DEF TypeOK
        <5>. QED  BY <5>1
      <4>. QED  BY <1>1, <1>6, <4>1, <4>2, <4>3, Zenon
    <3>. QED  BY <3>1, <3>2
  <2>7. LineInv'
    BY <1>7, <2>1, <2>5, <2>6, Zenon DEF LineInv
  <2>8. RowInv'
    BY <1>9 DEF RowInv
  <2>9. Grown
    BY <1>4, <1>5, <2>2, <2>5, Zenon DEF Grown
  <2>. QED  BY <1>1, <1>3, <2>2, <2>5, <2>7, <2>8, <2>9
<1>. QED  BY <1>8, <1>9

\* What a replica remembers of its own line is that line and what it had; what it
\* has not read it overlooks.
LEMMA Remembered ==
  ASSUME TypeOK, TypeOK', LineInv, store = "file", Grown, NEW c \in Services, IndexOf(c),
         NEW t \in Tokens, NEW exp \in Nat, Remember(c, t, exp),
         t \in DOMAIN ends', ends'[t] <= exp, Listed(t)', Len(file') = Len(file) + 1,
         file'[Len(file) + 1].token = t
  PROVE  IndexOf(c)'
<1> DEFINE map == Put(index[c], t, exp)
           missed == (overlooked[c] \cup Unread(c)) \ {t}
<1>1. /\ index' = [index EXCEPT ![c] = map]
      /\ lastSize' = [lastSize EXCEPT ![c] = Len(file) + 1]
      /\ overlooked' = [overlooked EXCEPT ![c] = missed]
  BY DEF Remember
<1>2. index'[c] = map /\ lastSize'[c] = Len(file) + 1 /\ overlooked'[c] = missed
  <2> HIDE DEF map, missed
  <2>. QED  BY <1>1, MemoryDomains, Zenon
<1>3. /\ DOMAIN map = DOMAIN index[c] \cup {t} /\ map[t] = exp
      /\ \A u \in DOMAIN index[c] : u # t => map[u] = index[c][u]
  BY Zenon DEF Put
<1>4. ASSUME NEW u \in DOMAIN map PROVE u \in DOMAIN ends' /\ ends'[u] <= map[u] /\ Listed(u)'
  <2>1. CASE u = t
    BY <1>3, <2>1, Zenon
  <2>2. CASE u # t
    <3>1. u \in DOMAIN index[c] /\ map[u] = index[c][u]
      BY <1>3, <1>4, <2>2, Zenon
    <3>2. u \in DOMAIN ends /\ ends[u] <= index[c][u] /\ Listed(u)
      BY <3>1, Zenon DEF IndexOf
    <3>3. u \in DOMAIN ends' /\ ends'[u] <= ends[u] /\ Listed(u)'
      BY <3>2, Zenon DEF Grown
    <3>4. ends[u] \in Nat /\ ends'[u] \in Nat /\ index[c][u] \in Nat
      BY <3>1, <3>2, <3>3, Zenon DEF TypeOK, TokenMap
    <3>. QED  BY <3>1, <3>2, <3>3, <3>4
  <2>. QED  BY <2>1, <2>2
<1>5. ASSUME NEW n \in 1..(Len(file) + 1), InForce(file[n].token)'
      PROVE  file'[n].token \in DOMAIN map \cup missed
  <2>0. Len(file) \in Nat /\ DOMAIN file = 1..Len(file) /\ lastSize[c] \in 0..Len(file)
    BY LineIs
  <2>1. CASE n = Len(file) + 1
    BY <1>3, <2>1
  <2>2. CASE n \in 1..lastSize[c]
    <3>1. n \in DOMAIN file /\ file'[n] = file[n]
      BY <2>2, LineIs, Zenon DEF Grown
    <3>2. InForce(file[n].token)
      BY <1>5, <3>1, GrownForce, Zenon DEF LineInv
    <3>3. file[n].token \in DOMAIN index[c] \cup overlooked[c]
      BY <2>2, <3>2, Zenon DEF IndexOf
    <3>. QED  BY <1>3, <3>1, <3>3
  <2>3. CASE n \in (lastSize[c] + 1)..Len(file)
    <3>1. n \in 1..Len(file)
      BY <2>0, <2>3
    <3>2. file'[n] = file[n] /\ file[n].token \in Unread(c)
      BY <2>3, <3>1, Zenon DEF Grown, Unread
    <3>. QED  BY <1>3, <3>2
  <2>4. n = Len(file) + 1 \/ n \in 1..lastSize[c] \/ n \in (lastSize[c] + 1)..Len(file)
    BY <2>0
  <2>. QED  BY <2>1, <2>2, <2>3, <2>4
<1> HIDE DEF map, missed
<1>. QED  BY <1>2, <1>4, <1>5, Zenon DEF IndexOf

\* isRevoked() reads the file, if it reads it, to its end.
LEMMA AskKnows ==
  ASSUME TypeOK, RowInv, LineInv, IndexInv, store = "file",
         NEW s \in Services, NEW t \in Tokens, Ask(s, t)
  PROVE  /\ IndexOf(s)'
         /\ \A u \in Services : u # s => /\ index'[u] = index[u] /\ lastSize'[u] = lastSize[u]
                                         /\ overlooked'[u] = overlooked[u]
<1> DEFINE map == Without(Known(s), {t} \ Live(Known(s)))
<1>1. /\ index' = [index EXCEPT ![s] = map]
      /\ lastSize' = [lastSize EXCEPT ![s] = Len(file)]
      /\ overlooked' = [overlooked EXCEPT ![s] = Missed(s)]
      /\ UNCHANGED <<now, file, ends>>
  BY DEF Ask
<1>2. /\ index'[s] = map /\ lastSize'[s] = Len(file) /\ overlooked'[s] = Missed(s)
      /\ \A u \in Services : u # s => /\ index'[u] = index[u] /\ lastSize'[u] = lastSize[u]
                                      /\ overlooked'[u] = overlooked[u]
  <2> HIDE DEF map
  <2>. QED  BY <1>1, MemoryDomains, Zenon
<1>3. Known(s) = Refreshed(s)
  BY DEF Known
<1>4. /\ \A u \in DOMAIN Known(s) : u \in DOMAIN ends /\ ends[u] <= Known(s)[u] /\ Listed(u)
      /\ \A u : InForce(u) /\ Listed(u) => u \in DOMAIN Known(s) \cup Missed(s)
  BY <1>3, RefreshedLists, Zenon
<1>5. \A u \in DOMAIN map : u \in DOMAIN ends /\ ends[u] <= map[u] /\ Listed(u)
  BY <1>4, Zenon DEF Without
<1>6. InForce(t) /\ Listed(t) /\ t \notin Missed(s) => t \in Live(Known(s))
  BY AnswerIs DEF RevokedAt
<1>7. \A u : InForce(u) /\ Listed(u) => u \in DOMAIN map \cup Missed(s)
  BY <1>4, <1>6, Zenon DEF Without
<1>8. \A n \in 1..Len(file) : Listed(file[n].token)
  BY LenProperties DEF TypeOK, Listed
<1>9. /\ \A u : Listed(u)' <=> Listed(u)
      /\ \A n : InForce(file[n].token)' <=> InForce(file[n].token)
  BY <1>1 DEF Listed, InForce
<1> HIDE DEF map
<1>. QED  BY <1>1, <1>2, <1>5, <1>7, <1>8, <1>9, Zenon DEF IndexOf

\* prune() removes only what is no longer in force.
LEMMA PruneKeeps ==
  ASSUME TypeOK, TypeOK', RowInv, LineInv, IndexInv, NEW c \in Services, Prune(c)
  PROVE  RowInv' /\ LineInv' /\ IndexInv'
<1>1. UNCHANGED <<store, now, expires, file, lastSize, acked, ends, overlooked>>
  BY DEF Prune, noted
<1>2. Grown
  <2>1. now <= now'
    BY <1>1, ClockIs
  <2>. QED  BY <1>1, <2>1, GrownSame
<1>3. ASSUME NEW map, TokenMap(map), NEW t \in DOMAIN map, t \in DOMAIN ends, ends[t] <= map[t],
             InForce(t)
      PROVE  t \in DOMAIN Without(map, Stale(map))
  <2>1. ends[t] \in Nat /\ map[t] \in Nat /\ now \in Nat /\ now <= ends[t]
    BY <1>3, ClockIs, Zenon DEF InForce, TypeOK, TokenMap
  <2>2. ~(map[t] < now)
    BY <1>3, <2>1
  <2>. QED  BY <2>2, Zenon DEF Without, Stale
<1>4. CASE store = "sqlite"
  <2>1. table' = Without(table, Stale(table)) /\ store' # "file"
    BY <1>1, <1>4 DEF Prune
  <2>2. DOMAIN table' \subseteq DOMAIN table /\ \A t \in DOMAIN table' : table'[t] = table[t]
    BY <2>1, Zenon DEF Without
  <2>3. TokenMap(table)
    BY Zenon DEF TypeOK
  <2>4. \A t : InForce(t)' <=> InForce(t)
    BY <1>1 DEF InForce
  <2>5. \A t \in acked : InForce(t) => t \in DOMAIN table'
    BY <1>3, <1>4, <2>1, <2>3, Zenon DEF RowInv
  <2>6. RowInv'
    BY <1>1, <1>4, <2>2, <2>4, <2>5, Zenon DEF RowInv
  <2>. QED  BY <2>1, <2>6, Zenon DEF LineInv, IndexInv
<1>5. CASE store # "sqlite"
  <2> DEFINE map == Without(index[c], Stale(index[c]))
  <2>1. store = "file" /\ index' = [index EXCEPT ![c] = map] /\ table' = table
    BY <1>5, StoreIs DEF Prune
  <2>2. /\ index'[c] = map
        /\ \A u \in Services : u # c => index'[u] = index[u]
    <3>1. DOMAIN index = Services
      BY DEF TypeOK
    <3> HIDE DEF map
    <3>. QED  BY <2>1, <3>1, Zenon
  <2>3. DOMAIN map \subseteq DOMAIN index[c] /\ \A t \in DOMAIN map : map[t] = index[c][t]
    BY Zenon DEF Without
  <2>4. IndexOf(c)
    BY <2>1, Zenon DEF IndexInv
  <2>5. \A t \in DOMAIN map : t \in DOMAIN ends /\ ends[t] <= map[t] /\ Listed(t)
    BY <2>3, <2>4, Zenon DEF IndexOf
  <2>6. TokenMap(index[c])
    BY Zenon DEF TypeOK
  <2>7. \A t \in DOMAIN index[c] : InForce(t) => t \in DOMAIN map
    BY <1>3, <2>4, <2>6, Zenon DEF IndexOf
  <2>8. \A n \in 1..lastSize[c] :
          InForce(file[n].token) => file[n].token \in DOMAIN map \cup overlooked[c]
    BY <2>4, <2>7, Zenon DEF IndexOf
  <2>9. /\ \A t : Listed(t)' <=> Listed(t)
        /\ \A n : InForce(file[n].token)' <=> InForce(file[n].token)
    BY <1>1 DEF Listed, InForce
  <2>10. IndexOf(c)'
    <3> HIDE DEF map
    <3>. QED  BY <1>1, <2>2, <2>5, <2>8, <2>9, Zenon DEF IndexOf
  <2>11. IndexInv'
    BY <1>1, <1>2, <2>2, <2>10, MemoryReplaced, Zenon
  <2>. QED  BY <1>1, <1>2, <2>1, <2>11, RowsSame, Zenon
<1>. QED  BY <1>4, <1>5

-----------------------------------------------------------------------------
(* The guards, and the theorems.                                           *)

\* A request whose token the service had to know revoked is marked revoked when
\* it is asked about, and never admitted.
LEMMA GuardStep ==
  ASSUME IInv, [Next]_vars
  PROVE  GuardInv'
<1>0. TypeOK /\ RowInv /\ LineInv /\ IndexInv /\ GuardInv /\ DOMAIN guard = Services
  BY DEF IInv, TypeOK
<1>1. ASSUME NEW s \in Services, NEW r, guard' = [guard EXCEPT ![s] = r],
             r.barred => (r.at = "asked" => r.revoked) /\ r.at # "admitted"
      PROVE  GuardInv'
  <2>1. guard'[s] = r /\ \A u \in Services : u # s => guard'[u] = guard[u]
    BY <1>0, <1>1, Zenon
  <2>. QED  BY <1>0, <1>1, <2>1, Zenon DEF GuardInv
<1>2. ASSUME guard' = guard PROVE GuardInv'
  BY <1>0, <1>2, Zenon DEF GuardInv
<1>3. ASSUME NEW s \in Services, guard' = [guard EXCEPT ![s] = Idle] PROVE GuardInv'
  <2>1. Idle.barred = FALSE
    BY DEF Idle, Request
  <2>. QED  BY <1>1, <1>3, <2>1, Zenon
<1>4. ASSUME NEW s \in Services, NEW t \in Tokens, Ask(s, t) PROVE GuardInv'
  <2> DEFINE r == Request("asked", t, RevokedAt(s, t), Barred(s, t))
  <2>1. guard' = [guard EXCEPT ![s] = r]
    BY <1>4, Zenon DEF Ask
  <2>2. Barred(s, t) => RevokedAt(s, t)
    <3> SUFFICES ASSUME t \in acked, InForce(t), t \notin Missed(s) PROVE RevokedAt(s, t)
      BY DEF Barred
    <3>1. CASE store = "sqlite"
      BY <1>0, <3>1, AnswerIs, Zenon DEF RowInv
    <3>2. CASE store # "sqlite"
      <4>1. store = "file"
        BY <1>0, <3>2, StoreIs
      <4>. QED  BY <1>0, <3>2, <4>1, AnswerIs, Zenon DEF LineInv
    <3>. QED  BY <3>1, <3>2
  <2>3. r.at = "asked" /\ r.revoked = RevokedAt(s, t) /\ r.barred = Barred(s, t)
    BY DEF Request
  <2>4. r.at # "admitted"
    BY <2>3
  <2> HIDE DEF r
  <2>. QED  BY <1>1, <2>1, <2>2, <2>3, <2>4, Zenon
<1>5. ASSUME NEW s \in Services, NEW verdict, Answer(s, verdict),
             (verdict = "admitted" /\ ~guard[s].revoked) \/ verdict = "refused"
      PROVE  GuardInv'
  <2> DEFINE r == Request(verdict, guard[s].token, guard[s].revoked, guard[s].barred)
  <2>1. guard' = [guard EXCEPT ![s] = r] /\ guard[s].at = "asked"
    BY <1>5, Zenon DEF Answer, Waiting
  <2>2. r.at = verdict /\ r.barred = guard[s].barred
    BY DEF Request
  <2>3. verdict # "asked"
    BY <1>5
  <2>4. guard[s].barred => guard[s].revoked
    BY <1>0, <2>1, Zenon DEF GuardInv
  <2>5. r.barred => r.at # "admitted"
    BY <1>5, <2>2, <2>4
  <2> HIDE DEF r
  <2>. QED  BY <1>1, <2>1, <2>2, <2>3, <2>5, Zenon
<1>6. ASSUME NEW s \in Services, Admit(s) \/ Refuse(s) \/ Unavailable(s) PROVE GuardInv'
  BY <1>5, <1>6, Zenon DEF Admit, Refuse, Unavailable
<1>7. ASSUME Next, ~(\E s \in Services : \/ \E t \in Tokens : Ask(s, t)
                                         \/ Admit(s) \/ Refuse(s) \/ Unavailable(s))
      PROVE  guard' = guard \/ \E s \in Services : guard' = [guard EXCEPT ![s] = Idle]
  BY <1>7, Zenon DEF Next, Issue, Revoke, RevokeUnanswered, Started, Prune, Restart, Tick
<1>8. ASSUME UNCHANGED vars PROVE guard' = guard
  BY <1>8 DEF vars
<1>. QED  BY <1>2, <1>3, <1>4, <1>6, <1>7, <1>8, Zenon

\* The inductive step.
LEMMA Step == IInv /\ [Next]_vars => IInv'
<1> SUFFICES ASSUME IInv, [Next]_vars PROVE IInv'
  OBVIOUS
<1>0. TypeOK /\ RowInv /\ LineInv /\ IndexInv
  BY DEF IInv
<1>1. TypeOK'
  BY <1>0, TypeStep, Zenon
<1>2. GuardInv'
  BY GuardStep, Zenon
<1>3. now \in Nat /\ now <= now
  BY <1>0, ClockIs
<1>4. ASSUME UNCHANGED <<store, stored, acked, noted>>, now <= now'
      PROVE  RowInv' /\ LineInv' /\ IndexInv'
  <2>1. UNCHANGED <<store, table, file, index, lastSize, acked, ends, overlooked>>
    BY <1>4 DEF stored, noted
  <2>2. Grown
    BY <1>0, <1>1, <1>4, <2>1, GrownSame, Zenon
  <2>. QED  BY <1>0, <1>1, <2>1, <2>2, RowsSame, MemoriesSame, Zenon
<1>5. ASSUME NEW t \in Tokens, NEW l \in Lifetimes, Issue(t, l)
      PROVE  RowInv' /\ LineInv' /\ IndexInv'
  <2>1. UNCHANGED <<store, now, stored, acked, noted>>
    BY <1>5 DEF Issue
  <2>. QED  BY <1>3, <1>4, <2>1, Zenon
<1>6. ASSUME Tick
      PROVE  RowInv' /\ LineInv' /\ IndexInv'
  <2>1. UNCHANGED <<store, stored, acked, noted>> /\ now' = now + 1
    BY <1>6 DEF Tick
  <2>2. now <= now'
    BY <1>3, <2>1
  <2>. QED  BY <1>4, <2>1, <2>2, Zenon
<1>7. ASSUME NEW c \in Services, NEW t \in Tokens, NEW exp \in Ends(t), RevokeRoute(c, t, exp),
             acked' \in {acked, acked \cup {t}}
      PROVE  /\ Grown /\ RowInv' /\ LineInv'
             /\ t \in DOMAIN ends' /\ ends'[t] <= exp /\ exp \in Nat /\ store' = store
             /\ store = "file" => /\ Listed(t)' /\ Len(file') = Len(file) + 1
                                  /\ file'[Len(file) + 1].token = t
  <2>1. exp \in Nat /\ Write(t, exp) /\ UNCHANGED <<store, now>>
    BY <1>0, <1>7, EndsType, Zenon DEF RevokeRoute
  <2>. QED  BY <1>0, <1>1, <1>7, <2>1, Written, Zenon
<1>8. ASSUME NEW c \in Services, NEW t \in Tokens, Revoke(c, t)
      PROVE  RowInv' /\ LineInv' /\ IndexInv'
  <2>1. PICK exp \in Ends(t) : RevokeRoute(c, t, exp) /\ Remember(c, t, exp) /\ acked' = acked \cup {t}
    BY <1>8, Zenon DEF Revoke
  <2>2. /\ Grown /\ RowInv' /\ LineInv'
        /\ t \in DOMAIN ends' /\ ends'[t] <= exp /\ exp \in Nat /\ store' = store
        /\ store = "file" => /\ Listed(t)' /\ Len(file') = Len(file) + 1
                             /\ file'[Len(file) + 1].token = t
    BY <1>7, <2>1, Zenon
  <2>3. CASE store = "sqlite"
    <3>1. UNCHANGED <<index, lastSize, overlooked>>
      BY <2>1, <2>3, Zenon DEF Remember
    <3>. QED  BY <1>0, <1>1, <2>2, <3>1, MemoriesSame, Zenon
  <2>4. CASE store # "sqlite"
    <3>1. store = "file"
      BY <1>0, <2>4, StoreIs
    <3>2. IndexOf(c)'
      BY <1>0, <1>1, <2>1, <2>2, <3>1, Remembered, Zenon DEF IndexInv
    <3>3. \A u \in Services : u # c => /\ index'[u] = index[u] /\ lastSize'[u] = lastSize[u]
                                       /\ overlooked'[u] = overlooked[u]
      BY <1>0, <2>1, <2>4, MemoryDomains, Zenon DEF Remember
    <3>. QED  BY <1>0, <1>1, <2>2, <3>2, <3>3, MemoryReplaced, Zenon
  <2>. QED  BY <2>3, <2>4
<1>9. ASSUME NEW s \in Services, Started(s, Opened'), Grown, RowInv', LineInv', store' = store
      PROVE  RowInv' /\ LineInv' /\ IndexInv'
  <2>1. \A u \in Services : u # s => /\ index'[u] = index[u] /\ lastSize'[u] = lastSize[u]
                                     /\ overlooked'[u] = overlooked[u]
    BY <1>0, <1>9, MemoryDomains, Zenon DEF Started
  <2>2. store = "file" => IndexOf(s)'
    BY <1>0, <1>1, <1>9, StartedKnows, Zenon
  <2>. QED  BY <1>0, <1>1, <1>9, <2>1, <2>2, MemoryReplaced, Zenon
<1>10. ASSUME NEW c \in Services, NEW t \in Tokens, RevokeUnanswered(c, t)
       PROVE  RowInv' /\ LineInv' /\ IndexInv'
  <2>1. PICK exp \in Ends(t) : RevokeRoute(c, t, exp) /\ Started(c, Opened') /\ acked' = acked
    BY <1>10, Zenon DEF RevokeUnanswered
  <2>. QED  BY <1>7, <1>9, <2>1, Zenon
<1>11. ASSUME UNCHANGED <<store, now, table, file, ends, acked>>
       PROVE  Grown /\ RowInv' /\ LineInv'
  <2>1. now <= now'
    BY <1>3, <1>11
  <2>2. Grown
    BY <1>0, <1>1, <1>11, <2>1, GrownSame, Zenon
  <2>. QED  BY <1>0, <1>11, <2>2, RowsSame, Zenon
<1>12. ASSUME NEW s \in Services, Restart(s)
       PROVE  RowInv' /\ LineInv' /\ IndexInv'
  <2>1. UNCHANGED <<store, now, table, file, ends, acked>>
    BY <1>12, Zenon DEF Restart
  <2>2. Started(s, Opened')
    BY <1>12, <2>1 DEF Restart, Opened, ReadFile, LinesOf
  <2>. QED  BY <1>9, <1>11, <2>1, <2>2, Zenon
<1>13. ASSUME NEW s \in Services, NEW t \in Tokens, Ask(s, t)
       PROVE  RowInv' /\ LineInv' /\ IndexInv'
  <2>1. UNCHANGED <<store, now, table, file, ends, acked>>
    BY <1>13, Zenon DEF Ask
  <2>2. CASE store = "file"
    BY <1>0, <1>1, <1>11, <1>13, <2>1, <2>2, AskKnows, MemoryReplaced, Zenon
  <2>3. CASE store # "file"
    BY <1>11, <2>1, <2>3, Zenon DEF IndexInv
  <2>. QED  BY <2>2, <2>3
<1>14. ASSUME NEW s \in Services, Prune(s)
       PROVE  RowInv' /\ LineInv' /\ IndexInv'
  BY <1>0, <1>1, <1>14, PruneKeeps, Zenon
<1>15. ASSUME NEW s \in Services, Admit(s) \/ Refuse(s) \/ Unavailable(s)
       PROVE  RowInv' /\ LineInv' /\ IndexInv'
  <2>1. UNCHANGED <<store, now, stored, acked, noted>>
    BY <1>15, Zenon DEF Admit, Refuse, Unavailable, Answer
  <2>. QED  BY <1>3, <1>4, <2>1, Zenon
<1>16. ASSUME UNCHANGED vars
       PROVE  RowInv' /\ LineInv' /\ IndexInv'
  <2>1. UNCHANGED <<store, now, stored, acked, noted>>
    BY <1>16 DEF vars
  <2>. QED  BY <1>3, <1>4, <2>1, Zenon
<1>17. RowInv' /\ LineInv' /\ IndexInv'
  BY <1>5, <1>6, <1>8, <1>10, <1>12, <1>13, <1>14, <1>15, <1>16, Zenon DEF Next
<1>. QED  BY <1>1, <1>2, <1>17, Zenon DEF IInv

-----------------------------------------------------------------------------
(* The beginning, and the theorems.                                        *)

LEMMA InitTypeOK == Init => TypeOK
<1> SUFFICES ASSUME Init PROVE TypeOK
  OBVIOUS
<1>1. Issued = {} /\ DOMAIN table = {} /\ DOMAIN ends = {} /\ DOMAIN file = {} /\ Len(file) = 0
      /\ file \in Seq([token : Tokens, exp : Nat])
      /\ \A s \in Services : DOMAIN index[s] = {}
  BY DEF Init, Issued
<1>2. GuardType
  <2>1. Idle \in [at : {"idle", "asked", "admitted", "refused"}, token : Tokens \cup {"none"},
                  revoked : BOOLEAN, barred : BOOLEAN]
    BY DEF Idle, Request
  <2>. QED  BY <2>1, Zenon DEF Init, GuardType
<1>3. now \in 0..MaxTime /\ written \in 0..MaxRevocations /\ faults \in 0..MaxFaults
  <2>1. MaxTime \in Nat /\ MaxRevocations \in Nat /\ MaxFaults \in Nat
    BY BoundsAssumption, Zenon
  <2>. QED  BY <2>1 DEF Init
<1>4. DOMAIN index = Services /\ lastSize \in [Services -> 0..Len(file)]
  BY <1>1 DEF Init
<1>5. Frame
  BY <1>1, <1>3, Zenon DEF Init, Frame, TokenMap, Issued
<1>6. FileType /\ overlooked \in [Services -> SUBSET Issued]
  BY <1>1, Zenon DEF Init, FileType, TokenMap
<1>7. MemoryType
  BY <1>1, <1>4, <1>6, Zenon DEF MemoryType, TokenMap
<1>. QED  BY <1>2, <1>5, <1>6, <1>7, TypeParts, Zenon

LEMMA InitIInv == Init => IInv
<1> SUFFICES ASSUME Init PROVE IInv
  OBVIOUS
<1>1. TypeOK
  BY InitTypeOK
<1>2. /\ DOMAIN table = {} /\ DOMAIN file = {} /\ acked = {}
      /\ \A s \in Services : DOMAIN index[s] = {} /\ lastSize[s] = 0 /\ ~guard[s].barred
  BY DEF Init, Idle, Request
<1>3. \A s \in Services : 1..lastSize[s] = {}
  BY <1>2
<1>. QED
  BY <1>1, <1>2, <1>3, Zenon DEF IInv, RowInv, LineInv, IndexInv, IndexOf, GuardInv

\* The state has its type, for any number of replicas and any lifetimes.
THEOREM RevocationTypeOK == Spec => []TypeOK
BY InitTypeOK, TypeStep, PTL DEF Spec

\* The inductive invariant: no entry ends before the earliest end its token was
\* given, an index that takes the file for read lists all its tokens in force but
\* those overlooked, and a guard that asked about a token it had to know revoked
\* was told so.
THEOREM RevocationInvariant == Spec => []IInv
BY InitIInv, Step, PTL DEF Spec

\* Once a revocation has been answered, no service admits the token again while
\* it is in force, but one that took a line about it for read (revoke, isRevoked,
\* prune, capabilityGuard).
THEOREM RevocationStays == Spec => []RevokedStaysRefused
<1>1. IInv => RevokedStaysRefused
  BY Zenon DEF IInv, GuardInv, RevokedStaysRefused
<1>. QED  BY RevocationInvariant, <1>1, PTL

\* All services give one answer about a token whose revocations are in force, but
\* for those that took a line about it for read (refresh, isRevoked, revoke).
THEOREM RevocationAgreed == Spec => []ServicesAgree
<1>1. IInv => ServicesAgree
  <2> SUFFICES ASSUME IInv, NEW t \in Tokens, NEW s1 \in Services, NEW s2 \in Services,
                      t \in DOMAIN ends => InForce(t),
                      t \notin Missed(s1), t \notin Missed(s2)
               PROVE  RevokedAt(s1, t) <=> RevokedAt(s2, t)
    BY Zenon DEF ServicesAgree
  <2>1. TypeOK /\ RowInv /\ LineInv /\ IndexInv
    BY DEF IInv
  <2>2. RevokedAt(s1, t) <=> IF store = "sqlite" THEN t \in DOMAIN table ELSE Listed(t)
    BY <2>1, AnswerIs, Zenon
  <2>3. RevokedAt(s2, t) <=> IF store = "sqlite" THEN t \in DOMAIN table ELSE Listed(t)
    BY <2>1, AnswerIs, Zenon
  <2>. QED  BY <2>2, <2>3, Zenon
<1>. QED  BY RevocationInvariant, <1>1, PTL

-----------------------------------------------------------------------------
(* Which services overlook a line at all.                                  *)

\* A replica that writes alone has read the file to its end.
OverlookInv ==
  /\ OnlyReplicasOverlook
  /\ \A c \in Services : c \in Capkits /\ ~Beside(c) => lastSize[c] = Len(file)

\* One service reads or writes, and the others keep what they have.
LEMMA OverlookStep ==
  ASSUME OverlookInv, UNCHANGED store, NEW s \in Services, file' = file \/ s \in Capkits,
         \A u \in Services : u # s => lastSize'[u] = lastSize[u] /\ overlooked'[u] = overlooked[u],
         overlooked'[s] # {} => Beside(s),
         s \in Capkits /\ ~Beside(s) => lastSize'[s] = Len(file')
  PROVE  OverlookInv'
<1>1. Capkits' = Capkits /\ \A u : Beside(u)' <=> Beside(u)
  BY DEF Capkits, Beside
<1>2. \A u \in Services : overlooked'[u] # {} => Beside(u)
  BY Zenon DEF OverlookInv, OnlyReplicasOverlook
<1>3. ASSUME NEW u \in Services, u \in Capkits, ~Beside(u) PROVE lastSize'[u] = Len(file')
  <2>1. CASE u = s
    BY <1>3, <2>1
  <2>2. CASE u # s
    <3>1. s \notin Capkits
      BY <1>3, <2>2, Zenon DEF Beside
    <3>. QED  BY <1>3, <2>2, <3>1, Zenon DEF OverlookInv
  <2>. QED  BY <2>1, <2>2
<1>. QED  BY <1>1, <1>2, <1>3, Zenon DEF OverlookInv, OnlyReplicasOverlook

\* A service starts: it reads the file as it is then.
LEMMA OverlookStarted ==
  ASSUME TypeOK, OverlookInv, UNCHANGED store, NEW s \in Services, file' = file \/ s \in Capkits,
         NEW opened, Started(s, opened), opened.size = Len(file')
  PROVE  OverlookInv'
<1>1. /\ lastSize'[s] = Len(file') /\ overlooked'[s] = {}
      /\ \A u \in Services : u # s => lastSize'[u] = lastSize[u] /\ overlooked'[u] = overlooked[u]
  BY MemoryDomains, Zenon DEF Started
<1>. QED  BY <1>1, OverlookStep, Zenon

LEMMA OverlookNext == TypeOK /\ OverlookInv /\ [Next]_vars => OverlookInv'
<1> SUFFICES ASSUME TypeOK, OverlookInv, [Next]_vars PROVE OverlookInv'
  OBVIOUS
<1>1. ASSUME UNCHANGED <<store, file, lastSize, overlooked>> PROVE OverlookInv'
  BY <1>1 DEF OverlookInv, OnlyReplicasOverlook, Beside, Capkits
<1>2. ASSUME NEW c \in Services, NEW t \in Tokens, Revoke(c, t) PROVE OverlookInv'
  <2>1. PICK exp \in Ends(t) : RevokeRoute(c, t, exp) /\ Remember(c, t, exp)
    BY <1>2, Zenon DEF Revoke
  <2>2. CASE store = "sqlite"
    BY <1>1, <2>1, <2>2, Zenon DEF RevokeRoute, Write, Remember
  <2>3. CASE store # "sqlite"
    <3> DEFINE missed == (overlooked[c] \cup Unread(c)) \ {t}
               size == Len(file) + 1
    <3>1. /\ lastSize' = [lastSize EXCEPT ![c] = size]
          /\ overlooked' = [overlooked EXCEPT ![c] = missed]
          /\ c \in Capkits /\ store' = store
          /\ file' = Append(file, [token |-> t, exp |-> exp])
      BY <2>1, <2>3, Zenon DEF RevokeRoute, Write, Remember
    <3>2. size = Len(file')
      <4>1. exp \in Nat
        BY <2>1, EndsType
      <4>2. [token |-> t, exp |-> exp] \in [token : Tokens, exp : Nat]
        BY <4>1
      <4>. QED  BY <3>1, <4>2, AppendProperties DEF TypeOK
    <3>3. ASSUME ~Beside(c) PROVE missed = {}
      <4>1. lastSize[c] = Len(file) /\ overlooked[c] = {}
        BY <3>1, <3>3, Zenon DEF OverlookInv, OnlyReplicasOverlook
      <4>2. Len(file) \in Nat
        BY LenProperties DEF TypeOK
      <4>3. (lastSize[c] + 1)..Len(file) = {}
        BY <4>1, <4>2
      <4>. QED  BY <4>1, <4>3, Zenon DEF Unread
    <3> HIDE DEF missed, size
    <3>4. /\ lastSize'[c] = size /\ overlooked'[c] = missed
          /\ \A u \in Services : u # c => lastSize'[u] = lastSize[u] /\ overlooked'[u] = overlooked[u]
      BY <3>1, MemoryDomains, Zenon
    <3>. QED  BY <3>1, <3>2, <3>3, <3>4, OverlookStep, Zenon
  <2>. QED  BY <2>2, <2>3
<1>3. ASSUME NEW c \in Services, NEW t \in Tokens, RevokeUnanswered(c, t) PROVE OverlookInv'
  <2>1. c \in Capkits /\ store' = store /\ Started(c, Opened')
    BY <1>3, Zenon DEF RevokeUnanswered, RevokeRoute
  <2>2. (Opened').size = Len(file')
    BY DEF Opened
  <2>. QED  BY <2>1, <2>2, OverlookStarted, Zenon
<1>4. ASSUME NEW s \in Services, Restart(s) PROVE OverlookInv'
  <2>1. file' = file /\ store' = store /\ Started(s, Opened)
    BY <1>4, Zenon DEF Restart
  <2>2. Opened.size = Len(file')
    BY <2>1 DEF Opened
  <2>. QED  BY <2>1, <2>2, OverlookStarted, Zenon
<1>5. ASSUME NEW s \in Services, NEW t \in Tokens, Ask(s, t) PROVE OverlookInv'
  <2>1. /\ store' = store /\ file' = file
        /\ lastSize' = lastSize \/ lastSize' = [lastSize EXCEPT ![s] = Len(file)]
        /\ overlooked' = [overlooked EXCEPT ![s] = Missed(s)]
    BY <1>5, Zenon DEF Ask
  <2>2. overlooked'[s] # {} => overlooked[s] # {}
    BY <2>1, MemoryDomains, Zenon DEF Missed
  <2>3. lastSize'[s] = lastSize[s] \/ lastSize'[s] = Len(file')
    BY <2>1, MemoryDomains, Zenon
  <2>4. \A u \in Services : u # s => lastSize'[u] = lastSize[u] /\ overlooked'[u] = overlooked[u]
    BY <2>1, MemoryDomains, Zenon
  <2>5. /\ overlooked'[s] # {} => Beside(s)
        /\ s \in Capkits /\ ~Beside(s) => lastSize'[s] = Len(file')
    BY <2>1, <2>2, <2>3, Zenon DEF OverlookInv, OnlyReplicasOverlook
  <2>. QED  BY <2>1, <2>4, <2>5, OverlookStep, Zenon
<1>6. ASSUME NEW s \in Services, Admit(s) \/ Refuse(s) \/ Unavailable(s) PROVE OverlookInv'
  <2>1. UNCHANGED <<store, stored, noted>>
    BY <1>6, Zenon DEF Admit, Refuse, Unavailable, Answer
  <2>. QED  BY <1>1, <2>1, Zenon DEF stored, noted
<1>7. ASSUME NEW t \in Tokens, NEW l \in Lifetimes, Issue(t, l) PROVE OverlookInv'
  BY <1>1, <1>7, Zenon DEF Issue, stored, noted
<1>8. ASSUME NEW c \in Services, Prune(c) PROVE OverlookInv'
  BY <1>1, <1>8, Zenon DEF Prune, noted
<1>9. ASSUME Tick \/ UNCHANGED vars PROVE OverlookInv'
  BY <1>1, <1>9, Zenon DEF Tick, vars, stored, noted
<1>. QED  BY <1>2, <1>3, <1>4, <1>5, <1>6, <1>7, <1>8, <1>9, Zenon DEF Next

\* What RevokedStaysRefused and ServicesAgree allow for happens to no service but
\* a replica that writes to the file beside another one: with one writer, they
\* hold of every service and every token (revoke, refresh).
THEOREM RevocationOverlooks == Spec => []OnlyReplicasOverlook
<1>1. Init => OverlookInv
  BY DEF Init, OverlookInv, OnlyReplicasOverlook
<1>2. OverlookInv => OnlyReplicasOverlook
  BY DEF OverlookInv
<1>. QED  BY <1>1, <1>2, RevocationTypeOK, OverlookNext, PTL DEF Spec

\* A request goes through only with a token that is valid at that moment, on
\* however long an answer was waited for (capabilityGuard).
THEOREM RevocationInTime == Spec => AdmittedInTime
<1> DEFINE A == \A s \in Services : (guard[s].at = "asked" /\ guard'[s].at = "admitted")
                                      => now <= expires[guard[s].token]
<1>1. TypeOK /\ [Next]_vars => [A]_vars
  <2> SUFFICES ASSUME TypeOK, Next, NEW s \in Services,
                      guard[s].at = "asked", guard'[s].at = "admitted"
               PROVE  now <= expires[guard[s].token]
    BY Zenon DEF A
  <2>0. DOMAIN guard = Services
    BY DEF TypeOK
  <2>1. ASSUME NEW u \in Services, NEW r, guard' = [guard EXCEPT ![u] = r], r.at # "admitted"
        PROVE  FALSE
    <3>1. guard'[u] = r /\ \A v \in Services : v # u => guard'[v] = guard[v]
      BY <2>0, <2>1, Zenon
    <3>2. guard'[s] = guard[s]
      BY <2>1, <3>1, Zenon
    <3>. QED  BY <3>2
  <2>2. guard' # guard
    OBVIOUS
  <2>3. \A u \in Services, t \in Tokens : ~Ask(u, t)
    <3> SUFFICES ASSUME NEW u \in Services, NEW t \in Tokens, Ask(u, t) PROVE FALSE
      OBVIOUS
    <3>1. Request("asked", t, RevokedAt(u, t), Barred(u, t)).at # "admitted"
      BY DEF Request
    <3>. QED  BY <2>1, <3>1, Zenon DEF Ask
  <2>4. \A u \in Services : guard' # [guard EXCEPT ![u] = Idle]
    <3>1. Idle.at # "admitted"
      BY DEF Idle, Request
    <3>. QED  BY <2>1, <3>1, Zenon
  <2>5. \A u \in Services : ~Answer(u, "refused")
    <3> SUFFICES ASSUME NEW u \in Services, Answer(u, "refused") PROVE FALSE
      OBVIOUS
    <3>1. Request("refused", guard[u].token, guard[u].revoked, guard[u].barred).at # "admitted"
      BY DEF Request
    <3>. QED  BY <2>1, <3>1, Zenon DEF Answer
  <2>6. PICK u \in Services : Admit(u)
    BY <2>2, <2>3, <2>4, <2>5, Zenon
       DEF Next, Issue, Revoke, RevokeUnanswered, Started, Prune, Restart, Tick, Refuse, Unavailable
  <2>7. u = s
    <3>1. \A v \in Services : v # u => guard'[v] = guard[v]
      BY <2>0, <2>6, Zenon DEF Admit, Answer
    <3>2. guard'[s] # guard[s]
      OBVIOUS
    <3>. QED  BY <3>1, <3>2, Zenon
  <2>. QED  BY <2>6, <2>7, Zenon DEF Admit, Valid
<1>. QED  BY RevocationTypeOK, <1>1, PTL DEF Spec, AdmittedInTime, A
===============================================================================
