----------------------------- MODULE EdgeRunProofs -----------------------------
(***************************************************************************)
(* Proofs about packages/edge-run: EdgeRun, for any number of jobs, ids    *)
(* and targets, every size of the queue and every bound on crashes and     *)
(* failed writes; Cron, for every expression and calendar; and Scheduler.  *)
(*                                                                         *)
(* What carries the theorems about EdgeRun is that the table never knows   *)
(* of less work than the process, nor of more: a pending row is a task     *)
(* that waits in memory or one that hydrate() has yet to restore           *)
(* (RowsInv), a task and a row carry the id of their job (NamesInv), and   *)
(* what is done is pending nowhere (DoneInv).  How often a job was begun   *)
(* is bounded through the attempts its task counts in this life and the    *)
(* lives before (RunsInv), since the attempts in the table may have fallen *)
(* behind.                                                                 *)
(*                                                                         *)
(* nextRun is recursive.  Its recursion has one solution, the first minute *)
(* that matches: that this is one is FirstIsSearch, that there is no other *)
(* is SearchIsFirst.  The theorems about Scheduler need no more of it.     *)
(***************************************************************************)
EXTENDS EdgeRun, Scheduler, WellFoundedInduction, FiniteSetTheorems, TLAPS

\* What is in memory and has yet to be done.
Waiting == {i \in DOMAIN tasks : Pending(tasks[i].state)}

\* The map and the table are finite, and the map's places are bounded, so that
\* a new task finds a place behind all others.
FiniteInv == /\ IsFiniteSet(DOMAIN tasks) /\ IsFiniteSet(DOMAIN db)
             /\ \E b \in Nat : \A i \in DOMAIN tasks : tasks[i].place <= b

\* A row that is pending belongs to a task that is pending in memory, or waits
\* to be restored: what a process leaves behind is never more than it held.
RowsInv == /\ pc # "down" => PendingRows \subseteq Waiting \cup loading
           /\ pc = "down" => DOMAIN tasks = {}
           /\ loading \cap DOMAIN tasks = {}
           /\ loading # {} => pc = "hydrating"
           /\ loading \subseteq PendingRows
           /\ pc \in {"down", "hydrating"} => ~stopping

\* A task, in memory or in the table, carries the id its job was submitted
\* under.
NamesInv == /\ \A i \in DOMAIN tasks : idOf[tasks[i].job] = i
            /\ \A i \in DOMAIN db : idOf[db[i].job] = i
            /\ \A job \in done \cup accepted : idOf[job] # NoJob
            /\ \A job \in Jobs : idOf[job] = NoJob => starts[job] = 0 /\ ledger[job] = 0

\* A job that is done is nowhere pending, and what is not pending is done.
DoneInv == /\ \A i \in DOMAIN tasks : ~Pending(tasks[i].state) => tasks[i].job \in done
           /\ \A job \in done : Fresh(job) =>
                /\ idOf[job] \notin Waiting
                /\ idOf[job] \notin PendingRows

\* A record is written of a job that is done, once.
LedgerInv == /\ finished # NoJob <=> pc = "recording"
             /\ finished # NoJob => /\ finished \in done
                                    /\ Fresh(finished) => ledger[finished] = 0
             /\ \A job \in Jobs \ done : ledger[job] = 0
             /\ RecordedOnce

\* An accepted job that is not done is in a pending row.
AcceptedInv == \A job \in accepted \ done : Fresh(job) => idOf[job] \in PendingRows

\* How many lives of the process are over, and what they may have spent.
Lives == IF stopping THEN stops - 1 ELSE stops

Spent == MaxAttempts * Lives

\* What is in memory counts its attempts in this life; the starts of earlier
\* lives are within their bounds.
RunsOf(job) ==
  /\ starts[job] <= Spent + MaxAttempts
  /\ idOf[job] \in Waiting =>
       /\ starts[job] <= Spent + tasks[idOf[job]].attempts
       /\ tasks[idOf[job]].state = "queued" => starts[job] < Spent + MaxAttempts
  /\ idOf[job] \notin DOMAIN tasks /\ job \notin done => starts[job] <= Spent

RunsInv ==
  /\ stopping => stops > 0
  /\ \A job \in Jobs : Fresh(job) => RunsOf(job)

IInv == /\ TypeOK /\ FiniteInv /\ CapacityRespected /\ RowsInv /\ NamesInv /\ DoneInv
        /\ LedgerInv /\ AcceptedInv /\ RunsInv

-----------------------------------------------------------------------------
(* Numbers: what Min and Max (CHOOSE) are when there is a least or greatest.*)

\* Two integers neither of which exceeds the other are one.
LEMMA Antisymmetry == \A x, y \in Int : x <= y /\ y <= x => x = y
OBVIOUS

\* Max is the greatest element when there is one: the last place in the map.
LEMMA MaxIs ==
  ASSUME NEW S, S \subseteq Int, NEW m \in S, \A s \in S : s <= m
  PROVE  Max(S) = m
<1>1. \A x, y \in Int : x <= y <=> y >= x
  OBVIOUS
<1>2. \A s \in S : m >= s
  BY <1>1
<1>3. Max(S) \in S /\ \A s \in S : Max(S) >= s
  BY <1>2, Zenon DEF Max
<1>4. Max(S) \in Int /\ m \in Int
  BY <1>3, Zenon
<1>5. Max(S) <= m /\ m <= Max(S)
  BY <1>1, <1>3, <1>4, Zenon
<1>. QED  BY <1>4, <1>5, Antisymmetry, Zenon

\* A non-empty set of naturals has a least element.
LEMMA NatLeast ==
  ASSUME NEW S, S \subseteq Nat, S # {}
  PROVE  \E m \in S : \A s \in S : m <= s
<1>1. IsWellFoundedOn(OpToRel(<, Nat), Nat)
  BY NatLessThanWellFounded
<1>2. PICK m \in S : \A s \in S : ~ (<<s, m>> \in OpToRel(<, Nat))
  BY <1>1, WFMin, Zenon
<1>3. \A s \in Nat, t \in Nat : s < t \/ t <= s
  OBVIOUS
<1>4. ASSUME NEW s \in S, s < m PROVE <<s, m>> \in OpToRel(<, Nat)
  <2>1. s \in Nat /\ m \in Nat
    BY Zenon
  <2>2. <<s, m>> \in Nat \X Nat /\ <<s, m>>[1] = s /\ <<s, m>>[2] = m
    BY <2>1
  <2>. QED  BY <2>2, <1>4, Zenon DEF OpToRel
<1>. QED  BY <1>2, <1>3, <1>4, Zenon

\* A non-empty, bounded set of naturals has a greatest element.
LEMMA NatGreatest ==
  ASSUME NEW S, S \subseteq Nat, S # {}, NEW b \in Nat, \A s \in S : s <= b
  PROVE  \E m \in S : \A s \in S : s <= m
<1> DEFINE T == {b - s : s \in S}
<1>1. \A s \in S : s \in Nat /\ b - s \in Nat
  OBVIOUS
<1>2. T \subseteq Nat /\ T # {}
  BY <1>1, Zenon
<1>3. PICK t \in T : \A u \in T : t <= u
  BY <1>2, NatLeast, Zenon
<1>4. PICK m \in S : t = b - m
  BY Zenon DEF T
<1>5. \A s \in S : b - m <= b - s
  BY <1>3, <1>4, Zenon
<1>6. \A s \in S : s <= m
  BY <1>1, <1>5
<1>. QED  BY <1>6

-----------------------------------------------------------------------------
(* Facts about the operators the actions are built from.                   *)

\* A breaker's record keeps its type through every call.
LEMMA BreakerTypes ==
  /\ NewBreaker \in Breaker
  /\ \A b \in Breaker : Failed(b) \in Breaker /\ Succeeded(b) \in Breaker /\ Asked(b) \in Breaker
<1>0. NewBreaker \in Breaker
  BY ThresholdsAssumption DEF NewBreaker, Breaker
<1> SUFFICES ASSUME NEW b \in Breaker 
                PROVE  Failed(b) \in Breaker /\ Succeeded(b) \in Breaker /\ Asked(b) \in Breaker
  BY <1>0
<1> DEFINE more == IF b.failures < FailureThreshold THEN b.failures + 1 ELSE b.failures
           failed == IF b.state = "half-open" \/ more >= FailureThreshold THEN "open" ELSE b.state
           half == b.state = "half-open" /\ b.successes + 1 < SuccessThreshold
           next == IF half THEN "half-open" ELSE "closed"
           count == IF half THEN b.successes + 1 ELSE IF b.state = "half-open" THEN 0 ELSE b.successes
           asked == IF b.state = "open" THEN 0 ELSE b.successes
<1>1. /\ b.state \in {"closed", "open", "half-open"} /\ b.failures \in 0..FailureThreshold
      /\ b.successes \in 0..(SuccessThreshold - 1)
  BY DEF Breaker
<1>2. /\ more \in 0..FailureThreshold /\ 0 \in 0..FailureThreshold
      /\ {0, count, asked} \subseteq 0..(SuccessThreshold - 1)
      /\ {failed, next, "half-open"} \subseteq {"closed", "open", "half-open"}
  BY <1>1, ThresholdsAssumption
<1>3. Failed(b) = [b EXCEPT !.state = failed, !.failures = more, !.successes = 0, !.probe = FALSE,
                            !.cooled = FALSE]
  BY Zenon DEF Failed
<1>4. Succeeded(b) = [b EXCEPT !.state = next, !.failures = 0, !.successes = count, !.probe = FALSE,
                               !.cooled = FALSE]
  BY Zenon DEF Succeeded
<1>5. Asked(b) = b \/ Asked(b) = [b EXCEPT !.state = "half-open", !.successes = asked, !.probe = TRUE,
                                           !.cooled = FALSE]
  BY Zenon DEF Asked
<1> HIDE DEF more, failed, next, count, asked
<1>6. Failed(b) \in Breaker
  <2>1. failed \in {"closed", "open", "half-open"} /\ more \in 0..FailureThreshold
        /\ 0 \in 0..(SuccessThreshold - 1)
    BY <1>2
  <2>2. [b EXCEPT !.state = failed, !.failures = more, !.successes = 0, !.probe = FALSE,
                  !.cooled = FALSE] \in Breaker
    BY <2>1 DEF Breaker
  <2>. QED  BY <2>2, <1>3, Zenon
<1>7. Succeeded(b) \in Breaker
  <2>1. next \in {"closed", "open", "half-open"} /\ 0 \in 0..FailureThreshold
        /\ count \in 0..(SuccessThreshold - 1)
    BY <1>2
  <2>2. [b EXCEPT !.state = next, !.failures = 0, !.successes = count, !.probe = FALSE,
                  !.cooled = FALSE] \in Breaker
    BY <2>1 DEF Breaker
  <2>. QED  BY <2>2, <1>4, Zenon
<1>8. Asked(b) \in Breaker
  <2>1. "half-open" \in {"closed", "open", "half-open"}
        /\ asked \in 0..(SuccessThreshold - 1)
    BY <1>2
  <2>2. [b EXCEPT !.state = "half-open", !.successes = asked, !.probe = TRUE,
                  !.cooled = FALSE] \in Breaker
    BY <2>1 DEF Breaker
  <2>. QED  BY <2>2, <1>5, Zenon
<1>. QED  BY <1>6, <1>7, <1>8

-----------------------------------------------------------------------------
(* What the invariant says of one task and of one row.                     *)

LEMMA TaskFacts ==
  ASSUME TypeOK, NEW i \in DOMAIN tasks
  PROVE  /\ i \in Ids /\ tasks[i] \in Task
         /\ tasks[i].job \in Jobs /\ tasks[i].attempts \in Nat /\ tasks[i].place \in Nat
         /\ tasks[i].due \in BOOLEAN
         /\ tasks[i].state \in States
BY DEF TypeOK, Task

LEMMA RowFacts ==
  ASSUME TypeOK, NEW i \in DOMAIN db
  PROVE  /\ i \in Ids /\ db[i].job \in Jobs /\ db[i].attempts \in Nat
         /\ db[i].state \in States
BY DEF TypeOK, TaskRow

\* Where no other job has a job's id, what carries the id is that job.
LEMMA FreshIsNamed ==
  ASSUME TypeOK, NamesInv, NEW job \in Jobs, Fresh(job)
  PROVE  /\ idOf[job] \in DOMAIN tasks => tasks[idOf[job]].job = job
         /\ idOf[job] \in DOMAIN db => db[idOf[job]].job = job
<1>1. ASSUME idOf[job] \in DOMAIN tasks PROVE tasks[idOf[job]].job = job
  <2>1. tasks[idOf[job]].job \in Jobs
    BY <1>1, TaskFacts, Zenon
  <2>2. idOf[tasks[idOf[job]].job] = idOf[job]
    BY <1>1, Zenon DEF NamesInv
  <2>. QED  BY <2>1, <2>2, Zenon DEF Fresh
<1>2. ASSUME idOf[job] \in DOMAIN db PROVE db[idOf[job]].job = job
  <2>1. db[idOf[job]].job \in Jobs
    BY <1>2, RowFacts, Zenon
  <2>2. idOf[db[idOf[job]].job] = idOf[job]
    BY <1>2, Zenon DEF NamesInv
  <2>. QED  BY <2>1, <2>2, Zenon DEF Fresh
<1>. QED  BY <1>1, <1>2

\* The sets whose sizes CapacityRespected compares are finite.
LEMMA FiniteFacts ==
  ASSUME FiniteInv, RowsInv
  PROVE  /\ IsFiniteSet(Waiting) /\ IsFiniteSet(PendingRows) /\ IsFiniteSet(loading)
         /\ IsFiniteSet({i \in DOMAIN tasks : tasks[i].state = "running"})
         /\ PendingCount \in Nat /\ PendingCount = Cardinality(Waiting)
         /\ Cardinality(loading) \in Nat
<1>1. /\ Waiting \subseteq DOMAIN tasks /\ PendingRows \subseteq DOMAIN db
      /\ loading \subseteq PendingRows
      /\ {i \in DOMAIN tasks : tasks[i].state = "running"} \subseteq DOMAIN tasks
  BY Zenon DEF Waiting, PendingRows, RowsInv
<1>2. /\ IsFiniteSet(Waiting) /\ IsFiniteSet(PendingRows) /\ IsFiniteSet(loading)
      /\ IsFiniteSet({i \in DOMAIN tasks : tasks[i].state = "running"})
  BY <1>1, FS_Subset, Zenon DEF FiniteInv
<1>3. PendingCount = Cardinality(Waiting)
  BY Zenon DEF PendingCount, Waiting
<1>. QED  BY <1>2, <1>3, FS_CardinalityType, Zenon

\* The bound on the starts of earlier lives is a number.
LEMMA SpentType ==
  ASSUME TypeOK, RunsInv
  PROVE  Spent \in Nat /\ MaxAttempts \in Nat \ {0}
<1>1. MaxAttempts \in Nat \ {0}
  BY SizesAssumption
<1>2. Lives \in Nat
  BY DEF TypeOK, RunsInv, Lives
<1>3. \A a, b \in Nat : a * b \in Nat
  OBVIOUS
<1>. QED  BY <1>1, <1>2, <1>3 DEF Spent

\* The place behind all others exists.
LEMMA NextPlaceType ==
  ASSUME TypeOK, FiniteInv
  PROVE  NextPlace \in Nat
<1> DEFINE P == {tasks[i].place : i \in DOMAIN tasks} \cup {0}
<1>1. P \subseteq Nat /\ P # {}
  BY TaskFacts, Zenon, 0 \in Nat
<1>2. PICK b \in Nat : \A i \in DOMAIN tasks : tasks[i].place <= b
  BY Zenon DEF FiniteInv
<1>3. \A p \in P : p <= b
  BY <1>2
<1>4. PICK m \in P : \A p \in P : p <= m
  BY <1>1, <1>2, <1>3, NatGreatest
<1>5. m \in Nat /\ P \subseteq Int
  BY <1>1
<1>6. Max(P) = m
  BY <1>4, <1>5, MaxIs
<1>. QED  BY <1>5, <1>6 DEF NextPlace

-----------------------------------------------------------------------------
(* The invariant holds at first and is kept by each action.                *)

LEMMA InitInv == Init => IInv
<1> SUFFICES ASSUME Init PROVE IInv
  OBVIOUS
<1> USE JobsAssumption, SizesAssumption DEF Init
<1>1. DOMAIN tasks = {} /\ DOMAIN db = {} /\ Waiting = {} /\ PendingRows = {}
  BY DEF Waiting, PendingRows
<1>2. TypeOK
  <2>1. breaker \in [Targets -> Breaker]
    BY BreakerTypes
  <2>2. tasks \in [DOMAIN tasks -> Task]
    BY <1>1
  <2>. QED  BY <1>1, <2>1, <2>2 DEF TypeOK
<1>3. FiniteInv
  BY <1>1, FS_EmptySet DEF FiniteInv
<1>4. CapacityRespected
  <2>1. {i \in DOMAIN tasks : tasks[i].state = "running"} = {} /\ loading = {}
    BY <1>1
  <2>2. PendingCount = 0
    BY <1>1, FS_EmptySet DEF PendingCount, Waiting
  <2>. QED  BY <2>1, <2>2, FS_EmptySet DEF CapacityRespected
<1>5. RowsInv /\ NamesInv /\ DoneInv /\ LedgerInv /\ AcceptedInv /\ RunsInv
  <2>1. \A job \in Jobs : ~Fresh(job)
    BY DEF Fresh
  <2>. QED  BY <1>1, <2>1 DEF RowsInv, NamesInv, DoneInv, LedgerInv, RecordedOnce, AcceptedInv,
                              RunsInv
<1>. QED  BY <1>2, <1>3, <1>4, <1>5 DEF IInv

\* Steps that leave the tasks, the table and what is known of the jobs alone.
LEMMA QuietStep ==
  ASSUME IInv,
         Tick \/ TickEnd \/ (\E t \in Targets : CoolDown(t)) \/ Hydrated \/ UNCHANGED vars
  PROVE  IInv'
<1>1. /\ UNCHANGED <<tasks, running, db, ledger, stopping, loading, finished, faults, ghosts>>
      /\ pc' = pc \/ (pc \in {"idle", "ticking", "hydrating"} /\ pc' \in {"idle", "ticking"} /\ loading = {})
  BY DEF IInv, RowsInv, Tick, TickEnd, CoolDown, Hydrated, vars, memory, faults, ghosts
<1>2. breaker' \in [Targets -> Breaker]
  <2>0. breaker \in [Targets -> Breaker]
    BY DEF IInv, TypeOK
  <2>1. ASSUME NEW t \in Targets, CoolDown(t) PROVE breaker' \in [Targets -> Breaker]
    <3>1. breaker[t] \in Breaker
      BY <2>0
    <3>2. [breaker[t] EXCEPT !.cooled = TRUE] \in Breaker
      BY <3>1 DEF Breaker
    <3>3. breaker' = [breaker EXCEPT ![t] = [breaker[t] EXCEPT !.cooled = TRUE]]
      BY <2>1 DEF CoolDown
    <3>. QED  BY <2>0, <3>2, <3>3
  <2>2. CASE UNCHANGED breaker
    BY <2>0, <2>2
  <2>. QED  BY <2>1, <2>2 DEF Tick, TickEnd, Hydrated, vars, memory
<1>3. UNCHANGED <<tasks, running, db, ledger, stopping, loading, finished, stops, failures,
                  idOf, accepted, done, starts, probes>>
  BY <1>1 DEF faults, ghosts
<1>4. /\ PendingRows' = PendingRows /\ Waiting' = Waiting /\ PendingCount' = PendingCount
      /\ \A job : Fresh(job)' <=> Fresh(job)
  BY <1>3 DEF PendingRows, Waiting, PendingCount, Fresh
<1>5. TypeOK'
  BY <1>1, <1>2, <1>3 DEF IInv, TypeOK
<1>6. FiniteInv' /\ CapacityRespected' /\ NamesInv' /\ DoneInv' /\ AcceptedInv' /\ RunsInv'
  BY <1>1, <1>3, <1>4 DEF IInv, FiniteInv, CapacityRespected, NamesInv, DoneInv, AcceptedInv,
                          RunsInv,
                          RunsOf, Lives, Spent
<1>7. RowsInv' /\ LedgerInv'
  BY <1>1, <1>3, <1>4 DEF IInv, RowsInv, LedgerInv, RecordedOnce
<1>. QED  BY <1>5, <1>6, <1>7 DEF IInv

\* A task that was not in the map goes into it, as queued: what this makes of
\* the map's finiteness, its counts and its type.
LEMMA PutQueued ==
  ASSUME IInv, NEW id \in Ids, id \notin DOMAIN tasks, NEW task \in Task, task.state = "queued",
         tasks' = Put(tasks, id, task)
  PROVE  /\ DOMAIN tasks' = DOMAIN tasks \cup {id} /\ tasks'[id] = task
         /\ \A i \in DOMAIN tasks : tasks'[i] = tasks[i]
         /\ DOMAIN tasks' \subseteq Ids /\ tasks' \in [DOMAIN tasks' -> Task]
         /\ IsFiniteSet(DOMAIN tasks')
         /\ \E b \in Nat : \A i \in DOMAIN tasks' : tasks'[i].place <= b
         /\ Waiting' = Waiting \cup {id}
         /\ PendingCount' = PendingCount + 1
         /\ {i \in DOMAIN tasks : tasks[i].state = "running"}'
              = {i \in DOMAIN tasks : tasks[i].state = "running"}
<1>1. /\ DOMAIN tasks' = DOMAIN tasks \cup {id} /\ tasks'[id] = task
      /\ \A i \in DOMAIN tasks : tasks'[i] = tasks[i]
  BY DEF Put
<1>2. DOMAIN tasks' \subseteq Ids /\ tasks' \in [DOMAIN tasks' -> Task]
  <2>1. \A i \in DOMAIN tasks' : tasks'[i] \in Task
    BY <1>1, TaskFacts DEF IInv
  <2>2. tasks' = [i \in DOMAIN tasks' |-> tasks'[i]]
    BY DEF Put
  <2>. QED  BY <1>1, <2>1, <2>2 DEF IInv, TypeOK
<1>3. IsFiniteSet(DOMAIN tasks')
  BY <1>1, FS_AddElement DEF IInv, FiniteInv
<1>4. \E b \in Nat : \A i \in DOMAIN tasks' : tasks'[i].place <= b
  <2>1. PICK b \in Nat : \A i \in DOMAIN tasks : tasks[i].place <= b
    BY DEF IInv, FiniteInv
  <2>2. task.place \in Nat
    BY DEF Task
  <2>3. b + task.place \in Nat /\ \A i \in DOMAIN tasks' : tasks'[i].place <= b + task.place
    BY <1>1, <2>1, <2>2, TaskFacts DEF IInv
  <2>. QED  BY <2>3
<1>5. Waiting' = Waiting \cup {id} /\ id \notin Waiting
  BY <1>1 DEF Waiting, Pending
<1>6. PendingCount' = PendingCount + 1
  <2>1. IsFiniteSet(Waiting) /\ PendingCount = Cardinality(Waiting)
    BY FiniteFacts DEF IInv
  <2>2. Cardinality(Waiting \cup {id}) = Cardinality(Waiting) + 1
    BY <1>5, <2>1, FS_AddElement, Zenon
  <2>3. PendingCount' = Cardinality(Waiting')
    BY Zenon DEF PendingCount, Waiting
  <2>. QED  BY <1>5, <2>1, <2>2, <2>3
<1>7. {i \in DOMAIN tasks : tasks[i].state = "running"}'
        = {i \in DOMAIN tasks : tasks[i].state = "running"}
  BY <1>1
<1>. QED  BY <1>1, <1>2, <1>3, <1>4, <1>5, <1>6, <1>7

\* One row is written: what this makes of the table.
LEMMA SaveRow ==
  ASSUME IInv, NEW id \in Ids, NEW task \in Task, db' = SavedOne(db, id, task)
  PROVE  /\ DOMAIN db' = DOMAIN db \cup {id}
         /\ db'[id].state = task.state /\ db'[id].attempts = task.attempts
         /\ db'[id].job = IF id \in DOMAIN db THEN db[id].job ELSE task.job
         /\ \A i \in DOMAIN db : i # id => db'[i] = db[i]
         /\ DOMAIN db' \subseteq Ids /\ db' \in [DOMAIN db' -> TaskRow]
         /\ IsFiniteSet(DOMAIN db')
         /\ PendingRows' = IF Pending(task.state) THEN PendingRows \cup {id} ELSE PendingRows \ {id}
         /\ idOf[task.job] = id => \A i \in DOMAIN db' : idOf[db'[i].job] = i
<1>1. /\ DOMAIN db' = DOMAIN db \cup {id} /\ db'[id] = Row(db, id, task)
      /\ \A i \in DOMAIN db : i # id => db'[i] = db[i]
  BY DEF SavedOne, Saved
<1>2. /\ db'[id].state = task.state /\ db'[id].attempts = task.attempts
      /\ db'[id].job = IF id \in DOMAIN db THEN db[id].job ELSE task.job
  BY <1>1 DEF Row
<1>3. DOMAIN db' \subseteq Ids /\ db' \in [DOMAIN db' -> TaskRow]
  <2>1. Row(db, id, task) \in TaskRow
    <3>1. (IF id \in DOMAIN db THEN db[id].job ELSE task.job) \in Jobs
      BY RowFacts DEF IInv, Task
    <3>. QED  BY <3>1 DEF Row, TaskRow, Task
  <2>2. \A i \in DOMAIN db' : db'[i] \in TaskRow
    BY <1>1, <2>1 DEF IInv, TypeOK
  <2>3. db' = [i \in DOMAIN db' |-> db'[i]]
    BY DEF SavedOne, Saved
  <2>. QED  BY <1>1, <2>2, <2>3 DEF IInv, TypeOK
<1>4. IsFiniteSet(DOMAIN db')
  BY <1>1, FS_AddElement DEF IInv, FiniteInv
<1>5. PendingRows' = IF Pending(task.state) THEN PendingRows \cup {id} ELSE PendingRows \ {id}
  BY <1>1, <1>2 DEF PendingRows
<1>6. ASSUME idOf[task.job] = id PROVE \A i \in DOMAIN db' : idOf[db'[i].job] = i
  BY <1>1, <1>2, <1>6 DEF IInv, NamesInv
<1>. QED  BY <1>1, <1>2, <1>3, <1>4, <1>5, <1>6

\* POST /queue, saved or not.
LEMMA SubmitStep ==
  ASSUME IInv, NEW id \in Ids, NEW job \in Jobs, NEW due \in BOOLEAN,
         Submit(id, job, due) \/ SubmitUnsaved(id, job, due)
  PROVE  IInv'
<1> USE JobsAssumption, SizesAssumption
<1> DEFINE task == NewTask(job, due)
<1>1. /\ pc = "idle" /\ idOf[job] = NoJob /\ PendingCount < Limit /\ id \notin DOMAIN tasks
      /\ tasks' = Put(tasks, id, task) /\ idOf' = [idOf EXCEPT ![job] = id]
      /\ UNCHANGED <<running, breaker, ledger, stopping, loading, finished, done, starts,
                     probes, stops>>
  BY DEF Submit, SubmitUnsaved, Enqueue
<1>2. /\ task \in Task /\ task.job = job /\ task.state = "queued" /\ task.attempts = 0
  BY NextPlaceType DEF NewTask, Task, States, IInv
<1>3. /\ DOMAIN tasks' = DOMAIN tasks \cup {id} /\ tasks'[id] = task
      /\ \A i \in DOMAIN tasks : tasks'[i] = tasks[i]
      /\ DOMAIN tasks' \subseteq Ids /\ tasks' \in [DOMAIN tasks' -> Task]
      /\ IsFiniteSet(DOMAIN tasks')
      /\ \E b \in Nat : \A i \in DOMAIN tasks' : tasks'[i].place <= b
      /\ Waiting' = Waiting \cup {id} /\ PendingCount' = PendingCount + 1
      /\ {i \in DOMAIN tasks : tasks[i].state = "running"}'
           = {i \in DOMAIN tasks : tasks[i].state = "running"}
  <2> HIDE DEF task
  <2>. QED  BY <1>1, <1>2, PutQueued
<1>4. /\ loading = {} /\ id \notin Waiting
  BY <1>1 DEF IInv, RowsInv, Waiting
<1>5. \/ /\ db' = SavedOne(db, id, task)
         /\ accepted' = accepted \cup {job} /\ pc' = "ticking" /\ failures' = failures
      \/ /\ db' = db /\ accepted' = accepted /\ pc' = "idle" /\ failures' = failures + 1
  BY <1>1 DEF Submit, SubmitUnsaved
<1> HIDE DEF task
<1>6. /\ DOMAIN db' \subseteq Ids /\ db' \in [DOMAIN db' -> TaskRow] /\ IsFiniteSet(DOMAIN db')
      /\ PendingRows' \subseteq PendingRows \cup {id} /\ PendingRows \subseteq PendingRows'
      /\ job \in accepted' => id \in PendingRows'
      /\ \A i \in DOMAIN db' : (i = id /\ db'[i].job = job) \/ (i \in DOMAIN db /\ db'[i].job = db[i].job)
  <2>0. job \notin accepted
    BY <1>1 DEF IInv, NamesInv
  <2>1. CASE db' = SavedOne(db, id, task)
    <3>1. /\ DOMAIN db' = DOMAIN db \cup {id}
          /\ db'[id].job = IF id \in DOMAIN db THEN db[id].job ELSE task.job
          /\ \A i \in DOMAIN db : i # id => db'[i] = db[i]
          /\ DOMAIN db' \subseteq Ids /\ db' \in [DOMAIN db' -> TaskRow] /\ IsFiniteSet(DOMAIN db')
          /\ PendingRows' = IF Pending(task.state) THEN PendingRows \cup {id} ELSE PendingRows \ {id}
      BY <1>2, <2>1, SaveRow, Zenon
    <3>2. Pending(task.state)
      BY <1>2 DEF Pending
    <3>. QED  BY <1>2, <3>1, <3>2
  <2>2. CASE db' = db /\ accepted' = accepted
    <3>1. PendingRows' = PendingRows
      BY <2>2 DEF PendingRows
    <3>. QED  BY <2>0, <2>2, <3>1 DEF IInv, TypeOK, FiniteInv
  <2>. QED  BY <1>5, <2>1, <2>2
<1>7. /\ idOf'[job] = id
      /\ \A j \in Jobs : j # job => idOf'[j] = idOf[j] /\ (Fresh(j)' => Fresh(j) /\ idOf[j] # id)
      /\ job \notin done /\ job \notin accepted
  <2>1. idOf \in [Jobs -> Ids \cup {NoJob}] /\ job \notin done /\ job \notin accepted
    BY <1>1 DEF IInv, TypeOK, NamesInv
  <2>2. idOf'[job] = id /\ \A j \in Jobs : j # job => idOf'[j] = idOf[j]
    BY <1>1, <2>1
  <2>3. ASSUME NEW j \in Jobs, j # job, Fresh(j)' PROVE Fresh(j) /\ idOf[j] # id
    <3>1. idOf'[j] # idOf'[job]
      BY <2>3 DEF Fresh
    <3>2. \A k \in Jobs \ {j} : idOf[k] # idOf[j]
      BY <1>1, <2>2, <2>3 DEF Fresh
    <3>. QED  BY <2>2, <2>3, <3>1, <3>2 DEF Fresh
  <2>. QED  BY <2>1, <2>2, <2>3
<1>8. TypeOK'
  BY <1>1, <1>3, <1>5, <1>6 DEF IInv, TypeOK
<1>9. FiniteInv'
  BY <1>3, <1>6 DEF FiniteInv
<1>10. CapacityRespected'
  <2>1. PendingCount \in Nat /\ Cardinality(loading) = 0 /\ Cardinality(loading') = 0
    BY <1>1, <1>4, FiniteFacts, FS_EmptySet DEF IInv
  <2>2. PendingCount' + Cardinality(loading') <= Limit
    BY <1>1, <1>3, <2>1
  <2>3. /\ running' = Cardinality({i \in DOMAIN tasks : tasks[i].state = "running"}')
        /\ running' <= Concurrency /\ pc' # "down"
    BY <1>1, <1>3, <1>5 DEF IInv, CapacityRespected
  <2>. QED  BY <2>2, <2>3, Zenon DEF CapacityRespected
<1>11. RowsInv'
  BY <1>1, <1>3, <1>4, <1>5, <1>6 DEF IInv, RowsInv
<1>12. NamesInv'
  <2>1. \A i \in DOMAIN tasks' : idOf'[tasks'[i].job] = i
    BY <1>1, <1>2, <1>3, <1>7, TaskFacts DEF IInv, NamesInv
  <2>2. \A i \in DOMAIN db' : idOf'[db'[i].job] = i
    BY <1>1, <1>6, <1>7, RowFacts DEF IInv, NamesInv
  <2>3. \A j \in done' \cup accepted' : idOf'[j] # NoJob
    BY <1>1, <1>5, <1>7 DEF IInv, NamesInv, TypeOK
  <2>4. \A j \in Jobs : idOf'[j] = NoJob => starts'[j] = 0 /\ ledger'[j] = 0
    BY <1>1, <1>7 DEF IInv, NamesInv
  <2>. QED  BY <2>1, <2>2, <2>3, <2>4 DEF NamesInv
<1>13. DoneInv'
  <2>1. \A i \in DOMAIN tasks' : ~Pending(tasks'[i].state) => tasks'[i].job \in done'
    BY <1>1, <1>2, <1>3 DEF IInv, DoneInv, Pending
  <2>2. ASSUME NEW j \in done', Fresh(j)' PROVE idOf'[j] \notin Waiting' /\ idOf'[j] \notin PendingRows'
    BY <1>1, <1>3, <1>6, <1>7, <2>2 DEF IInv, DoneInv, TypeOK
  <2>. QED  BY <2>1, <2>2 DEF DoneInv
<1>14. LedgerInv'
  <2>1. RecordedOnce'
    BY <1>1, <1>7 DEF IInv, LedgerInv, RecordedOnce, NamesInv
  <2>2. finished # NoJob => finished # job
    BY <1>7 DEF IInv, LedgerInv
  <2>3. finished # NoJob => finished \in Jobs
    BY DEF IInv, TypeOK
  <2>. QED  BY <1>1, <1>5, <1>7, <2>1, <2>2, <2>3 DEF IInv, LedgerInv
<1>15. AcceptedInv'
  BY <1>1, <1>5, <1>6, <1>7 DEF IInv, AcceptedInv, TypeOK
<1>16. RunsInv'
  <2>1. Spent' = Spent /\ Spent \in Nat /\ MaxAttempts \in Nat \ {0}
    BY <1>1, SpentType DEF Spent, Lives, IInv
  <2>2. ASSUME NEW j \in Jobs, j # job, Fresh(j)' PROVE RunsOf(j)'
    <3>1. Waiting \subseteq DOMAIN tasks
      BY DEF Waiting
    <3>. QED  BY <3>1, <1>1, <1>3, <1>7, <2>1, <2>2 DEF IInv, RunsInv, RunsOf
  <2>3. starts[job] = 0
    BY <1>1 DEF IInv, NamesInv
  <2>4. RunsOf(job)'
    BY <1>1, <1>2, <1>3, <1>7, <2>1, <2>3 DEF RunsOf
  <2>. QED  BY <1>1, <2>1, <2>2, <2>4 DEF RunsInv, IInv
<1>. QED  BY <1>8, <1>9, <1>10, <1>11, <1>12, <1>13, <1>14, <1>15, <1>16 DEF IInv

\* The tasks that count against the workers.
Working == {i \in DOMAIN tasks : tasks[i].state = "running"}

\* One task of the map is changed in place.
LEMMA UpdateTask ==
  ASSUME IInv, NEW i \in DOMAIN tasks, NEW task \in Task, task.place = tasks[i].place,
         tasks' = [tasks EXCEPT ![i] = task]
  PROVE  /\ DOMAIN tasks' = DOMAIN tasks /\ tasks'[i] = task
         /\ \A k \in DOMAIN tasks : k # i => tasks'[k] = tasks[k]
         /\ tasks' \in [DOMAIN tasks' -> Task]
         /\ \E b \in Nat : \A k \in DOMAIN tasks' : tasks'[k].place <= b
         /\ Waiting' = IF Pending(task.state) THEN Waiting \cup {i} ELSE Waiting \ {i}
         /\ Working' = IF task.state = "running" THEN Working \cup {i} ELSE Working \ {i}
<1>1. /\ DOMAIN tasks' = DOMAIN tasks /\ tasks'[i] = task
      /\ \A k \in DOMAIN tasks : k # i => tasks'[k] = tasks[k]
  OBVIOUS
<1>2. tasks' \in [DOMAIN tasks' -> Task]
  BY DEF IInv, TypeOK
<1>3. PICK b \in Nat : \A k \in DOMAIN tasks : tasks[k].place <= b
  BY DEF IInv, FiniteInv
<1>4. \A k \in DOMAIN tasks' : tasks'[k].place <= b
  BY <1>1, <1>3
<1>5. Waiting' = IF Pending(task.state) THEN Waiting \cup {i} ELSE Waiting \ {i}
  BY <1>1 DEF Waiting
<1>6. Working' = IF task.state = "running" THEN Working \cup {i} ELSE Working \ {i}
  BY <1>1 DEF Working
<1>. QED  BY <1>1, <1>2, <1>3, <1>4, <1>5, <1>6

\* availableAt is reached: no part of the invariant looks at `due`.
LEMMA DueStep ==
  ASSUME IInv, NEW i \in DOMAIN tasks, BecomeDue(i)
  PROVE  IInv'
<1> DEFINE task == [tasks[i] EXCEPT !.due = TRUE]
<1>1. /\ tasks' = [tasks EXCEPT ![i] = task] /\ tasks[i].state = "queued"
      /\ UNCHANGED <<running, breaker, db, ledger, pc, stopping, loading, finished, stops, failures,
                     idOf, accepted, done, starts, probes>>
  BY DEF BecomeDue, faults, ghosts
<1>2. tasks[i] \in Task
  BY TaskFacts DEF IInv
<1>3. /\ task \in Task /\ task.place = tasks[i].place /\ task.state = "queued"
      /\ task.job = tasks[i].job /\ task.attempts = tasks[i].attempts
  BY <1>1, <1>2 DEF Task
<1> HIDE DEF task
<1>4. /\ DOMAIN tasks' = DOMAIN tasks /\ tasks'[i] = task
      /\ \A k \in DOMAIN tasks : k # i => tasks'[k] = tasks[k]
      /\ tasks' \in [DOMAIN tasks' -> Task]
      /\ \E b \in Nat : \A k \in DOMAIN tasks' : tasks'[k].place <= b
  BY <1>1, <1>3, UpdateTask
<1>5. \A k \in DOMAIN tasks : /\ tasks'[k].job = tasks[k].job /\ tasks'[k].state = tasks[k].state
                               /\ tasks'[k].attempts = tasks[k].attempts
  BY <1>1, <1>3, <1>4
<1>6. /\ PendingRows' = PendingRows /\ Waiting' = Waiting /\ PendingCount' = PendingCount
      /\ {k \in DOMAIN tasks : tasks[k].state = "running"}'
           = {k \in DOMAIN tasks : tasks[k].state = "running"}
      /\ \A job : Fresh(job)' <=> Fresh(job)
      /\ Spent' = Spent
  BY <1>1, <1>4, <1>5 DEF PendingRows, Waiting, PendingCount, Fresh, Spent, Lives
<1>7. TypeOK' /\ FiniteInv'
  BY <1>1, <1>4 DEF IInv, TypeOK, FiniteInv
<1>8. CapacityRespected' /\ RowsInv' /\ NamesInv' /\ DoneInv' /\ AcceptedInv' /\ LedgerInv'
  BY <1>1, <1>4, <1>5, <1>6 DEF IInv, CapacityRespected, RowsInv, NamesInv, DoneInv,
                                AcceptedInv,
                                LedgerInv, RecordedOnce
<1>9. RunsInv'
  <2>1. Waiting \subseteq DOMAIN tasks
    BY DEF Waiting
  <2>. QED  BY <1>1, <1>4, <1>5, <1>6, <2>1 DEF IInv, RunsInv, RunsOf
<1>. QED  BY <1>7, <1>8, <1>9 DEF IInv

\* A round of tick()'s loop.
LEMMA StartStep ==
  ASSUME IInv, NEW i \in DOMAIN tasks, Start(i)
  PROVE  IInv'
<1> USE SizesAssumption
<1> DEFINE task == [tasks[i] EXCEPT !.state = "running", !.attempts = @ + 1]
           job == tasks[i].job
<1>1. /\ pc = "ticking" /\ running < Concurrency /\ tasks[i].state = "queued"
      /\ tasks' = [tasks EXCEPT ![i] = task] /\ running' = running + 1
      /\ db' = SavedOne(db, i, task) /\ breaker' = BreakersAsked
      /\ UNCHANGED <<ledger, pc, stopping, loading, finished, stops, failures, idOf, accepted, done>>
  BY DEF Start, Runnable, Admitted, Candidates, faults
<1>2. tasks[i] \in Task /\ job \in Jobs /\ tasks[i].attempts \in Nat /\ i \in Ids
  BY TaskFacts DEF IInv
<1>3. /\ task \in Task /\ task.place = tasks[i].place /\ task.state = "running"
      /\ task.job = job /\ task.attempts = tasks[i].attempts + 1
  <2>1. "running" \in States
    BY DEF States
  <2>2. ASSUME NEW n \in Nat
        PROVE  LET t == [tasks[i] EXCEPT !.state = "running", !.attempts = n]
               IN  /\ t \in Task /\ t.place = tasks[i].place /\ t.state = "running"
                   /\ t.job = job /\ t.attempts = n
    BY <1>2, <2>1 DEF Task
  <2>3. tasks[i].attempts + 1 \in Nat
    BY <1>2
  <2>. QED  BY <2>2, <2>3
<1>4. starts' = [starts EXCEPT ![job] = @ + 1] /\ starts \in [Jobs -> Nat]
  BY <1>3 DEF Start, IInv, TypeOK
<1> HIDE DEF task
<1>5. /\ DOMAIN tasks' = DOMAIN tasks /\ tasks'[i] = task
      /\ \A k \in DOMAIN tasks : k # i => tasks'[k] = tasks[k]
      /\ tasks' \in [DOMAIN tasks' -> Task]
      /\ \E b \in Nat : \A k \in DOMAIN tasks' : tasks'[k].place <= b
      /\ Waiting' = Waiting /\ Working' = Working \cup {i} /\ i \in Waiting /\ i \notin Working
  <2>1. i \in Waiting /\ i \notin Working /\ Pending(task.state)
    BY <1>1, <1>3 DEF Waiting, Working, Pending
  <2>2. /\ DOMAIN tasks' = DOMAIN tasks /\ tasks'[i] = task
        /\ \A k \in DOMAIN tasks : k # i => tasks'[k] = tasks[k]
        /\ tasks' \in [DOMAIN tasks' -> Task]
        /\ \E b \in Nat : \A k \in DOMAIN tasks' : tasks'[k].place <= b
        /\ Waiting' = IF Pending(task.state) THEN Waiting \cup {i} ELSE Waiting \ {i}
        /\ Working' = IF task.state = "running" THEN Working \cup {i} ELSE Working \ {i}
    BY <1>1, <1>3, UpdateTask, Zenon
  <2>. QED  BY <1>3, <2>1, <2>2
<1>6. /\ DOMAIN db' = DOMAIN db \cup {i}
      /\ DOMAIN db' \subseteq Ids /\ db' \in [DOMAIN db' -> TaskRow] /\ IsFiniteSet(DOMAIN db')
      /\ PendingRows' = PendingRows \cup {i}
      /\ \A k \in DOMAIN db' : idOf[db'[k].job] = k
  <2>1. idOf[task.job] = i
    BY <1>3 DEF IInv, NamesInv
  <2>2. Pending(task.state)
    BY <1>3 DEF Pending
  <2>. QED  BY <1>1, <1>2, <1>3, <2>1, <2>2, SaveRow
<1>7. /\ loading = {} /\ ~(pc \in {"down", "hydrating"}) /\ idOf[job] = i
      /\ \A j : Fresh(j)' <=> Fresh(j)
      /\ \A j \in Jobs : Fresh(j) /\ idOf[j] = i => j = job /\ j \notin done
  <2>1. \A j : Fresh(j)' <=> Fresh(j)
    BY <1>1 DEF Fresh
  <2>2. loading = {} /\ ~(pc \in {"down", "hydrating"}) /\ idOf[job] = i
    BY <1>1 DEF IInv, RowsInv, NamesInv
  <2>3. \A j \in Jobs : Fresh(j) /\ idOf[j] = i => j = job
    BY <1>2, <2>2 DEF Fresh
  <2>. QED  BY <2>1, <2>2, <2>3, <1>5 DEF IInv, DoneInv
<1>8. TypeOK'
  <2>1. breaker' \in [Targets -> Breaker]
    BY <1>1, BreakerTypes DEF BreakersAsked, IInv, TypeOK
  <2>2. probes' \in [Targets -> Nat]
    BY DEF Start, Counted, IInv, TypeOK
  <2>. QED  BY <1>1, <1>2, <1>4, <1>5, <1>6, <2>1, <2>2 DEF IInv, TypeOK
<1>9. FiniteInv'
  BY <1>5, <1>6 DEF IInv, FiniteInv
<1>10. CapacityRespected'
  <2>1. IsFiniteSet(Working) /\ running = Cardinality(Working)
    BY FiniteFacts DEF IInv, Working, CapacityRespected
  <2>2. Cardinality(Working') = running + 1
    BY <1>5, <2>1, FS_AddElement
  <2>3. running' = Cardinality(Working') /\ running' <= Concurrency
    BY <1>1, <2>2 DEF IInv, TypeOK
  <2>4. PendingCount' = PendingCount
    BY <1>5, Zenon DEF PendingCount, Waiting
  <2>. QED  BY <1>1, <1>7, <2>3, <2>4 DEF IInv, CapacityRespected, Working
<1>11. RowsInv'
  BY <1>1, <1>5, <1>6, <1>7 DEF IInv, RowsInv
<1>12. NamesInv'
  <2>1. \A k \in DOMAIN tasks' : idOf'[tasks'[k].job] = k
    BY <1>1, <1>3, <1>5, <1>7 DEF IInv, NamesInv
  <2>2. \A j \in Jobs : idOf'[j] = NoJob => starts'[j] = 0 /\ ledger'[j] = 0
    BY <1>1, <1>2, <1>4, <1>7, JobsAssumption DEF IInv, NamesInv
  <2>. QED  BY <1>1, <1>6, <2>1, <2>2 DEF IInv, NamesInv
<1>13. DoneInv'
  <2>1. \A k \in DOMAIN tasks' : ~Pending(tasks'[k].state) => tasks'[k].job \in done'
    BY <1>1, <1>3, <1>5 DEF IInv, DoneInv, Pending
  <2>2. done \subseteq Jobs
    BY DEF IInv, TypeOK
  <2>. QED  BY <1>1, <1>5, <1>6, <1>7, <2>1, <2>2 DEF IInv, DoneInv
<1>14. LedgerInv' /\ AcceptedInv'
  BY <1>1, <1>6, <1>7 DEF IInv, LedgerInv, RecordedOnce, AcceptedInv
<1>15. RunsInv'
  <2>1. Spent' = Spent /\ Spent \in Nat /\ MaxAttempts \in Nat \ {0}
    BY <1>1, SpentType DEF Spent, Lives, IInv
  <2>2. ASSUME NEW j \in Jobs, Fresh(j)' PROVE RunsOf(j)'
    <3>1. Fresh(j) /\ RunsOf(j) /\ Waiting \subseteq DOMAIN tasks
      BY <1>7, <2>2 DEF IInv, RunsInv, Waiting
    <3>2. CASE idOf[j] = i
      BY <1>1, <1>2, <1>3, <1>4, <1>5, <1>7, <2>1, <3>1, <3>2 DEF RunsOf
    <3>3. CASE idOf[j] # i
      BY <1>1, <1>2, <1>4, <1>5, <1>7, <2>1, <3>1, <3>3 DEF RunsOf
    <3>. QED  BY <3>2, <3>3
  <2>. QED  BY <1>1, <2>2 DEF RunsInv, IInv
<1>. QED  BY <1>8, <1>9, <1>10, <1>11, <1>12, <1>13, <1>14, <1>15 DEF IInv

\* The outcome of an execution: a retry, or the end of the task.
LEMMA SettleStep ==
  ASSUME IInv, NEW i \in DOMAIN tasks, NEW outcome \in {"queued", "completed", "dead"},
         NEW due \in BOOLEAN, Settle(i, outcome, due),
         \/ outcome = "queued" /\ Retry(i, due)
         \/ outcome # "queued" /\ Finish(i, outcome)
  PROVE  IInv'
<1> USE SizesAssumption
<1> DEFINE task == [tasks[i] EXCEPT !.state = outcome, !.due = due]
           job == tasks[i].job
<1>1. /\ pc = "idle" /\ tasks[i].state = "running"
      /\ tasks' = [tasks EXCEPT ![i] = task] /\ running' = running - 1
      /\ db' = SavedOne(db, i, task)
      /\ breaker' = [breaker EXCEPT ![Target(i)] = IF outcome = "completed" THEN Succeeded(@) ELSE Failed(@)]
      /\ UNCHANGED <<ledger, stopping, loading, stops, failures, idOf, accepted, starts>>
  BY DEF Settle, faults
<1>2. tasks[i] \in Task /\ job \in Jobs /\ tasks[i].attempts \in Nat /\ i \in Ids
  BY TaskFacts DEF IInv
<1>3. /\ task \in Task /\ task.place = tasks[i].place /\ task.state = outcome
      /\ task.job = job /\ task.attempts = tasks[i].attempts
  <2>1. outcome \in States
    BY DEF States
  <2>. QED  BY <1>2, <2>1 DEF Task
<1>4. \/ /\ outcome = "queued" /\ tasks[i].attempts < MaxAttempts
         /\ pc' = "idle" /\ finished' = finished /\ done' = done
      \/ /\ outcome # "queued" /\ pc' = "recording" /\ finished' = job /\ done' = done \cup {job}
  BY <1>1 DEF Retry, Finish
<1> HIDE DEF task
<1>5. /\ DOMAIN tasks' = DOMAIN tasks /\ tasks'[i] = task
      /\ \A k \in DOMAIN tasks : k # i => tasks'[k] = tasks[k]
      /\ tasks' \in [DOMAIN tasks' -> Task]
      /\ \E b \in Nat : \A k \in DOMAIN tasks' : tasks'[k].place <= b
      /\ Waiting' = IF outcome = "queued" THEN Waiting ELSE Waiting \ {i}
      /\ Working' = Working \ {i} /\ i \in Waiting /\ i \in Working
  <2>1. i \in Waiting /\ i \in Working /\ (Pending(task.state) <=> outcome = "queued")
    BY <1>1, <1>3 DEF Waiting, Working, Pending
  <2>2. /\ DOMAIN tasks' = DOMAIN tasks /\ tasks'[i] = task
        /\ \A k \in DOMAIN tasks : k # i => tasks'[k] = tasks[k]
        /\ tasks' \in [DOMAIN tasks' -> Task]
        /\ \E b \in Nat : \A k \in DOMAIN tasks' : tasks'[k].place <= b
        /\ Waiting' = IF Pending(task.state) THEN Waiting \cup {i} ELSE Waiting \ {i}
        /\ Working' = IF task.state = "running" THEN Working \cup {i} ELSE Working \ {i}
    BY <1>1, <1>3, UpdateTask, Zenon
  <2>. QED  BY <1>3, <2>1, <2>2
<1>6. /\ DOMAIN db' = DOMAIN db \cup {i}
      /\ DOMAIN db' \subseteq Ids /\ db' \in [DOMAIN db' -> TaskRow] /\ IsFiniteSet(DOMAIN db')
      /\ PendingRows' = IF outcome = "queued" THEN PendingRows \cup {i} ELSE PendingRows \ {i}
      /\ \A k \in DOMAIN db' : idOf[db'[k].job] = k
  <2>1. idOf[task.job] = i
    BY <1>3 DEF IInv, NamesInv
  <2>2. Pending(task.state) <=> outcome = "queued"
    BY <1>3 DEF Pending
  <2>3. /\ DOMAIN db' = DOMAIN db \cup {i}
        /\ DOMAIN db' \subseteq Ids /\ db' \in [DOMAIN db' -> TaskRow] /\ IsFiniteSet(DOMAIN db')
        /\ PendingRows' = IF Pending(task.state) THEN PendingRows \cup {i} ELSE PendingRows \ {i}
        /\ \A k \in DOMAIN db' : idOf[db'[k].job] = k
    BY <1>1, <1>2, <1>3, <2>1, SaveRow, Zenon
  <2>. QED  BY <2>2, <2>3
<1>7. /\ loading = {} /\ finished = NoJob /\ idOf[job] = i
      /\ \A j : Fresh(j)' <=> Fresh(j)
      /\ \A j \in Jobs : Fresh(j) /\ idOf[j] = i => j = job /\ j \notin done
      /\ Fresh(job) => ledger[job] = 0
  <2>1. \A j : Fresh(j)' <=> Fresh(j)
    BY <1>1 DEF Fresh
  <2>2. loading = {} /\ finished = NoJob /\ idOf[job] = i
    BY <1>1 DEF IInv, RowsInv, NamesInv, LedgerInv
  <2>3. \A j \in Jobs : Fresh(j) /\ idOf[j] = i => j = job
    BY <1>2, <2>2 DEF Fresh
  <2>4. \A j \in Jobs : Fresh(j) /\ idOf[j] = i => j \notin done
    BY <1>5 DEF IInv, DoneInv
  <2>. QED  BY <1>2, <2>1, <2>2, <2>3, <2>4 DEF IInv, LedgerInv
<1>8. Cardinality(Working') = running - 1 /\ running - 1 \in Nat
  <2>1. IsFiniteSet(Working) /\ running = Cardinality(Working)
    BY FiniteFacts DEF IInv, Working, CapacityRespected
  <2>2. Cardinality(Working') = running - 1
    BY <1>5, <2>1, FS_RemoveElement
  <2>3. IsFiniteSet(Working')
    BY <1>5, <2>1, FS_RemoveElement
  <2>. QED  BY <2>2, <2>3, FS_CardinalityType
<1>9. TypeOK'
  <2>1. breaker' \in [Targets -> Breaker]
    <3>1. breaker \in [Targets -> Breaker] /\ Target(i) \in Targets
      BY <1>2, JobsAssumption DEF Target, IInv, TypeOK
    <3>2. Succeeded(breaker[Target(i)]) \in Breaker /\ Failed(breaker[Target(i)]) \in Breaker
      BY <3>1, BreakerTypes
    <3>. QED  BY <1>1, <3>1, <3>2
  <2>2. pc' \in {"idle", "recording"} /\ finished' \in Jobs \cup {NoJob} /\ done' \subseteq Jobs
    BY <1>2, <1>4 DEF IInv, TypeOK
  <2>3. probes' \in [Targets -> Nat]
    BY DEF Settle, Counted, IInv, TypeOK
  <2>. QED  BY <1>1, <1>5, <1>6, <1>8, <2>1, <2>2, <2>3 DEF IInv, TypeOK
<1>10. FiniteInv'
  BY <1>5, <1>6 DEF IInv, FiniteInv
<1>11. CapacityRespected'
  <2>1. running' = Cardinality(Working') /\ running' <= Concurrency
    BY <1>1, <1>8 DEF IInv, TypeOK, CapacityRespected
  <2>2. IsFiniteSet(Waiting) /\ Waiting' \subseteq Waiting
    BY <1>5, FiniteFacts DEF IInv
  <2>3. Cardinality(Waiting') <= Cardinality(Waiting) /\ IsFiniteSet(Waiting')
    BY <2>2, FS_Subset
  <2>4. PendingCount' = Cardinality(Waiting') /\ PendingCount = Cardinality(Waiting)
    BY Zenon DEF PendingCount, Waiting
  <2>5. PendingCount + Cardinality(loading) <= Limit /\ Cardinality(loading) \in Nat
    BY FiniteFacts DEF IInv, CapacityRespected
  <2>6. Cardinality(Waiting') \in Nat /\ Cardinality(Waiting) \in Nat
    BY <2>2, <2>3, FS_CardinalityType
  <2>7. PendingCount' + Cardinality(loading') <= Limit
    BY <1>1, <2>3, <2>4, <2>5, <2>6
  <2>. QED  BY <1>4, <2>1, <2>7 DEF CapacityRespected, Working
<1>12. RowsInv'
  BY <1>1, <1>4, <1>5, <1>6, <1>7 DEF IInv, RowsInv
<1>13. NamesInv'
  <2>1. \A k \in DOMAIN tasks' : idOf'[tasks'[k].job] = k
    BY <1>1, <1>3, <1>5, <1>7 DEF IInv, NamesInv
  <2>2. \A j \in done' \cup accepted' : idOf'[j] # NoJob
    BY <1>1, <1>2, <1>4, <1>7, JobsAssumption DEF IInv, NamesInv
  <2>. QED  BY <1>1, <1>6, <2>1, <2>2 DEF IInv, NamesInv
<1>14. DoneInv'
  <2>1. \A k \in DOMAIN tasks' : ~Pending(tasks'[k].state) => tasks'[k].job \in done'
    BY <1>1, <1>3, <1>4, <1>5 DEF IInv, DoneInv, Pending
  <2>2. done \subseteq Jobs
    BY DEF IInv, TypeOK
  <2>3. ASSUME NEW j \in done', Fresh(j)' PROVE idOf'[j] \notin Waiting' /\ idOf'[j] \notin PendingRows'
    <3>1. CASE j \in done
      BY <1>1, <1>5, <1>6, <1>7, <2>2, <2>3, <3>1 DEF IInv, DoneInv
    <3>2. CASE j \notin done
      BY <1>1, <1>4, <1>5, <1>6, <1>7, <2>3, <3>2
    <3>. QED  BY <3>1, <3>2
  <2>. QED  BY <2>1, <2>3 DEF DoneInv
<1>15. LedgerInv'
  <2>1. finished' # NoJob <=> pc' = "recording"
    BY <1>2, <1>4, <1>7, JobsAssumption
  <2>2. RecordedOnce'
    BY <1>1, <1>7 DEF IInv, LedgerInv, RecordedOnce
  <2>. QED  BY <1>1, <1>4, <1>7, <2>1, <2>2 DEF IInv, LedgerInv
<1>16. AcceptedInv'
  <2>1. accepted \subseteq Jobs
    BY DEF IInv, TypeOK
  <2>. QED  BY <1>1, <1>4, <1>6, <1>7, <2>1 DEF IInv, AcceptedInv
<1>17. RunsInv'
  <2>1. Spent' = Spent /\ Spent \in Nat /\ MaxAttempts \in Nat \ {0}
    BY <1>1, SpentType DEF Spent, Lives, IInv
  <2>2. ASSUME NEW j \in Jobs, Fresh(j)' PROVE RunsOf(j)'
    <3>1. Fresh(j) /\ RunsOf(j) /\ Waiting \subseteq DOMAIN tasks /\ starts[j] \in Nat
      BY <1>7, <2>2 DEF IInv, RunsInv, Waiting, TypeOK
    <3>2. CASE idOf[j] = i
      BY <1>1, <1>2, <1>3, <1>4, <1>5, <1>7, <2>1, <3>1, <3>2 DEF RunsOf
    <3>3. CASE idOf[j] # i
      BY <1>1, <1>4, <1>5, <1>7, <2>1, <3>1, <3>3 DEF RunsOf
    <3>. QED  BY <3>2, <3>3
  <2>. QED  BY <1>1, <2>2 DEF RunsInv, IInv
<1>. QED  BY <1>9, <1>10, <1>11, <1>12, <1>13, <1>14, <1>15, <1>16, <1>17 DEF IInv

\* The record of a finished execution is written, or fails to be.
LEMMA RecordStep ==
  ASSUME IInv, RecordTrace \/ RecordFails
  PROVE  IInv'
<1>1. /\ pc = "recording" /\ pc' = "idle" /\ finished' = NoJob /\ finished \in Jobs /\ finished \in done
      /\ UNCHANGED <<tasks, running, breaker, db, stopping, loading, stops, idOf, accepted, done, starts,
                     probes>>
      /\ Fresh(finished) => ledger[finished] = 0
      /\ failures' \in Nat
      /\ ledger' = ledger \/ ledger' = [ledger EXCEPT ![finished] = @ + 1]
  BY DEF RecordTrace, RecordFails, memory, faults, ghosts, IInv, LedgerInv, TypeOK
<1>2. /\ PendingRows' = PendingRows /\ Waiting' = Waiting /\ PendingCount' = PendingCount
      /\ Spent' = Spent /\ \A job : Fresh(job)' <=> Fresh(job)
  BY <1>1 DEF PendingRows, Waiting, PendingCount, Fresh, Lives, Spent
<1>3. TypeOK'
  BY <1>1 DEF IInv, TypeOK
<1>4. FiniteInv' /\ CapacityRespected' /\ DoneInv' /\ AcceptedInv' /\ RunsInv' /\ RowsInv'
  BY <1>1, <1>2 DEF IInv, FiniteInv, CapacityRespected, DoneInv, AcceptedInv, RunsInv, RunsOf,
                    RowsInv
<1>5. NamesInv'
  <2>1. idOf[finished] # NoJob
    BY <1>1 DEF IInv, NamesInv
  <2>. QED  BY <1>1, <2>1 DEF IInv, NamesInv, TypeOK
<1>6. LedgerInv'
  <2>1. RecordedOnce'
    BY <1>1, <1>2 DEF IInv, LedgerInv, RecordedOnce, TypeOK
  <2>. QED  BY <1>1, <2>1 DEF IInv, LedgerInv, TypeOK
<1>. QED  BY <1>3, <1>4, <1>5, <1>6 DEF IInv

\* The prune timer drops only what is done.
LEMMA PruneStep ==
  ASSUME IInv, NEW old, NEW older, Prune(old, older)
  PROVE  IInv'
<1>1. /\ pc = "idle" /\ old \subseteq {i \in DOMAIN tasks : ~Pending(tasks[i].state)}
      /\ older \subseteq DOMAIN db \ PendingRows
      /\ tasks' = [i \in DOMAIN tasks \ old |-> tasks[i]] /\ db' = [i \in DOMAIN db \ older |-> db[i]]
      /\ UNCHANGED <<running, breaker, ledger, pc, stopping, loading, finished, stops, failures,
                     idOf, accepted, done, starts, probes>>
  BY DEF Prune, faults, ghosts
<1>2. /\ DOMAIN tasks' = DOMAIN tasks \ old /\ \A i \in DOMAIN tasks' : tasks'[i] = tasks[i]
      /\ DOMAIN db' = DOMAIN db \ older /\ \A i \in DOMAIN db' : db'[i] = db[i]
  BY <1>1
<1>3. Waiting' = Waiting /\ PendingRows' = PendingRows /\ PendingCount' = PendingCount
  <2>1. Waiting' = Waiting
    BY <1>1, <1>2 DEF Waiting
  <2>2. PendingRows' = PendingRows
    BY <1>1, <1>2 DEF PendingRows
  <2>. QED  BY <2>1, <2>2, Zenon DEF PendingCount, Waiting
<1>4. Working' = Working
  BY <1>1, <1>2 DEF Working, Pending
<1>5. Spent' = Spent /\ \A job : Fresh(job)' <=> Fresh(job)
  BY <1>1 DEF Fresh, Lives, Spent
<1>6. TypeOK'
  <2>1. DOMAIN tasks' \subseteq Ids /\ tasks' \in [DOMAIN tasks' -> Task]
    BY <1>1 DEF IInv, TypeOK
  <2>2. DOMAIN db' \subseteq Ids /\ db' \in [DOMAIN db' -> TaskRow]
    BY <1>1 DEF IInv, TypeOK
  <2>. QED  BY <1>1, <2>1, <2>2 DEF IInv, TypeOK
<1>7. FiniteInv'
  <2>1. IsFiniteSet(DOMAIN tasks') /\ IsFiniteSet(DOMAIN db')
    BY <1>2, FS_Subset DEF IInv, FiniteInv
  <2>2. PICK b \in Nat : \A i \in DOMAIN tasks : tasks[i].place <= b
    BY DEF IInv, FiniteInv
  <2>3. \A i \in DOMAIN tasks' : tasks'[i].place <= b
    BY <1>2, <2>2
  <2>. QED  BY <2>1, <2>3 DEF FiniteInv
<1>8. CapacityRespected'
  BY <1>1, <1>3, <1>4 DEF IInv, CapacityRespected, Working
<1>9. RowsInv' /\ NamesInv' /\ DoneInv' /\ LedgerInv' /\ AcceptedInv'
  BY <1>1, <1>2, <1>3, <1>5 DEF IInv, RowsInv, NamesInv, DoneInv, LedgerInv, RecordedOnce,
                                AcceptedInv
<1>10. RunsInv'
  <2>1. ASSUME NEW j \in Jobs, Fresh(j)' PROVE RunsOf(j)'
    <3>1. Fresh(j) /\ RunsOf(j) /\ Waiting \subseteq DOMAIN tasks
      BY <1>5, <2>1 DEF IInv, RunsInv, Waiting
    <3>2. ASSUME idOf[j] \in old PROVE j \in done
      BY <1>1, <3>1, <3>2, FreshIsNamed DEF IInv, DoneInv
    <3>3. Waiting' \subseteq DOMAIN tasks'
      BY DEF Waiting
    <3>. QED  BY <1>1, <1>2, <1>3, <1>5, <3>1, <3>2, <3>3 DEF RunsOf
  <2>. QED  BY <1>1, <2>1 DEF RunsInv, IInv
<1>. QED  BY <1>6, <1>7, <1>8, <1>9, <1>10 DEF IInv

\* What a process leaves behind fits the queue of the next.
LEMMA RowsFit ==
  ASSUME IInv, pc # "down"
  PROVE  Cardinality(PendingRows) <= Limit
<1>1. /\ IsFiniteSet(Waiting) /\ IsFiniteSet(PendingRows) /\ IsFiniteSet(loading)
      /\ PendingCount = Cardinality(Waiting) /\ PendingRows \subseteq Waiting \cup loading
      /\ PendingCount + Cardinality(loading) <= Limit
  BY FiniteFacts DEF IInv, RowsInv, CapacityRespected
<1>2. /\ IsFiniteSet(Waiting \cup loading)
      /\ Cardinality(Waiting \cup loading)
           = Cardinality(Waiting) + Cardinality(loading) - Cardinality(Waiting \cap loading)
  BY <1>1, FS_Union
<1>3. Cardinality(PendingRows) <= Cardinality(Waiting \cup loading)
  BY <1>1, <1>2, FS_Subset
<1>4. IsFiniteSet(Waiting \cap loading)
  BY <1>1, FS_Intersection
<1>5. {Cardinality(Waiting), Cardinality(loading), Cardinality(Waiting \cap loading),
       Cardinality(PendingRows), Cardinality(Waiting \cup loading)} \subseteq Nat
  BY <1>1, <1>2, <1>4, FS_CardinalityType
<1>. QED  BY <1>1, <1>2, <1>3, <1>5, SizesAssumption

\* The end of a life of the process, whichever way it came: the table is left
\* with the pending rows it had, or with what a shutdown wrote of the waiting.
LEMMA DownStep ==
  ASSUME IInv,
         pc' = "down", tasks' = << >>, running' = 0, breaker' = [t \in Targets |-> NewBreaker],
         probes' = [t \in Targets |-> 0], stopping' = FALSE, loading' = {}, finished' = NoJob, stops' \in Nat, Lives' = Lives + 1,
         UNCHANGED <<ledger, failures, idOf, accepted, done, starts>>,
         DOMAIN db' \subseteq Ids, db' \in [DOMAIN db' -> TaskRow], IsFiniteSet(DOMAIN db'),
         \A i \in DOMAIN db' : idOf[db'[i].job] = i,
         PendingRows \subseteq PendingRows', PendingRows' \subseteq PendingRows \cup Waiting,
         Cardinality(PendingRows') <= Limit
  PROVE  IInv'
<1>1. /\ DOMAIN tasks' = {} /\ Waiting' = {} /\ PendingCount' = 0 /\ Working' = {}
      /\ Cardinality(Working') = 0 /\ Cardinality(loading') = 0
  <2>1. DOMAIN tasks' = {}
    OBVIOUS
  <2>2. Waiting' = {} /\ Working' = {}
    BY <2>1 DEF Waiting, Working
  <2>3. PendingCount' = Cardinality(Waiting')
    BY Zenon DEF PendingCount, Waiting
  <2>. QED  BY <2>1, <2>2, <2>3, FS_EmptySet
<1>2. \A job : Fresh(job)' <=> Fresh(job)
  BY DEF Fresh
<1>3. TypeOK'
  <2>1. breaker' \in [Targets -> Breaker]
    BY BreakerTypes
  <2>2. tasks' \in [DOMAIN tasks' -> Task]
    BY <1>1
  <2>. QED  BY <1>1, <2>1, <2>2 DEF IInv, TypeOK
<1>4. FiniteInv'
  BY <1>1, FS_EmptySet DEF FiniteInv
<1>5. CapacityRespected'
  BY <1>1, SizesAssumption DEF CapacityRespected, Working
<1>6. RowsInv'
  BY <1>1 DEF IInv, RowsInv
<1>7. NamesInv'
  BY <1>1 DEF IInv, NamesInv
<1>8. DoneInv'
  BY <1>1, <1>2 DEF IInv, DoneInv
<1>9. LedgerInv' /\ AcceptedInv'
  BY <1>2 DEF IInv, LedgerInv, RecordedOnce, AcceptedInv
<1>10. RunsInv'
  <2>1. Spent \in Nat /\ MaxAttempts \in Nat \ {0}
    BY SpentType DEF IInv
  <2>2. Spent' = Spent + MaxAttempts
    <3>1. Lives \in Nat
      BY DEF IInv, TypeOK, RunsInv, Lives
    <3>2. \A a, b \in Nat : a * (b + 1) = a * b + a
      OBVIOUS
    <3>. QED  BY <2>1, <3>1, <3>2 DEF Spent
  <2>3. ASSUME NEW j \in Jobs, Fresh(j)' PROVE RunsOf(j)'
    <3>1. Fresh(j) /\ RunsOf(j) /\ starts[j] \in Nat
      BY <1>2, <2>3 DEF IInv, RunsInv, TypeOK
    <3>. QED  BY <1>1, <2>1, <2>2, <3>1 DEF RunsOf
  <2>. QED  BY <2>3 DEF RunsInv
<1>. QED  BY <1>3, <1>4, <1>5, <1>6, <1>7, <1>8, <1>9, <1>10 DEF IInv

\* The process dies, or exits after a shutdown.
LEMMA ExitStep ==
  ASSUME IInv, Exit
  PROVE  IInv'
<1>1. /\ pc # "down" /\ pc' = "down" /\ tasks' = << >> /\ running' = 0
      /\ breaker' = [t \in Targets |-> NewBreaker] /\ probes' = [t \in Targets |-> 0]
      /\ stopping' = FALSE /\ loading' = {} /\ finished' = NoJob
      /\ UNCHANGED <<db, ledger, failures, idOf, accepted, done, starts>>
  BY DEF Exit
<1>2. stops' \in Nat /\ Lives' = Lives + 1
  BY DEF Exit, Lives, IInv, TypeOK
<1>3. PendingRows' = PendingRows
  BY <1>1 DEF PendingRows
<1>4. /\ DOMAIN db' \subseteq Ids /\ db' \in [DOMAIN db' -> TaskRow] /\ IsFiniteSet(DOMAIN db')
      /\ \A i \in DOMAIN db' : idOf[db'[i].job] = i
  BY <1>1 DEF IInv, TypeOK, FiniteInv, NamesInv
<1>. QED  BY <1>1, <1>2, <1>3, <1>4, RowsFit, DownStep, Zenon

\* A shutdown writes the tasks of the map once more, all or some of them.
LEMMA ShutdownStep ==
  ASSUME IInv, NEW saved \in SUBSET DOMAIN tasks, Shutdown(saved)
  PROVE  IInv'
<1> DEFINE map == [i \in saved |-> tasks[i]]
<1>1. /\ pc = "idle" /\ ~stopping /\ stops' = stops + 1 /\ db' = Saved(db, map)
      /\ UNCHANGED <<ledger, loading, finished, failures, idOf, accepted, done, starts>>
      /\ \/ stopping' = TRUE /\ UNCHANGED <<tasks, running, breaker, pc, probes>>
         \/ /\ pc' = "down" /\ tasks' = << >> /\ running' = 0 /\ stopping' = stopping
            /\ breaker' = [t \in Targets |-> NewBreaker]
            /\ probes' = [t \in Targets |-> 0]
  BY DEF Shutdown, memory, ghosts
<1>2. stopping = FALSE /\ loading = {} /\ finished = NoJob
  BY <1>1 DEF IInv, RowsInv, LedgerInv, TypeOK
<1>3. /\ DOMAIN db' = DOMAIN db \cup saved
      /\ \A i \in saved : db'[i] = Row(db, i, tasks[i])
      /\ \A i \in DOMAIN db : i \notin saved => db'[i] = db[i]
      /\ db' = [i \in DOMAIN db' |-> db'[i]]
  BY <1>1 DEF Saved
<1>4. \A i \in saved : /\ db'[i] \in TaskRow /\ db'[i].state = tasks[i].state
                        /\ db'[i].job \in {tasks[i].job} \cup (IF i \in DOMAIN db THEN {db[i].job} ELSE {})
  <2> SUFFICES ASSUME NEW i \in saved
               PROVE  /\ db'[i] \in TaskRow /\ db'[i].state = tasks[i].state
                      /\ db'[i].job \in {tasks[i].job} \cup (IF i \in DOMAIN db THEN {db[i].job} ELSE {})
    OBVIOUS
  <2>1. /\ tasks[i].job \in Jobs /\ tasks[i].state \in States /\ tasks[i].attempts \in Nat
        /\ i \in DOMAIN db => db[i].job \in Jobs
    BY TaskFacts, RowFacts DEF IInv
  <2>. QED  BY <1>3, <2>1 DEF Row, TaskRow
<1>5. DOMAIN db' \subseteq Ids /\ db' \in [DOMAIN db' -> TaskRow]
  BY <1>3, <1>4 DEF IInv, TypeOK
<1>6. IsFiniteSet(DOMAIN db')
  <2>1. IsFiniteSet(saved) /\ IsFiniteSet(DOMAIN db)
    BY FS_Subset DEF IInv, FiniteInv
  <2>2. IsFiniteSet(DOMAIN db \cup saved)
    BY <2>1, FS_Union, Zenon
  <2>. QED  BY <1>3, <2>2, Zenon
<1>7. \A i \in DOMAIN db' : idOf[db'[i].job] = i
  BY <1>3, <1>4 DEF IInv, NamesInv
<1>8. PendingRows \subseteq PendingRows' /\ PendingRows' \subseteq Waiting
  <2>1. PendingRows \subseteq Waiting
    BY <1>1, <1>2 DEF IInv, RowsInv
  <2>2. \A i \in saved : i \in PendingRows' <=> i \in Waiting
    BY <1>3, <1>4 DEF PendingRows, Waiting
  <2>3. \A i : i \notin saved => (i \in PendingRows' <=> i \in PendingRows)
    BY <1>3 DEF PendingRows
  <2>. QED  BY <2>1, <2>2, <2>3
<1>9. CASE pc' = "down"
  <2>1. Cardinality(PendingRows') <= Limit
    <3>1. /\ IsFiniteSet(Waiting) /\ PendingCount = Cardinality(Waiting)
          /\ PendingCount + Cardinality(loading) <= Limit /\ Cardinality(loading) \in Nat
      BY FiniteFacts DEF IInv, CapacityRespected
    <3>2. IsFiniteSet(PendingRows') /\ Cardinality(PendingRows') <= Cardinality(Waiting)
      BY <1>8, <3>1, FS_Subset
    <3>3. Cardinality(PendingRows') \in Nat /\ Cardinality(Waiting) \in Nat
      BY <3>1, <3>2, FS_CardinalityType
    <3>. QED  BY <3>1, <3>2, <3>3, SizesAssumption
  <2>2. stops' \in Nat /\ Lives' = Lives + 1
    BY <1>1, <1>2, <1>9 DEF Lives, IInv, TypeOK
  <2>3. /\ tasks' = << >> /\ running' = 0 /\ stopping' = FALSE /\ loading' = {} /\ finished' = NoJob
        /\ breaker' = [t \in Targets |-> NewBreaker] /\ probes' = [t \in Targets |-> 0]
    BY <1>1, <1>2, <1>9
  <2>4. PendingRows' \subseteq PendingRows \cup Waiting
    BY <1>8
  <2>. QED  BY <1>1, <1>5, <1>6, <1>7, <1>8, <1>9, <2>1, <2>2, <2>3, <2>4, DownStep, Zenon
<1>10. CASE pc' # "down"
  <2>1. UNCHANGED <<tasks, running, breaker, pc, ledger, loading, finished, failures, idOf, accepted,
                    done, starts, probes>> /\ stopping' = TRUE
    BY <1>1, <1>10
  <2>2. /\ Waiting' = Waiting /\ PendingCount' = PendingCount /\ Working' = Working
        /\ \A job : Fresh(job)' <=> Fresh(job)
    BY <2>1 DEF Waiting, PendingCount, Working, Fresh
  <2>3. Lives' = Lives /\ Spent' = Spent /\ stops' \in Nat /\ stops' > 0
    BY <1>1, <1>2, <2>1 DEF Lives, Spent, IInv, TypeOK
  <2>4. TypeOK'
    BY <1>5, <2>1, <2>3 DEF IInv, TypeOK
  <2>5. FiniteInv'
    BY <1>6, <2>1 DEF IInv, FiniteInv
  <2>6. CapacityRespected'
    BY <1>10, <2>1, <2>2 DEF IInv, CapacityRespected, Working
  <2>7. RowsInv'
    BY <1>1, <1>2, <1>8, <2>1, <2>2 DEF IInv, RowsInv
  <2>8. NamesInv'
    BY <1>7, <2>1 DEF IInv, NamesInv
  <2>9. DoneInv' /\ LedgerInv' /\ AcceptedInv'
    BY <1>8, <2>1, <2>2 DEF IInv, DoneInv, LedgerInv, RecordedOnce, AcceptedInv
  <2>10. RunsInv'
    BY <2>1, <2>2, <2>3 DEF IInv, RunsInv, RunsOf
  <2>. QED  BY <2>4, <2>5, <2>6, <2>7, <2>8, <2>9, <2>10 DEF IInv
<1>. QED  BY <1>9, <1>10

\* A new process finds the pending rows.
LEMMA RestartStep ==
  ASSUME IInv, Restart
  PROVE  IInv'
<1>1. /\ pc = "down" /\ pc' = "hydrating" /\ loading' = PendingRows /\ DOMAIN tasks = {}
      /\ UNCHANGED <<tasks, running, breaker, db, ledger, stopping, finished, stops, failures,
                     idOf, accepted, done, starts, probes>>
  BY DEF Restart, memory, faults, ghosts, IInv, RowsInv
<1>2. /\ PendingRows' = PendingRows /\ Waiting' = Waiting /\ PendingCount' = PendingCount
      /\ Spent' = Spent /\ Working' = Working /\ \A job : Fresh(job)' <=> Fresh(job)
  BY <1>1 DEF PendingRows, Waiting, PendingCount, Fresh, Lives, Spent, Working
<1>3. TypeOK'
  BY <1>1 DEF IInv, TypeOK, PendingRows
<1>4. CapacityRespected'
  <2>1. Waiting = {}
    BY <1>1 DEF Waiting
  <2>2. PendingCount = 0 /\ Cardinality(PendingRows) <= Limit /\ Cardinality(PendingRows) \in Nat
    BY <1>1, <2>1, FS_EmptySet, FiniteFacts, FS_CardinalityType DEF IInv, CapacityRespected
  <2>. QED  BY <1>1, <1>2, <2>2 DEF IInv, CapacityRespected, Working
<1>5. RowsInv' /\ NamesInv' /\ DoneInv' /\ LedgerInv' /\ AcceptedInv' /\ FiniteInv'
  BY <1>1, <1>2 DEF IInv, RowsInv, NamesInv, DoneInv, LedgerInv, RecordedOnce, AcceptedInv,
                    FiniteInv
<1>6. RunsInv'
  BY <1>1, <1>2 DEF IInv, RunsInv, RunsOf
<1>. QED  BY <1>3, <1>4, <1>5, <1>6 DEF IInv

\* hydrate() takes up one row, whether or not it can be saved.
LEMMA RestoreStep ==
  ASSUME IInv, NEW id \in Ids, Restore(id) \/ RestoreUnsaved(id)
  PROVE  IInv'
<1> DEFINE job == db[id].job
<1>1. /\ pc = "hydrating" /\ id \in loading /\ PendingCount < Limit /\ loading' = loading \ {id}
      /\ UNCHANGED <<running, breaker, ledger, pc, stopping, finished, stops, idOf, accepted, done,
                     starts, probes>>
      /\ failures' \in Nat
  <2>1. failures \in Nat
    BY DEF IInv, TypeOK
  <2>2. CASE Restore(id)
    BY <2>1, <2>2 DEF Restore, faults, ghosts
  <2>3. CASE RestoreUnsaved(id)
    BY <2>1, <2>3 DEF RestoreUnsaved, ghosts
  <2>. QED  BY <2>2, <2>3
<1>2. id \in PendingRows /\ id \in DOMAIN db /\ id \notin DOMAIN tasks /\ job \in Jobs /\ db[id].attempts \in Nat
  BY <1>1, RowFacts DEF IInv, RowsInv, PendingRows
<1>3. PICK task \in Task : /\ task.job = job /\ task.state = "queued" /\ tasks' = Put(tasks, id, task)
  <2>1. \A due \in BOOLEAN, n \in Nat :
          /\ NewTask(job, due) \in Task
          /\ [NewTask(job, due) EXCEPT !.attempts = n] \in Task
          /\ NewTask(job, due).job = job /\ NewTask(job, due).state = "queued"
          /\ [NewTask(job, due) EXCEPT !.attempts = n].job = job
          /\ [NewTask(job, due) EXCEPT !.attempts = n].state = "queued"
    BY <1>2, NextPlaceType DEF NewTask, Task, States, IInv
  <2>. QED  BY <1>2, <2>1 DEF Restore, RestoreUnsaved
<1>4. /\ DOMAIN db' = DOMAIN db /\ PendingRows' = PendingRows
      /\ db' \in [DOMAIN db' -> TaskRow]
      /\ \A i \in DOMAIN db : db'[i].job = db[i].job
  <2>1. CASE Restore(id)
    <3>1. PICK new \in Task : /\ new.state = "queued" /\ db' = SavedOne(db, id, new)
      <4>1. NewTask(job, FALSE) \in Task /\ NewTask(job, FALSE).state = "queued"
        BY <1>2, NextPlaceType DEF NewTask, Task, States, IInv
      <4>. QED  BY <2>1, <4>1 DEF Restore
    <3>2. /\ DOMAIN db' = DOMAIN db \cup {id}
          /\ db'[id].job = IF id \in DOMAIN db THEN db[id].job ELSE new.job
          /\ \A i \in DOMAIN db : i # id => db'[i] = db[i]
          /\ db' \in [DOMAIN db' -> TaskRow]
          /\ PendingRows' = IF Pending(new.state) THEN PendingRows \cup {id} ELSE PendingRows \ {id}
      BY <3>1, SaveRow, Zenon
    <3>3. Pending(new.state)
      BY <3>1 DEF Pending
    <3>. QED  BY <1>2, <3>2, <3>3
  <2>2. CASE RestoreUnsaved(id)
    <3>1. db' = db
      BY <2>2 DEF RestoreUnsaved
    <3>. QED  BY <3>1 DEF PendingRows, IInv, TypeOK
  <2>. QED  BY <2>1, <2>2
<1>5. /\ DOMAIN tasks' = DOMAIN tasks \cup {id} /\ tasks'[id] = task
      /\ \A i \in DOMAIN tasks : tasks'[i] = tasks[i]
      /\ DOMAIN tasks' \subseteq Ids /\ tasks' \in [DOMAIN tasks' -> Task]
      /\ IsFiniteSet(DOMAIN tasks')
      /\ \E b \in Nat : \A i \in DOMAIN tasks' : tasks'[i].place <= b
      /\ Waiting' = Waiting \cup {id} /\ PendingCount' = PendingCount + 1
      /\ {i \in DOMAIN tasks : tasks[i].state = "running"}'
           = {i \in DOMAIN tasks : tasks[i].state = "running"}
  BY <1>2, <1>3, PutQueued
<1>6. /\ idOf[job] = id /\ Spent' = Spent /\ \A j : Fresh(j)' <=> Fresh(j)
      /\ \A j \in Jobs : Fresh(j) /\ idOf[j] = id => j = job /\ j \notin done
  <2>1. idOf[job] = id /\ Spent' = Spent /\ \A j : Fresh(j)' <=> Fresh(j)
    BY <1>1, <1>2 DEF IInv, NamesInv, Spent, Lives, Fresh
  <2>2. \A j \in Jobs : Fresh(j) /\ idOf[j] = id => j = job
    BY <1>2, <2>1 DEF Fresh
  <2>. QED  BY <1>2, <2>1, <2>2 DEF IInv, DoneInv
<1>7. TypeOK' /\ FiniteInv'
  BY <1>1, <1>4, <1>5 DEF IInv, TypeOK, FiniteInv
<1>8. CapacityRespected'
  <2>1. /\ IsFiniteSet(loading) /\ PendingCount \in Nat /\ PendingCount + Cardinality(loading) <= Limit
        /\ Cardinality(loading) \in Nat
    BY FiniteFacts DEF IInv, CapacityRespected
  <2>2. Cardinality(loading') = Cardinality(loading) - 1
    BY <1>1, <2>1, FS_RemoveElement
  <2>3. PendingCount' + Cardinality(loading') <= Limit
    BY <1>5, <2>1, <2>2, SizesAssumption
  <2>4. /\ running' = Cardinality({i \in DOMAIN tasks : tasks[i].state = "running"}')
        /\ running' <= Concurrency /\ pc' # "down"
    BY <1>1, <1>5 DEF IInv, CapacityRespected
  <2>. QED  BY <2>3, <2>4, Zenon DEF CapacityRespected
<1>9. RowsInv'
  BY <1>1, <1>2, <1>4, <1>5 DEF IInv, RowsInv
<1>10. NamesInv'
  BY <1>1, <1>3, <1>4, <1>5, <1>6 DEF IInv, NamesInv
<1>11. DoneInv'
  <2>1. \A i \in DOMAIN tasks' : ~Pending(tasks'[i].state) => tasks'[i].job \in done'
    BY <1>1, <1>3, <1>5 DEF IInv, DoneInv, Pending
  <2>2. done \subseteq Jobs
    BY DEF IInv, TypeOK
  <2>. QED  BY <1>1, <1>4, <1>5, <1>6, <2>1, <2>2 DEF IInv, DoneInv
<1>12. LedgerInv' /\ AcceptedInv'
  BY <1>1, <1>4, <1>6 DEF IInv, LedgerInv, RecordedOnce, AcceptedInv
<1>13. RunsInv'
  <2>1. Spent \in Nat /\ MaxAttempts \in Nat \ {0}
    BY SpentType DEF IInv
  <2>2. ASSUME NEW j \in Jobs, Fresh(j)' PROVE RunsOf(j)'
    <3>1. Fresh(j) /\ RunsOf(j) /\ Waiting \subseteq DOMAIN tasks /\ starts[j] \in Nat
      BY <1>6, <2>2 DEF IInv, RunsInv, Waiting, TypeOK
    <3>2. CASE idOf[j] = id
      <4>1. starts[j] <= Spent /\ task.attempts \in Nat
        BY <1>2, <1>6, <3>1, <3>2 DEF RunsOf, Task
      <4>. QED  BY <1>1, <1>5, <1>6, <2>1, <3>1, <3>2, <4>1 DEF RunsOf
    <3>3. CASE idOf[j] # id
      BY <1>1, <1>5, <1>6, <3>1, <3>3 DEF RunsOf
    <3>. QED  BY <3>2, <3>3
  <2>. QED  BY <1>1, <2>2 DEF RunsInv, IInv
<1>. QED  BY <1>7, <1>8, <1>9, <1>10, <1>11, <1>12, <1>13 DEF IInv

LEMMA NextStep == IInv /\ [Next]_vars => IInv'
<1> SUFFICES ASSUME IInv, [Next]_vars PROVE IInv'
  OBVIOUS
<1>1. ASSUME NEW id \in Ids, NEW job \in Jobs, NEW due \in BOOLEAN,
             Submit(id, job, due) \/ SubmitUnsaved(id, job, due)
      PROVE  IInv'
  BY <1>1, SubmitStep
<1>2. CASE Tick \/ TickEnd \/ (\E t \in Targets : CoolDown(t)) \/ Hydrated \/ UNCHANGED vars
  BY <1>2, QuietStep
<1>3. CASE StartSome
  BY <1>3, StartStep DEF StartSome
<1>4. ASSUME NEW job \in Jobs, FinishSome(job) PROVE IInv'
  <2>1. PICK i \in DOMAIN tasks : \/ \E o \in {"completed", "dead"} : Finish(i, o)
                                 \/ \E due \in BOOLEAN : Retry(i, due)
    BY <1>4 DEF FinishSome
  <2>2. ASSUME NEW o \in {"completed", "dead"}, Finish(i, o) PROVE IInv'
    <3>1. Settle(i, o, FALSE) /\ o # "queued" /\ o \in {"queued", "completed", "dead"}
      BY <2>2 DEF Finish
    <3>. QED  BY <2>2, <3>1, SettleStep
  <2>3. ASSUME NEW due \in BOOLEAN, Retry(i, due) PROVE IInv'
    <3>1. Settle(i, "queued", due)
      BY <2>3 DEF Retry
    <3>. QED  BY <2>3, <3>1, SettleStep
  <2>. QED  BY <2>1, <2>2, <2>3
<1>5. CASE RecordTrace \/ RecordFails
  BY <1>5, RecordStep
<1>6. ASSUME NEW job \in Jobs, DueSome(job) PROVE IInv'
  BY <1>6, DueStep DEF DueSome
<1>7. ASSUME NEW old, NEW older, Prune(old, older) PROVE IInv'
  BY <1>7, PruneStep
<1>8. ASSUME NEW saved \in SUBSET DOMAIN tasks, Shutdown(saved) PROVE IInv'
  BY <1>8, ShutdownStep
<1>9. CASE Exit
  BY <1>9, ExitStep
<1>10. CASE Restart
  BY <1>10, RestartStep
<1>11. CASE RestoreSome
  BY <1>11, RestoreStep DEF RestoreSome
<1>. QED  BY <1>1, <1>2, <1>3, <1>4, <1>5, <1>6, <1>7, <1>8, <1>9, <1>10, <1>11 DEF Next

-----------------------------------------------------------------------------
(* The theorems.                                                           *)

\* Every state of the task runner satisfies the invariant.
THEOREM EdgeRunInvariant == Spec => []IInv
<1>. QED  BY InitInv, NextStep, PTL DEF Spec

\* The queue, the breakers, the table and the counters keep their types.
THEOREM EdgeRunTypeOK == Spec => []TypeOK
<1>1. IInv => TypeOK
  BY DEF IInv
<1>. QED  BY <1>1, EdgeRunInvariant, PTL

\* The workers and the queue keep within their limits, and what a restart
\* finds in the table always fits: hydrate() drops nothing.
THEOREM EdgeRunCapacity == Spec => []CapacityRespected
<1>1. IInv => CapacityRespected
  BY DEF IInv
<1>. QED  BY <1>1, EdgeRunInvariant, PTL

\* Work the client was answered 201 for is in a pending row until it is done,
\* and a live process knows of it: through crashes between any two commits,
\* interrupted hydrations and failed writes.
THEOREM EdgeRunSurvival == Spec => []AcceptedSurvives
<1>1. IInv => AcceptedSurvives
  <2> SUFFICES ASSUME IInv, NEW job \in accepted \ done, Fresh(job)
               PROVE  /\ idOf[job] \in PendingRows /\ db[idOf[job]].job = job
                      /\ \/ pc = "down"
                         \/ pc = "hydrating" /\ idOf[job] \in loading
                         \/ \E i \in DOMAIN tasks : tasks[i].job = job /\ Pending(tasks[i].state)
    BY DEF AcceptedSurvives
  <2>1. job \in Jobs /\ idOf[job] \in PendingRows
    BY DEF IInv, TypeOK, AcceptedInv
  <2>2. db[idOf[job]].job = job
    BY <2>1, FreshIsNamed DEF IInv, PendingRows
  <2>3. pc # "down" => idOf[job] \in Waiting \/ (pc = "hydrating" /\ idOf[job] \in loading)
    BY <2>1 DEF IInv, RowsInv
  <2>4. ASSUME idOf[job] \in Waiting
        PROVE  \E i \in DOMAIN tasks : tasks[i].job = job /\ Pending(tasks[i].state)
    BY <2>1, <2>4, FreshIsNamed DEF IInv, Waiting
  <2>. QED  BY <2>1, <2>2, <2>3, <2>4
<1>. QED  BY <1>1, EdgeRunInvariant, PTL

\* The execution ledger never holds two records of one job's outcome.
THEOREM EdgeRunRecordedOnce == Spec => []RecordedOnce
<1>1. IInv => RecordedOnce
  BY DEF IInv, LedgerInv
<1>. QED  BY <1>1, EdgeRunInvariant, PTL

\* A job is begun at most MaxAttempts times in each life of the process.
THEOREM EdgeRunRunsBounded == Spec => []RunsBounded
<1>1. IInv => RunsBounded
  <2> SUFFICES ASSUME IInv, NEW job \in Jobs, Fresh(job)
               PROVE  starts[job] <= MaxAttempts * (1 + stops)
    BY DEF RunsBounded
  <2>1. starts[job] <= Spent + MaxAttempts /\ starts[job] \in Nat
    BY DEF IInv, RunsInv, RunsOf, TypeOK
  <2>2. MaxAttempts \in Nat /\ Spent \in Nat
    BY SpentType DEF IInv
  <2>3. Lives \in Nat /\ stops \in Nat /\ (Lives = stops \/ Lives + 1 = stops)
    BY DEF IInv, TypeOK, RunsInv, Lives
  <2>4. \A a, b \in Nat : a * (1 + b) = a * b + a /\ a * (b + 1) = a * b + a /\ a * b \in Nat
    OBVIOUS
  <2>5. CASE Lives = stops
    BY <2>1, <2>2, <2>3, <2>4, <2>5 DEF Spent
  <2>6. CASE Lives + 1 = stops
    <3>1. MaxAttempts * stops = Spent + MaxAttempts /\ MaxAttempts * (1 + stops) = MaxAttempts * stops + MaxAttempts
      BY <2>2, <2>3, <2>4, <2>6 DEF Spent
    <3>. QED  BY <2>1, <2>2, <3>1
  <2>. QED  BY <2>3, <2>5, <2>6
<1>. QED  BY <1>1, EdgeRunInvariant, PTL

\* While a breaker is half-open, what was begun against it is covered by what
\* came back well and by the mark of the probe that has not.
Probed(b, n) == b.state = "half-open" => n <= b.successes + (IF b.probe THEN 1 ELSE 0)

ProbesInv == \A t \in Targets : Probed(breaker[t], probes[t])

\* No method of the breaker loses count: only an answer of yes lets one more
\* begin, and it leaves the mark; a success counts before the mark is cleared.
LEMMA ProbesKept ==
  ASSUME NEW b \in Breaker, NEW n \in Nat, Probed(b, n)
  PROVE  /\ \A k \in {0, 1} : (k = 1 => CanProceed(b)) =>
              Probed(Asked(b), Counted(Asked(b), Counted(b, n) + k))
         /\ Probed(Succeeded(b), Counted(Succeeded(b), n))
         /\ Probed(Failed(b), Counted(Failed(b), n))
<1>1. b.successes \in Nat /\ b.probe \in BOOLEAN /\ b.state \in {"closed", "open", "half-open"}
  BY ThresholdsAssumption DEF Breaker
<1>2. ASSUME NEW k \in {0, 1}, k = 1 => CanProceed(b)
      PROVE  Probed(Asked(b), Counted(Asked(b), Counted(b, n) + k))
  <2>1. CASE b.state = "closed" \/ ~CanProceed(b)
    <3>1. Asked(b) = b /\ (b.state = "half-open" => k = 0)
      BY <1>2, <2>1 DEF Asked
    <3>. QED  BY <1>1, <3>1 DEF Probed, Counted
  <2>2. CASE b.state # "closed" /\ CanProceed(b)
    <3>1. /\ Asked(b).state = "half-open" /\ Asked(b).probe = TRUE
          /\ Asked(b).successes = IF b.state = "open" THEN 0 ELSE b.successes
      BY <2>2 DEF Asked, Breaker
    <3>2. b.state = "open" \/ (b.state = "half-open" /\ b.probe = FALSE)
      BY <1>1, <2>2 DEF CanProceed
    <3>. QED  BY <1>1, <3>1, <3>2 DEF Probed, Counted
  <2>. QED  BY <2>1, <2>2
<1>3. Probed(Succeeded(b), Counted(Succeeded(b), n))
  <2>1. /\ Succeeded(b).state \in {"half-open", "closed"}
        /\ Succeeded(b).state = "half-open" => /\ b.state = "half-open"
                                               /\ Succeeded(b).successes = b.successes + 1
        /\ Succeeded(b).probe = FALSE
    BY DEF Succeeded, Breaker
  <2>. QED  BY <1>1, <2>1 DEF Probed, Counted
<1>4. Probed(Failed(b), Counted(Failed(b), n))
  <2>1. Failed(b).state # "half-open"
    BY <1>1 DEF Failed, Breaker
  <2>. QED  BY <2>1 DEF Probed
<1>. QED  BY <1>2, <1>3, <1>4

\* A dependency that recovers is not stampeded: while its breaker is half-open
\* no more than successThreshold executions have been begun against it, however
\* late the outcomes from before it opened come in.
THEOREM EdgeRunRecovery == Spec => []RecoveryIsProbed
<1>1. Init => ProbesInv
  BY DEF Init, ProbesInv, Probed, NewBreaker
<1>2. TypeOK /\ ProbesInv /\ [Next]_vars => ProbesInv'
  <2> SUFFICES ASSUME TypeOK, ProbesInv, [Next]_vars, NEW t \in Targets
               PROVE  Probed(breaker[t], probes[t])'
    BY DEF ProbesInv
  <2>0. breaker[t] \in Breaker /\ probes[t] \in Nat /\ Probed(breaker[t], probes[t])
    BY DEF TypeOK, ProbesInv
  <2>1. ASSUME NEW i \in DOMAIN tasks, Start(i) PROVE Probed(breaker[t], probes[t])'
    <3> DEFINE k == IF t = Target(i) THEN 1 ELSE 0
               asked == \E c \in Candidates : Target(c) = t
    <3>1. i \in Candidates /\ CanProceed(breaker[Target(i)])
      BY <2>1 DEF Start, Runnable, Admitted
    <3>2. /\ breaker'[t] = IF asked THEN Asked(breaker[t]) ELSE breaker[t]
          /\ probes'[t] = Counted(breaker'[t], Counted(breaker[t], probes[t]) + k)
      BY <2>1 DEF Start, BreakersAsked
    <3>3. k \in {0, 1} /\ (k = 1 => asked /\ CanProceed(breaker[t]))
      BY <3>1
    <3> HIDE DEF k, asked
    <3>4. CASE asked
      BY <2>0, <3>2, <3>3, <3>4, ProbesKept
    <3>5. CASE ~asked
      BY <2>0, <3>2, <3>3, <3>5 DEF Counted, Probed
    <3>. QED  BY <3>4, <3>5
  <2>2. ASSUME NEW i \in DOMAIN tasks, NEW outcome, NEW due, Settle(i, outcome, due)
        PROVE  Probed(breaker[t], probes[t])'
    <3>1. /\ breaker' = [breaker EXCEPT ![Target(i)] =
                           IF outcome = "completed" THEN Succeeded(@) ELSE Failed(@)]
          /\ probes'[t] = Counted(breaker'[t], probes[t])
      BY <2>2 DEF Settle
    <3>2. breaker'[t] \in {breaker[t], Succeeded(breaker[t]), Failed(breaker[t])}
      BY <3>1 DEF TypeOK
    <3>3. Probed(breaker[t], Counted(breaker[t], probes[t]))
      BY <2>0 DEF Probed, Counted
    <3>. QED  BY <2>0, <3>1, <3>2, <3>3, ProbesKept
  <2>3. ASSUME NEW c \in Targets, CoolDown(c) PROVE Probed(breaker[t], probes[t])'
    <3>1. breaker[c].state = "open" /\ breaker' = [breaker EXCEPT ![c].cooled = TRUE]
      BY <2>3 DEF CoolDown
    <3>2. breaker'[t] = breaker[t] \/ breaker'[t].state = "open"
      BY <3>1 DEF TypeOK, Breaker
    <3>3. probes' = probes
      BY <2>3 DEF CoolDown, ghosts
    <3>. QED  BY <2>0, <3>2, <3>3 DEF Probed
  <2>4. CASE breaker' = [u \in Targets |-> NewBreaker]
    BY <2>4 DEF Probed, NewBreaker
  <2>5. CASE UNCHANGED <<breaker, probes>>
    BY <2>0, <2>5 DEF Probed
  <2>6. ASSUME NEW job \in Jobs, FinishSome(job) PROVE Probed(breaker[t], probes[t])'
    BY <2>2, <2>6 DEF FinishSome, Finish, Retry
  <2>7. CASE StartSome
    BY <2>1, <2>7 DEF StartSome
  <2>8. \/ StartSome \/ (\E job \in Jobs : FinishSome(job)) \/ (\E c \in Targets : CoolDown(c))
        \/ breaker' = [u \in Targets |-> NewBreaker] \/ UNCHANGED <<breaker, probes>>
    BY DEF Next, vars, memory, ghosts, Submit, SubmitUnsaved, Enqueue, Tick, TickEnd, RecordTrace,
           RecordFails, DueSome, BecomeDue, Prune, Shutdown, Exit, Restart, RestoreSome, Restore,
           RestoreUnsaved, Hydrated
  <2>. QED  BY <2>3, <2>4, <2>5, <2>6, <2>7, <2>8
<1>3. TypeOK /\ ProbesInv => RecoveryIsProbed
  <2> SUFFICES ASSUME TypeOK, ProbesInv, NEW t \in Targets, breaker[t].state = "half-open"
               PROVE  probes[t] <= breaker[t].successes + 1 /\ probes[t] <= SuccessThreshold
    BY DEF RecoveryIsProbed
  <2>1. /\ probes[t] \in Nat /\ breaker[t].successes \in 0..(SuccessThreshold - 1)
        /\ probes[t] <= breaker[t].successes + (IF breaker[t].probe THEN 1 ELSE 0)
    BY DEF TypeOK, ProbesInv, Probed, Breaker
  <2>. QED  BY <2>1, ThresholdsAssumption
<1>. QED  BY <1>1, <1>2, <1>3, EdgeRunTypeOK, PTL DEF Spec

-----------------------------------------------------------------------------
(* Cron: what the search finds.                                            *)

\* Quotients and remainders.
LEMMA Division ==
  ASSUME NEW t \in Nat, NEW d \in Nat \ {0}
  PROVE  /\ t \div d \in Nat /\ t % d \in 0..(d - 1)
         /\ (t \div d) * d \in Nat /\ t = (t \div d) * d + (t % d)
OBVIOUS

LEMMA Quotient ==
  ASSUME NEW t \in Nat, NEW d \in Nat \ {0}, NEW q \in Nat, q * d <= t, t < (q + 1) * d
  PROVE  t \div d = q
OBVIOUS

LEMMA Remainder ==
  ASSUME NEW t \in Nat, NEW d \in Nat \ {0}, NEW q \in Nat, NEW r \in 0..(d - 1), t = q * d + r
  PROVE  t \div d = q /\ t % d = r
<1>1. t \div d = q
  BY Quotient
<1>2. t % d \in 0..(d - 1) /\ t = q * d + (t % d) /\ q * d \in Nat
  BY <1>1, Division
<1>. QED  BY <1>1, <1>2

LEMMA DivisionBounds ==
  ASSUME NEW t \in Nat, NEW d \in Nat \ {0}
  PROVE  /\ (t \div d) * d <= t /\ t < (t \div d + 1) * d
OBVIOUS

\* Products.
LEMMA Product == \A a, b \in Nat : a * b \in Nat /\ (a # 0 /\ b # 0 => a * b # 0)
OBVIOUS

LEMMA Increase ==
  ASSUME NEW a \in Nat, NEW b \in Nat, NEW d \in Nat, a <= b
  PROVE  a * d <= b * d
OBVIOUS

LEMMA IncreaseStrict ==
  ASSUME NEW a \in Nat, NEW b \in Nat, NEW d \in Nat \ {0}, a * d < b * d
  PROVE  a < b
OBVIOUS

\* Hours, days and years have a length, and so has the calendar.
LEMMA Units ==
  /\ HourLength \in Nat \ {0} /\ DayLength \in Nat \ {0} /\ WeekLength \in Nat \ {0}
  /\ YearLength \in Nat \ {0} /\ SearchYears \in Nat \ {0}
  /\ DayMinutes \in Nat \ {0} /\ CycleMonths \in Nat \ {0} /\ CycleDays \in Nat
  /\ \A i \in 1..CycleMonths : /\ MonthStarts[i] \in Nat /\ MonthStarts[i + 1] \in Nat
                               /\ MonthStarts[i] < MonthStarts[i + 1]
<1>1. /\ HourLength \in Nat \ {0} /\ DayLength \in Nat \ {0} /\ WeekLength \in Nat \ {0}
      /\ YearLength \in Nat \ {0} /\ SearchYears \in Nat \ {0}
  BY CalendarAssumption
<1>2. DayMinutes \in Nat \ {0}
  BY <1>1, Product DEF DayMinutes
<1>3. CycleMonths \in Nat \ {0} /\ CycleDays \in Nat
  BY CalendarAssumption DEF CycleMonths, CycleDays
<1>4. ASSUME NEW i \in 1..CycleMonths
      PROVE  /\ MonthStarts[i] \in Nat /\ MonthStarts[i + 1] \in Nat
             /\ MonthStarts[i] < MonthStarts[i + 1]
  BY CalendarAssumption, <1>3 DEF CycleMonths
<1>. QED  BY <1>1, <1>2, <1>3, <1>4

\* No month is empty, the last of the calendar and the first of the next too.
LEMMA MonthStartStep ==
  ASSUME NEW m \in Nat
  PROVE  /\ MonthStart(m) \in Nat /\ MonthStart(m) < MonthStart(m + 1)
<1>. DEFINE q == m \div CycleMonths
            r == m % CycleMonths
<1>1. /\ q \in Nat /\ r \in 0..(CycleMonths - 1) /\ q * CycleMonths \in Nat
      /\ m = q * CycleMonths + r
  BY Units, Division
<1>2. q * CycleDays \in Nat /\ (q + 1) * CycleDays = q * CycleDays + CycleDays
  BY <1>1, Units
<1>3. r + 1 \in 1..CycleMonths /\ MonthStarts[r + 1] \in Nat
  BY <1>1, Units
<1>4. MonthStart(m) = q * CycleDays + MonthStarts[r + 1]
  BY DEF MonthStart
<1>. HIDE DEF q, r
<1>5. CASE r + 1 < CycleMonths
  <2>1. (m + 1) \div CycleMonths = q /\ (m + 1) % CycleMonths = r + 1
    BY <1>1, <1>5, Units, Remainder
  <2>3. MonthStart(m + 1) = q * CycleDays + MonthStarts[(r + 1) + 1]
    BY <2>1 DEF MonthStart
  <2>4. MonthStarts[r + 1] < MonthStarts[(r + 1) + 1] /\ MonthStarts[(r + 1) + 1] \in Nat
    BY <1>3, Units
  <2>. QED  BY <1>2, <1>3, <1>4, <2>3, <2>4
<1>6. CASE r + 1 = CycleMonths
  <2>1. m + 1 = (q + 1) * CycleMonths + 0 /\ q + 1 \in Nat /\ 0 \in 0..(CycleMonths - 1)
    BY <1>1, <1>6, Units
  <2>2. (m + 1) \div CycleMonths = q + 1 /\ (m + 1) % CycleMonths = 0
    BY <2>1, Units, Remainder
  <2>3. MonthStart(m + 1) = (q + 1) * CycleDays + MonthStarts[1]
    BY <2>2 DEF MonthStart
  <2>4. MonthStarts[1] = 0 /\ CycleDays = MonthStarts[(r + 1) + 1]
    BY <1>6, CalendarAssumption DEF CycleDays, CycleMonths
  <2>5. MonthStarts[r + 1] < MonthStarts[(r + 1) + 1]
    BY <1>3, Units
  <2>. QED  BY <1>2, <1>3, <1>4, <2>3, <2>4, <2>5, Units
<1>. QED  BY <1>1, <1>5, <1>6, Units

\* The calendar begins on day 0.
LEMMA MonthStartZero == MonthStart(0) = 0
<1>1. 0 \div CycleMonths = 0 /\ 0 % CycleMonths = 0
  BY Units, Quotient, Division
<1>. QED  BY <1>1, Units, CalendarAssumption DEF MonthStart

\* A later month begins on a later day.
LEMMA MonthStartGrows ==
  ASSUME NEW m \in Nat, NEW k \in Nat, m < k
  PROVE  MonthStart(m) < MonthStart(k)
<1>. DEFINE Bad == {j \in Nat : m < j /\ ~(MonthStart(m) < MonthStart(j))}
<1>. SUFFICES ASSUME Bad # {} PROVE FALSE
  OBVIOUS
<1>1. PICK j \in Bad : \A i \in Bad : j <= i
  BY NatLeast
<1>2. j \in Nat /\ m < j /\ ~(MonthStart(m) < MonthStart(j)) /\ j - 1 \in Nat /\ (j - 1) + 1 = j
  OBVIOUS
<1>3. MonthStart(j - 1) \in Nat /\ MonthStart(j - 1) < MonthStart(j) /\ MonthStart(j) \in Nat
      /\ MonthStart(m) \in Nat
  BY <1>2, MonthStartStep
<1>4. j - 1 \notin Bad
  BY <1>1, <1>2
<1>5. m = j - 1 \/ MonthStart(m) < MonthStart(j - 1)
  BY <1>2, <1>4
<1>. QED  BY <1>2, <1>3, <1>5

\* Since no month is empty, month m begins on day m at the earliest.
LEMMA MonthStartLate ==
  ASSUME NEW m \in Nat
  PROVE  m <= MonthStart(m)
<1>. DEFINE Bad == {j \in Nat : ~(j <= MonthStart(j))}
<1>. SUFFICES ASSUME Bad # {} PROVE FALSE
  OBVIOUS
<1>1. PICK j \in Bad : \A i \in Bad : j <= i
  BY NatLeast
<1>2. j # 0
  BY MonthStartZero
<1>3. j - 1 \in Nat /\ (j - 1) + 1 = j /\ j - 1 \notin Bad
  BY <1>1, <1>2
<1>4. MonthStart(j - 1) \in Nat /\ MonthStart(j - 1) < MonthStart(j) /\ MonthStart(j) \in Nat
  BY <1>3, MonthStartStep
<1>. QED  BY <1>3, <1>4

\* Every minute is in one day, and in one month.
LEMMA DayType ==
  ASSUME NEW t \in Nat
  PROVE  Day(t) \in Nat /\ Day(t) * DayMinutes <= t /\ t < (Day(t) + 1) * DayMinutes
BY Units, Division, DivisionBounds DEF Day

LEMMA MonthAtIs ==
  ASSUME NEW t \in Nat
  PROVE  /\ MonthAt(t) \in Nat
         /\ MonthStart(MonthAt(t)) <= Day(t) /\ Day(t) < MonthStart(MonthAt(t) + 1)
<1>. DEFINE D == Day(t)
            Begun == {m \in 0..D : MonthStart(m) <= D}
<1>1. D \in Nat
  BY DayType
<1>2. 0 \in Begun
  BY <1>1, MonthStartZero
<1>. HIDE DEF D
<1>3. PICK m \in Begun : \A k \in Begun : k <= m
  <2>1. Begun \subseteq Nat /\ Begun # {} /\ \A k \in Begun : k <= D
    BY <1>1, <1>2
  <2>. HIDE DEF Begun
  <2>. QED  BY <2>1, <1>1, NatGreatest
<1>4. m \in Nat /\ MonthStart(m + 1) \in Nat /\ m + 1 <= MonthStart(m + 1)
  BY <1>1, MonthStartStep, MonthStartLate
<1>5. D < MonthStart(m + 1)
  <2>1. CASE m + 1 \in 0..D
    <3>1. m + 1 \notin Begun
      BY <1>3, <1>4
    <3>. QED  BY <2>1, <3>1, <1>1, <1>4
  <2>. QED  BY <2>1, <1>1, <1>4
<1>6. \E k \in 0..D : MonthStart(k) <= D /\ D < MonthStart(k + 1)
  BY <1>5
<1>7. MonthAt(t) = CHOOSE k \in 0..D : MonthStart(k) <= D /\ D < MonthStart(k + 1)
  BY DEF MonthAt, D
<1>8. /\ MonthAt(t) \in 0..D /\ MonthStart(MonthAt(t)) <= D /\ D < MonthStart(MonthAt(t) + 1)
  BY <1>6, <1>7
<1>. QED  BY <1>1, <1>8 DEF D

LEMMA MonthAtUnique ==
  ASSUME NEW t \in Nat, NEW m \in Nat, MonthStart(m) <= Day(t), Day(t) < MonthStart(m + 1)
  PROVE  MonthAt(t) = m
<1>. DEFINE k == MonthAt(t)
<1>1. k \in Nat /\ MonthStart(k) <= Day(t) /\ Day(t) < MonthStart(k + 1) /\ Day(t) \in Nat
  BY MonthAtIs, DayType
<1>. HIDE DEF k
<1>2. /\ MonthStart(m) \in Nat /\ MonthStart(m + 1) \in Nat
      /\ MonthStart(k) \in Nat /\ MonthStart(k + 1) \in Nat
  BY <1>1, MonthStartStep
<1>3. ~ (m + 1 <= k)
  <2>1. SUFFICES ASSUME m + 1 <= k PROVE FALSE
    OBVIOUS
  <2>2. MonthStart(m + 1) <= MonthStart(k)
    BY <2>1, <1>1, <1>2, MonthStartGrows
  <2>. QED  BY <2>2, <1>1, <1>2
<1>4. ~ (k + 1 <= m)
  <2>1. SUFFICES ASSUME k + 1 <= m PROVE FALSE
    OBVIOUS
  <2>2. MonthStart(k + 1) <= MonthStart(m)
    BY <2>1, <1>1, <1>2, MonthStartGrows
  <2>. QED  BY <2>2, <1>1, <1>2
<1>5. k = m
  BY <1>1, <1>3, <1>4
<1>. QED  BY <1>5 DEF k

\* What the search skips is of the same month, day or hour.
LEMMA SameHour ==
  ASSUME NEW t \in Nat, NEW u \in t..(NextHour(t) - 1)
  PROVE  Hour(u) = Hour(t)
<1>1. /\ t \div HourLength \in Nat /\ (t \div HourLength) * HourLength <= t
      /\ (t \div HourLength) * HourLength \in Nat /\ NextHour(t) \in Nat
  BY Units, Division, DivisionBounds DEF NextHour
<1>2. u \in Nat /\ (t \div HourLength) * HourLength <= u /\ u < (t \div HourLength + 1) * HourLength
  BY <1>1 DEF NextHour
<1>3. u \div HourLength = t \div HourLength
  BY <1>1, <1>2, Units, Quotient
<1>. QED  BY <1>3 DEF Hour

LEMMA SameDay ==
  ASSUME NEW t \in Nat, NEW u \in t..(NextDay(t) - 1)
  PROVE  Day(u) = Day(t)
<1>1. /\ Day(t) \in Nat /\ Day(t) * DayMinutes <= t
      /\ Day(t) * DayMinutes \in Nat /\ NextDay(t) \in Nat
  BY DayType, Units, Product DEF NextDay
<1>2. u \in Nat /\ Day(t) * DayMinutes <= u /\ u < (Day(t) + 1) * DayMinutes
  BY <1>1 DEF NextDay
<1>. QED  BY <1>1, <1>2, Units, Quotient DEF Day

LEMMA SameMonth ==
  ASSUME NEW t \in Nat, NEW u \in t..(NextMonth(t) - 1)
  PROVE  MonthAt(u) = MonthAt(t)
<1>0. /\ MonthAt(t) \in Nat /\ MonthStart(MonthAt(t)) <= Day(t) /\ Day(t) \in Nat
      /\ Day(t) * DayMinutes <= t /\ Day(t) * DayMinutes \in Nat
  BY DayType, MonthAtIs, Units, Product
<1>1. MonthStart(MonthAt(t)) \in Nat /\ MonthStart(MonthAt(t) + 1) \in Nat
  BY <1>0, MonthStartStep
<1>2. NextMonth(t) \in Nat /\ u \in Nat /\ t <= u /\ u < NextMonth(t)
  BY <1>0, <1>1, Units, Product DEF NextMonth
<1>3. Day(u) \in Nat /\ Day(u) * DayMinutes <= u /\ u < (Day(u) + 1) * DayMinutes
      /\ Day(u) * DayMinutes \in Nat /\ (Day(u) + 1) * DayMinutes \in Nat
  BY <1>2, DayType, Units, Product
<1>4. Day(t) < Day(u) + 1
  BY <1>0, <1>2, <1>3, Units, IncreaseStrict
<1>5. Day(u) < MonthStart(MonthAt(t) + 1)
  BY <1>0, <1>1, <1>2, <1>3, Units, IncreaseStrict DEF NextMonth
<1>. QED  BY <1>0, <1>1, <1>2, <1>3, <1>4, <1>5, MonthAtUnique

\* The search always goes on to a later minute.
LEMMA Later ==
  ASSUME NEW t \in Nat
  PROVE  /\ NextHour(t) \in Nat /\ NextHour(t) > t
         /\ NextDay(t) \in Nat /\ NextDay(t) > t
         /\ NextMonth(t) \in Nat /\ NextMonth(t) > t
<1>1. NextHour(t) \in Nat /\ NextHour(t) > t
  BY Units, Division, DivisionBounds, Product DEF NextHour
<1>2. NextDay(t) \in Nat /\ NextDay(t) > t
  BY DayType, Units, Product DEF NextDay
<1>3. NextMonth(t) \in Nat /\ NextMonth(t) > t
  <2>1. /\ MonthAt(t) + 1 \in Nat /\ MonthStart(MonthAt(t) + 1) \in Nat
        /\ Day(t) + 1 \in Nat /\ Day(t) + 1 <= MonthStart(MonthAt(t) + 1)
        /\ t < (Day(t) + 1) * DayMinutes
    BY DayType, MonthAtIs, MonthStartStep
  <2>2. /\ (Day(t) + 1) * DayMinutes <= NextMonth(t)
        /\ (Day(t) + 1) * DayMinutes \in Nat /\ NextMonth(t) \in Nat
    BY <2>1, Units, Increase, Product DEF NextMonth
  <2>. QED  BY <2>1, <2>2
<1>. QED  BY <1>1, <1>2, <1>3

\* Where a field does not match, no minute matches that the search skips.
LEMMA SkippedMonth ==
  ASSUME NEW f, NEW t \in Nat, Month(t) \notin f.month, NEW u \in t..(NextMonth(t) - 1)
  PROVE  ~matches(f, u)
BY SameMonth DEF matches, Month

LEMMA SkippedHour ==
  ASSUME NEW f, NEW t \in Nat, Hour(t) \notin f.hour, NEW u \in t..(NextHour(t) - 1)
  PROVE  ~matches(f, u)
BY SameHour DEF matches

\* A day is of one month.
LEMMA SkippedDay ==
  ASSUME NEW f, NEW t \in Nat, ~DayMatches(f, t), NEW u \in t..(NextDay(t) - 1)
  PROVE  ~matches(f, u)
<1>1. Day(u) = Day(t)
  BY SameDay
<1>2. Date(u) = Date(t) /\ WeekDay(u) = WeekDay(t)
  BY <1>1 DEF Date, WeekDay, MonthAt
<1>. QED  BY <1>2 DEF matches, DayMatches

\* The first minute from t to limit that matches, or Never.
First(f, t, limit) ==
  IF \E u \in t..limit : matches(f, u)
  THEN CHOOSE u \in t..limit : matches(f, u) /\ \A w \in t..(u - 1) : ~matches(f, w)
  ELSE Never

\* It is there when one matches, and is the only one that is first.
LEMMA FirstIs ==
  ASSUME NEW f, NEW t \in Nat, NEW limit \in Nat
  PROVE  \/ First(f, t, limit) = Never /\ \A u \in t..limit : ~matches(f, u)
         \/ /\ First(f, t, limit) \in t..limit
            /\ matches(f, First(f, t, limit))
            /\ \A w \in t..(First(f, t, limit) - 1) : ~matches(f, w)
<1>1. CASE \E u \in t..limit : matches(f, u)
  <2>. DEFINE S == {u \in t..limit : matches(f, u)}
  <2>1. S \subseteq Nat /\ S # {}
    BY <1>1
  <2>2. PICK u \in S : \A w \in S : u <= w
    BY <2>1, NatLeast
  <2>3. u \in t..limit /\ matches(f, u) /\ \A w \in t..(u - 1) : ~matches(f, w)
    BY <2>2
  <2>. QED  BY <2>3, <1>1 DEF First
<1>2. CASE ~ \E u \in t..limit : matches(f, u)
  BY <1>2 DEF First
<1>. QED  BY <1>1, <1>2

LEMMA FirstUnique ==
  ASSUME NEW f, NEW t \in Nat, NEW limit \in Nat, NEW u \in t..limit,
         matches(f, u), \A w \in t..(u - 1) : ~matches(f, w)
  PROVE  First(f, t, limit) = u
<1>. DEFINE v == First(f, t, limit)
<1>1. v \in t..limit /\ matches(f, v) /\ \A w \in t..(v - 1) : ~matches(f, w)
  BY FirstIs
<1>. HIDE DEF v
<1>2. v = u
  BY <1>1
<1>. QED  BY <1>2 DEF v

\* What is skipped changes nothing.
LEMMA FirstSkips ==
  ASSUME NEW f, NEW t \in Nat, NEW n \in Nat, NEW limit \in Nat, t < n,
         \A u \in t..(n - 1) : ~matches(f, u)
  PROVE  First(f, t, limit) = First(f, n, limit)
<1>1. CASE First(f, n, limit) = Never /\ \A u \in n..limit : ~matches(f, u)
  <2>1. \A u \in t..limit : ~matches(f, u)
    BY <1>1
  <2>. QED  BY <1>1, <2>1 DEF First
<1>2. CASE First(f, n, limit) # Never \/ \E u \in n..limit : matches(f, u)
  <2>. DEFINE v == First(f, n, limit)
  <2>1. v \in n..limit /\ matches(f, v) /\ \A w \in n..(v - 1) : ~matches(f, w)
    BY <1>2, FirstIs
  <2>. HIDE DEF v
  <2>2. v \in t..limit /\ \A w \in t..(v - 1) : ~matches(f, w)
    BY <2>1
  <2>3. First(f, t, limit) = v
    BY <2>1, <2>2, FirstUnique
  <2>. QED  BY <2>3 DEF v
<1>. QED  BY <1>1, <1>2

\* A limit some years on is a minute.
LEMMA LimitType ==
  ASSUME NEW t \in Nat
  PROVE  YearsLater(t) \in Nat
<1>. DEFINE m == MonthAt(t) + SearchYears * YearLength
<1>1. MonthAt(t) \in Nat /\ Day(t) \in Nat /\ MonthStart(MonthAt(t)) <= Day(t) /\ m \in Nat
  <2>1. SearchYears * YearLength \in Nat
    BY Units, Product
  <2>. QED  BY <2>1, MonthAtIs, DayType
<1>2. MonthStart(m) \in Nat /\ MonthStart(MonthAt(t)) \in Nat
  BY <1>1, MonthStartStep
<1>3. MonthStart(m) + Date(t) - 1 \in Nat
  BY <1>1, <1>2 DEF Date
<1>4. t % DayMinutes \in Nat
  BY Units, Division
<1>. QED  BY <1>3, <1>4, Units, Product DEF YearsLater

\* One turn of the search: where it goes from t, given what it finds elsewhere.
Turn(f, limit, Search, t) ==
  IF t > limit THEN Never
  ELSE IF Month(t) \notin f.month THEN Search[NextMonth(t)]
  ELSE IF ~DayMatches(f, t) THEN Search[NextDay(t)]
  ELSE IF Hour(t) \notin f.hour THEN Search[NextHour(t)]
  ELSE IF matches(f, t) THEN t
  ELSE Search[t + 1]

IsSearch(f, limit, Search) == Search = [t \in Nat |-> Turn(f, limit, Search, t)]

\* A turn ends the search or goes on to a later minute, over none that matches.
LEMMA TurnIs ==
  ASSUME NEW f, NEW limit \in Nat, NEW S, NEW t \in Nat
  PROVE  \/ t > limit /\ Turn(f, limit, S, t) = Never
         \/ t <= limit /\ matches(f, t) /\ Turn(f, limit, S, t) = t
         \/ \E n \in Nat : /\ t <= limit /\ t < n
                           /\ \A u \in t..(n - 1) : ~matches(f, u)
                           /\ Turn(f, limit, S, t) = S[n]
<1>1. CASE t > limit
  BY <1>1 DEF Turn
<1>2. CASE t <= limit /\ Month(t) \notin f.month
  BY <1>2, SkippedMonth, Later DEF Turn
<1>3. CASE t <= limit /\ Month(t) \in f.month /\ ~DayMatches(f, t)
  BY <1>3, SkippedDay, Later DEF Turn
<1>4. CASE t <= limit /\ Month(t) \in f.month /\ DayMatches(f, t) /\ Hour(t) \notin f.hour
  BY <1>4, SkippedHour, Later DEF Turn
<1>5. CASE t <= limit /\ Month(t) \in f.month /\ DayMatches(f, t) /\ Hour(t) \in f.hour
  BY <1>5 DEF Turn
<1>. QED  BY <1>1, <1>2, <1>3, <1>4, <1>5

\* The first match satisfies the recursion, so that there is a function which
\* does.
LEMMA FirstIsSearch ==
  ASSUME NEW f, NEW limit \in Nat
  PROVE  IsSearch(f, limit, [t \in Nat |-> First(f, t, limit)])
<1>. DEFINE S == [t \in Nat |-> First(f, t, limit)]
<1>1. ASSUME NEW t \in Nat PROVE S[t] = Turn(f, limit, S, t)
  <2>1. CASE t > limit /\ Turn(f, limit, S, t) = Never
    BY <2>1 DEF First
  <2>2. CASE t <= limit /\ matches(f, t) /\ Turn(f, limit, S, t) = t
    <3>1. First(f, t, limit) = t
      BY <2>2, FirstUnique
    <3>. QED  BY <2>2, <3>1
  <2>3. CASE \E n \in Nat : /\ t <= limit /\ t < n
                            /\ \A u \in t..(n - 1) : ~matches(f, u)
                            /\ Turn(f, limit, S, t) = S[n]
    <3>1. PICK n \in Nat : /\ t < n /\ Turn(f, limit, S, t) = S[n]
                           /\ \A u \in t..(n - 1) : ~matches(f, u)
      BY <2>3
    <3>. HIDE DEF S
    <3>2. First(f, t, limit) = First(f, n, limit)
      BY <3>1, FirstSkips
    <3>. QED  BY <3>1, <3>2 DEF S
  <2>. HIDE DEF S
  <2>. QED  BY <2>1, <2>2, <2>3, TurnIs
<1>. HIDE DEF S
<1>2. S = [t \in Nat |-> S[t]]
  BY DEF S
<1>3. [t \in Nat |-> S[t]] = [t \in Nat |-> Turn(f, limit, S, t)]
  BY <1>1, Zenon
<1>4. IsSearch(f, limit, S)
  BY <1>2, <1>3 DEF IsSearch
<1>. QED  BY <1>4 DEF S

\* And nothing else does: of the minutes where another function would differ
\* none is the last, since each turn goes on to a later one, and none is after
\* the limit.
LEMMA SearchIsFirst ==
  ASSUME NEW f, NEW limit \in Nat, NEW S, IsSearch(f, limit, S), NEW from \in Nat
  PROVE  S[from] = First(f, from, limit)
<1>. DEFINE Bad == {t \in Nat : S[t] # First(f, t, limit)}
<1>. SUFFICES ASSUME Bad # {} PROVE FALSE
  OBVIOUS
<1>1. ASSUME NEW t \in Nat PROVE S[t] = Turn(f, limit, S, t)
  BY DEF IsSearch
<1>2. ASSUME NEW t \in Bad PROVE t <= limit /\ \E n \in Bad : t < n
  <2>1. t \in Nat /\ S[t] # First(f, t, limit) /\ S[t] = Turn(f, limit, S, t)
    BY <1>1
  <2>2. ~(t > limit /\ Turn(f, limit, S, t) = Never)
    BY <2>1 DEF First
  <2>3. ~(t <= limit /\ matches(f, t) /\ Turn(f, limit, S, t) = t)
    BY <2>1, FirstUnique
  <2>4. PICK n \in Nat : /\ t <= limit /\ t < n /\ Turn(f, limit, S, t) = S[n]
                         /\ \A u \in t..(n - 1) : ~matches(f, u)
    BY <2>1, <2>2, <2>3, TurnIs
  <2>5. First(f, t, limit) = First(f, n, limit)
    BY <2>1, <2>4, FirstSkips
  <2>. QED  BY <2>1, <2>4, <2>5
<1>3. PICK m \in Bad : \A t \in Bad : t <= m
  <2>1. Bad \subseteq Nat /\ \A t \in Bad : t <= limit
    BY <1>2
  <2>. HIDE DEF Bad
  <2>. QED  BY <2>1, NatGreatest
<1>4. PICK n \in Bad : m < n
  BY <1>2
<1>5. n \in Nat /\ m \in Nat /\ n <= m
  BY <1>3
<1>. QED  BY <1>4, <1>5

\* nextRun, which skips months, days and hours that cannot match, finds what a
\* search minute by minute would: the first match within its limit, and Never
\* only where there is none, for every expression and every calendar.
THEOREM NextRunIsFirst ==
  ASSUME NEW x, NEW from \in Nat
  PROVE  nextRun(x, from) = First(parseCron(x), from + 1, YearsLater(from + 1))
<1>. DEFINE f == parseCron(x)
            limit == YearsLater(from + 1)
            S == CHOOSE S : IsSearch(f, limit, S)
<1>1. nextRun(x, from) = S[from + 1]
  BY DEF nextRun, IsSearch, Turn
<1>2. limit \in Nat
  BY LimitType
<1>. HIDE DEF limit, f
<1>3. IsSearch(f, limit, S)
  BY <1>2, FirstIsSearch
<1>. HIDE DEF S
<1>4. S[from + 1] = First(f, from + 1, limit)
  BY <1>2, <1>3, SearchIsFirst
<1>. QED  BY <1>1, <1>4 DEF f, limit

-----------------------------------------------------------------------------
(* The scheduler.                                                          *)

\* What is held of a schedule, in memory and in its row.
ScheduleEntry == [cron : Expressions, status : {"active", "paused"}, next : Nat,
                  runs : Nat, failures : Nat]
ScheduleRow == [cron : Expressions, status : {"active", "paused"}]

SchedulerTypes ==
  /\ up \in BOOLEAN /\ now \in Nat /\ settled \subseteq ScheduleIds
  /\ Held \subseteq ScheduleIds /\ schedules \in [Held -> ScheduleEntry]
  /\ DOMAIN rows \subseteq ScheduleIds /\ rows \in [DOMAIN rows -> ScheduleRow]

\* Every schedule's next run was worked out before now, and nothing has run
\* later.
TimesInv ==
  /\ DOMAIN since = Held /\ \A i \in Held : since[i] \in 0..now
  /\ DOMAIN ran = ScheduleIds /\ \A i \in ScheduleIds : ran[i] \in -1..now

SchedulerInv == SchedulerTypes /\ TimesInv /\ OnSchedule /\ AnsweredIsKept

\* What nextRun returns, as OnSchedule has it.
LEMMA NextRunOnSchedule ==
  ASSUME NEW x, NEW from \in Nat, nextRun(x, from) # Never
  PROVE  /\ nextRun(x, from) \in Nat /\ from < nextRun(x, from)
         /\ matches(parseCron(x), nextRun(x, from))
         /\ \A t \in (from + 1)..(nextRun(x, from) - 1) : ~matches(parseCron(x), t)
<1>1. from + 1 \in Nat /\ YearsLater(from + 1) \in Nat
  BY LimitType
<1>. DEFINE f == parseCron(x)
            limit == YearsLater(from + 1)
<1>2. nextRun(x, from) = First(f, from + 1, limit) /\ limit \in Nat
  BY <1>1, NextRunIsFirst
<1>. HIDE DEF f, limit
<1>3. /\ nextRun(x, from) \in (from + 1)..limit /\ matches(f, nextRun(x, from))
      /\ \A t \in (from + 1)..(nextRun(x, from) - 1) : ~matches(f, t)
  BY <1>1, <1>2, FirstIs
<1>. QED  BY <1>2, <1>3 DEF f

\* The service starts with no schedules.
LEMMA SchedulerInitInv == SchedulerInit => SchedulerInv
BY DEF SchedulerInit, SchedulerInv, SchedulerTypes, TimesInv, OnSchedule, AnsweredIsKept, Held,
       Never

\* One schedule as OnSchedule wants it.
Punctual(s, seen, ended) ==
  /\ matches(parseCron(s.cron), s.next)
  /\ \A t \in (seen + 1)..(s.next - 1) : ~matches(parseCron(s.cron), t)
  /\ ended < s.next

LEMMA OnScheduleIs == OnSchedule <=> \A i \in Held : Punctual(schedules[i], since[i], ran[i])
BY DEF OnSchedule, Punctual

\* An entry worked out anew is.
LEMMA PunctualAnew ==
  ASSUME NEW from \in Nat, NEW ended \in Int, ended <= from,
         NEW s, s.next = nextRun(s.cron, from), s.next # Never
  PROVE  Punctual(s, from, ended)
<1>1. nextRun(s.cron, from) # Never
  OBVIOUS
<1>. QED  BY <1>1, NextRunOnSchedule DEF Punctual

\* What is kept of an entry.
LEMMA KeptType ==
  ASSUME NEW s \in ScheduleEntry
  PROVE  Kept(s) \in ScheduleRow
BY DEF Kept, ScheduleEntry, ScheduleRow

\* A request that changes one entry and may write one row.
LEMMA SaveStep ==
  ASSUME SchedulerInv, up, UNCHANGED up,
         NEW i \in ScheduleIds, NEW table, Save(i, table),
         \A k \in ScheduleIds \ {i} : /\ k \in Held' <=> k \in Held
                                      /\ k \in DOMAIN table <=> k \in DOMAIN rows
                                      /\ k \in Held => schedules'[k] = schedules[k]
                                      /\ k \in DOMAIN rows => table[k] = rows[k],
         i \in Held' <=> i \in DOMAIN table,
         i \in Held' => table[i] = Kept(schedules'[i])
  PROVE  AnsweredIsKept' /\ settled' \subseteq ScheduleIds
<1>. USE DEF AnsweredIsKept, SchedulerInv, SchedulerTypes, Kept
<1>1. CASE rows' = table /\ settled' = settled \cup {i}
  BY <1>1
<1>2. CASE rows' = rows /\ settled' = settled \ {i}
  BY <1>2
<1>. QED  BY <1>1, <1>2 DEF Save

\* POST /schedule
LEMMA ScheduleStep ==
  ASSUME SchedulerInv, NEW i \in ScheduleIds, NEW x \in Expressions, Schedule(i, x)
  PROVE  SchedulerInv'
<1>. DEFINE e == Scheduled(i, x)
<1>1. /\ up /\ UNCHANGED <<up, queue, now, ran>> /\ nextRun(x, now) # Never
      /\ schedules' = With(schedules, i, e) /\ since' = With(since, i, now)
      /\ Save(i, With(rows, i, Kept(e)))
  BY DEF Schedule, Request
<1>2. e \in ScheduleEntry /\ e.cron = x /\ e.next = nextRun(x, now)
  <2>1. nextRun(x, now) \in Nat
    BY <1>1, NextRunOnSchedule DEF SchedulerInv, SchedulerTypes
  <2>2. i \in Held => schedules[i].runs \in Nat /\ schedules[i].failures \in Nat
    BY DEF SchedulerInv, SchedulerTypes, ScheduleEntry
  <2>. QED  BY <2>1, <2>2 DEF Scheduled, Entry, ScheduleEntry
<1>. HIDE DEF e
<1>3. Held' = Held \cup {i} /\ \A k \in Held' : schedules'[k] = IF k = i THEN e ELSE schedules[k]
  BY <1>1 DEF With, Held
<1>4. schedules' \in [Held' -> ScheduleEntry] /\ Held' \subseteq ScheduleIds
  BY <1>1, <1>2, <1>3 DEF SchedulerInv, SchedulerTypes, With, Held
<1>5. DOMAIN rows' \subseteq ScheduleIds /\ rows' \in [DOMAIN rows' -> ScheduleRow]
  BY <1>1, <1>2, KeptType DEF Save, With, SchedulerInv, SchedulerTypes
<1>6. AnsweredIsKept' /\ settled' \subseteq ScheduleIds
  <2>. DEFINE table == With(rows, i, Kept(e))
  <2>1. /\ DOMAIN table = DOMAIN rows \cup {i}
        /\ \A k \in DOMAIN table : table[k] = IF k = i THEN Kept(e) ELSE rows[k]
    BY DEF With
  <2>. HIDE DEF table
  <2>. QED  BY <1>1, <1>3, <2>1, SaveStep DEF table
<1>7. TimesInv'
  BY <1>1, <1>3 DEF SchedulerInv, SchedulerTypes, TimesInv, With
<1>8. OnSchedule'
  <2>1. Punctual(e, now, ran[i])
    BY <1>1, <1>2, PunctualAnew DEF SchedulerInv, SchedulerTypes, TimesInv
  <2>2. \A k \in Held' : Punctual(schedules'[k], since'[k], ran'[k])
    <3>1. \A k \in Held' : since'[k] = IF k = i THEN now ELSE since[k]
      BY <1>1, <1>3 DEF With, SchedulerInv, TimesInv
    <3>. QED  BY <1>1, <1>3, <2>1, <3>1, OnScheduleIs DEF SchedulerInv
  <2>. QED  BY <2>2 DEF OnSchedule, Punctual
<1>. QED  BY <1>1, <1>4, <1>5, <1>6, <1>7, <1>8 DEF SchedulerInv, SchedulerTypes

\* POST /schedule/:id/pause
LEMMA PauseStep ==
  ASSUME SchedulerInv, NEW i \in Held, Pause(i)
  PROVE  SchedulerInv'
<1>. DEFINE e == [schedules[i] EXCEPT !.status = "paused"]
<1>0. i \in ScheduleIds /\ schedules[i] \in ScheduleEntry
  BY DEF SchedulerInv, SchedulerTypes
<1>2. e \in ScheduleEntry /\ e.cron = schedules[i].cron /\ e.next = schedules[i].next
  BY <1>0 DEF ScheduleEntry
<1>1. /\ up /\ UNCHANGED <<up, queue, now, ran, since>>
      /\ schedules' = [schedules EXCEPT ![i] = e]
      /\ Save(i, With(rows, i, Kept(schedules'[i])))
  BY DEF Pause, Request
<1>. HIDE DEF e
<1>3. Held' = Held /\ \A k \in Held' : schedules'[k] = IF k = i THEN e ELSE schedules[k]
  BY <1>1 DEF Held
<1>4. schedules' \in [Held' -> ScheduleEntry] /\ Held' \subseteq ScheduleIds
  BY <1>1, <1>2, <1>3 DEF SchedulerInv, SchedulerTypes
<1>5. DOMAIN rows' \subseteq ScheduleIds /\ rows' \in [DOMAIN rows' -> ScheduleRow]
  BY <1>0, <1>1, <1>2, <1>3, KeptType DEF Save, With, SchedulerInv, SchedulerTypes
<1>6. AnsweredIsKept' /\ settled' \subseteq ScheduleIds
  <2>. DEFINE table == With(rows, i, Kept(schedules'[i]))
  <2>1. /\ DOMAIN table = DOMAIN rows \cup {i}
        /\ \A k \in DOMAIN table : table[k] = IF k = i THEN Kept(schedules'[i]) ELSE rows[k]
    BY DEF With
  <2>. HIDE DEF table
  <2>. QED  BY <1>0, <1>1, <1>3, <2>1, SaveStep DEF table
<1>7. TimesInv'
  BY <1>1, <1>3 DEF SchedulerInv, TimesInv
<1>8. OnSchedule'
  BY <1>1, <1>2, <1>3 DEF SchedulerInv, OnSchedule
<1>. QED  BY <1>1, <1>4, <1>5, <1>6, <1>7, <1>8 DEF SchedulerInv, SchedulerTypes

\* POST /schedule/:id/resume: the next run is worked out anew, or stays as it was.
LEMMA ResumeStep ==
  ASSUME SchedulerInv, NEW i \in Held, Resume(i)
  PROVE  SchedulerInv'
<1>. DEFINE next == nextRun(schedules[i].cron, now)
            e == [schedules[i] EXCEPT !.status = "active", !.next = IF next = Never THEN @ ELSE next]
<1>0. i \in ScheduleIds /\ schedules[i] \in ScheduleEntry /\ now \in Nat
  BY DEF SchedulerInv, SchedulerTypes
<1>9. next # Never => next \in Nat
  BY <1>0, NextRunOnSchedule
<1>1. /\ up /\ UNCHANGED <<up, queue, now, ran>>
      /\ schedules' = [schedules EXCEPT ![i] = e]
      /\ IF next = Never
         THEN settled' = settled \ {i} /\ UNCHANGED <<since, rows, breakdowns>>
         ELSE since' = With(since, i, now) /\ Save(i, With(rows, i, Kept(schedules'[i])))
  BY <1>0 DEF Resume, Request, ScheduleEntry
<1>. HIDE DEF next
<1>2. /\ e \in ScheduleEntry /\ e.cron = schedules[i].cron
      /\ e.next = IF next = Never THEN schedules[i].next ELSE next
  BY <1>0, <1>9 DEF ScheduleEntry
<1>. HIDE DEF e
<1>3. Held' = Held /\ \A k \in Held' : schedules'[k] = IF k = i THEN e ELSE schedules[k]
  BY <1>1 DEF Held
<1>4. schedules' \in [Held' -> ScheduleEntry] /\ Held' \subseteq ScheduleIds
  BY <1>1, <1>2, <1>3 DEF SchedulerInv, SchedulerTypes
<1>5. DOMAIN rows' \subseteq ScheduleIds /\ rows' \in [DOMAIN rows' -> ScheduleRow]
  BY <1>0, <1>1, <1>2, <1>3, KeptType DEF Save, With, SchedulerInv, SchedulerTypes
<1>6. AnsweredIsKept' /\ settled' \subseteq ScheduleIds
  <2>1. CASE next = Never
    BY <1>1, <1>3, <2>1 DEF SchedulerInv, SchedulerTypes, AnsweredIsKept
  <2>2. CASE next # Never
    <3>. DEFINE table == With(rows, i, Kept(schedules'[i]))
    <3>1. /\ DOMAIN table = DOMAIN rows \cup {i}
          /\ \A k \in DOMAIN table : table[k] = IF k = i THEN Kept(schedules'[i]) ELSE rows[k]
      BY DEF With
    <3>. HIDE DEF table
    <3>. QED  BY <1>0, <1>1, <1>3, <2>2, <3>1, SaveStep DEF table
  <2>. QED  BY <2>1, <2>2
<1>7. /\ DOMAIN since' = Held
      /\ \A k \in Held : since'[k] = IF k = i /\ next # Never THEN now ELSE since[k]
  BY <1>1 DEF With, SchedulerInv, TimesInv
<1>8. TimesInv'
  BY <1>0, <1>1, <1>3, <1>7 DEF SchedulerInv, TimesInv
<1>10. OnSchedule'
  <2>1. next # Never => Punctual(e, now, ran[i])
    BY <1>0, <1>2, PunctualAnew DEF SchedulerInv, TimesInv, next
  <2>2. next = Never => Punctual(e, since[i], ran[i])
    BY <1>2 DEF SchedulerInv, OnSchedule, Punctual
  <2>3. \A k \in Held' : Punctual(schedules'[k], since'[k], ran'[k])
    BY <1>1, <1>3, <1>7, <2>1, <2>2, OnScheduleIs DEF SchedulerInv
  <2>. QED  BY <2>3 DEF OnSchedule, Punctual
<1>. QED  BY <1>1, <1>4, <1>5, <1>6, <1>8, <1>10 DEF SchedulerInv, SchedulerTypes

\* DELETE /schedule/:id
LEMMA RemoveStep ==
  ASSUME SchedulerInv, NEW i \in Held, Remove(i)
  PROVE  SchedulerInv'
<1>0. i \in ScheduleIds
  BY DEF SchedulerInv, SchedulerTypes
<1>1. /\ up /\ UNCHANGED <<up, queue, now, ran>>
      /\ schedules' = Drop(schedules, i) /\ since' = Drop(since, i)
      /\ Save(i, Drop(rows, i))
  BY DEF Remove, Request
<1>3. /\ Held' = Held \ {i} /\ \A k \in Held' : schedules'[k] = schedules[k]
      /\ DOMAIN since' = Held \ {i} /\ \A k \in Held' : since'[k] = since[k]
  BY <1>1 DEF Held, Drop, SchedulerInv, TimesInv
<1>4. schedules' \in [Held' -> ScheduleEntry] /\ Held' \subseteq ScheduleIds
  BY <1>1, <1>3 DEF SchedulerInv, SchedulerTypes, Drop
<1>5. DOMAIN rows' \subseteq ScheduleIds /\ rows' \in [DOMAIN rows' -> ScheduleRow]
  BY <1>1 DEF Save, Drop, SchedulerInv, SchedulerTypes
<1>6. AnsweredIsKept' /\ settled' \subseteq ScheduleIds
  <2>. DEFINE table == Drop(rows, i)
  <2>1. DOMAIN table = DOMAIN rows \ {i} /\ \A k \in DOMAIN table : table[k] = rows[k]
    BY DEF Drop
  <2>. HIDE DEF table
  <2>. QED  BY <1>0, <1>1, <1>3, <2>1, SaveStep DEF table
<1>7. TimesInv'
  BY <1>1, <1>3 DEF SchedulerInv, TimesInv
<1>8. OnSchedule'
  BY <1>1, <1>3 DEF SchedulerInv, OnSchedule
<1>. QED  BY <1>1, <1>4, <1>5, <1>6, <1>7, <1>8 DEF SchedulerInv, SchedulerTypes

\* When the schedules last ran, after a tick.
LEMMA StampedIs ==
  ASSUME TimesInv, now \in Nat, NEW T, ran' = Stamped(T)
  PROVE  /\ DOMAIN ran' = ScheduleIds
         /\ \A i \in ScheduleIds : ran'[i] \in -1..now /\ (ran'[i] = IF i \in T THEN now ELSE ran[i])
BY DEF Stamped, TimesInv

\* A tick, which works out anew what is due.
LEMMA SchedulerTickStep ==
  ASSUME SchedulerInv, SchedulerTick
  PROVE  SchedulerInv'
<1>1. /\ up /\ UNCHANGED <<up, rows, now, requests, settled>> /\ \A i \in Held : ~Last(i)
      /\ since' = [i \in Held |-> IF Due(i) THEN now ELSE since[i]]
  BY DEF SchedulerTick
<1>2. PICK T, U :
        /\ T \in Taken({i \in Held : Due(i)})
        /\ queue' = queue \cup Fired(T, U)
        /\ schedules' = [i \in Held |-> Ticked(i, i \in T \ U)]
        /\ ran' = Stamped(T)
  BY DEF SchedulerTick
<1>3. T \subseteq Held /\ (\A i \in T : Due(i)) /\ Held' = Held /\ Held \subseteq ScheduleIds
  BY <1>2 DEF Taken, Held, SchedulerInv, SchedulerTypes
<1>4. ASSUME NEW i \in Held
      PROVE  /\ schedules'[i] \in ScheduleEntry /\ Kept(schedules'[i]) = Kept(schedules[i])
             /\ Punctual(schedules'[i], since'[i], ran'[i])
  <2>0. /\ schedules[i] \in ScheduleEntry /\ now \in Nat /\ ran'[i] \in -1..now
        /\ ran'[i] = IF i \in T THEN now ELSE ran[i]
        /\ Punctual(schedules[i], since[i], ran[i])
    BY <1>2, <1>3, StampedIs, OnScheduleIs DEF SchedulerInv, SchedulerTypes
  <2>1. schedules'[i] = Ticked(i, i \in T \ U)
    BY <1>2
  <2>2. CASE ~Due(i)
    BY <1>1, <1>3, <2>0, <2>1, <2>2 DEF Ticked
  <2>3. CASE Due(i)
    <3>1. nextRun(schedules[i].cron, now) # Never /\ nextRun(schedules[i].cron, now) \in Nat
      BY <1>1, <2>0, <2>3, NextRunOnSchedule DEF Last
    <3>2. /\ schedules'[i].cron = schedules[i].cron /\ schedules'[i].status = schedules[i].status
          /\ schedules'[i].next = nextRun(schedules[i].cron, now)
      BY <2>1, <2>3 DEF Ticked, Entry
    <3>3. schedules'[i] \in ScheduleEntry
      BY <2>0, <2>1, <2>3, <3>1 DEF Ticked, Entry, ScheduleEntry
    <3>4. since'[i] = now /\ Punctual(schedules'[i], now, ran'[i])
      BY <1>1, <2>0, <2>3, <3>1, <3>2, PunctualAnew
    <3>. QED  BY <3>2, <3>3, <3>4 DEF Kept
  <2>. QED  BY <2>2, <2>3
<1>5. schedules' \in [Held' -> ScheduleEntry]
  BY <1>2, <1>3, <1>4
<1>7. TimesInv'
  BY <1>1, <1>2, <1>3, StampedIs DEF SchedulerInv, SchedulerTypes, TimesInv
<1>8. OnSchedule'
  BY <1>3, <1>4 DEF OnSchedule, Punctual
<1>9. AnsweredIsKept'
  BY <1>1, <1>3, <1>4 DEF SchedulerInv, AnsweredIsKept
<1>. QED  BY <1>1, <1>3, <1>5, <1>7, <1>8, <1>9 DEF SchedulerInv, SchedulerTypes

\* A process that has stopped holds nothing.
LEMMA StopStep ==
  ASSUME SchedulerInv, NEW pending, Stop(pending),
         UNCHANGED <<rows, now, settled>>,
         DOMAIN ran' = ScheduleIds, \A i \in ScheduleIds : ran'[i] \in -1..now
  PROVE  SchedulerInv'
<1>1. up' = FALSE /\ Held' = {} /\ DOMAIN since' = {}
  BY DEF Stop, Held
<1>2. schedules' \in [Held' -> ScheduleEntry]
  BY <1>1 DEF Stop
<1>. QED  BY <1>1, <1>2 DEF SchedulerInv, SchedulerTypes, TimesInv, OnSchedule, AnsweredIsKept

\* A tick that throws.
LEMMA TickThrowsStep ==
  ASSUME SchedulerInv, TickThrows
  PROVE  SchedulerInv'
<1>1. PICK T, U : /\ T \subseteq Held /\ Stop(queue \cup Fired(T, U)) /\ ran' = Stamped(T)
                  /\ UNCHANGED <<rows, now, settled>>
  BY DEF TickThrows, Taken
<1>3. DOMAIN ran' = ScheduleIds /\ \A i \in ScheduleIds : ran'[i] \in -1..now
  BY <1>1, StampedIs DEF SchedulerInv, SchedulerTypes
<1>. QED  BY <1>1, <1>3, StopStep

\* The process stops for any other reason.
LEMMA CrashStep ==
  ASSUME SchedulerInv, Crash
  PROVE  SchedulerInv'
BY StopStep DEF Crash, SchedulerInv, SchedulerTypes, TimesInv

\* recordOutcome()
LEMMA OutcomeStep ==
  ASSUME SchedulerInv, NEW task \in queue, NEW ok \in BOOLEAN, Outcome(task, ok)
  PROVE  SchedulerInv'
<1>1. /\ queue' = queue \ {task} /\ UNCHANGED <<up, rows, now, requests, breakdowns, history>>
      /\ schedules' = schedules \/ /\ task.id \in Held
                                   /\ schedules' = [schedules EXCEPT ![task.id].failures = @ + 1]
  BY DEF Outcome
<1>2. /\ Held' = Held /\ schedules' \in [Held -> ScheduleEntry]
      /\ \A i \in Held : /\ schedules'[i].cron = schedules[i].cron
                         /\ schedules'[i].status = schedules[i].status
                         /\ schedules'[i].next = schedules[i].next
  BY <1>1 DEF Held, SchedulerInv, SchedulerTypes, ScheduleEntry
<1>. QED  BY <1>1, <1>2 DEF SchedulerInv, SchedulerTypes, TimesInv, OnSchedule, AnsweredIsKept,
                            Kept, history

\* hydrate(): memory becomes what the table says, but for what never fires.
LEMMA hydrateStep ==
  ASSUME SchedulerInv, hydrate
  PROVE  SchedulerInv'
<1>1. /\ up' = TRUE /\ UNCHANGED <<rows, queue, now, requests, breakdowns, ran>>
      /\ Held' = Restored /\ DOMAIN since' = Restored /\ \A i \in Restored : since'[i] = now
      /\ settled' = ScheduleIds \ (DOMAIN rows \ Restored)
      /\ schedules' = [i \in Restored |->
                        Entry(rows[i].cron, rows[i].status, nextRun(rows[i].cron, now), 0, 0)]
  BY DEF hydrate, Held
<1>2. Restored \subseteq DOMAIN rows /\ DOMAIN rows \subseteq ScheduleIds /\ now \in Nat
  BY DEF Restored, SchedulerInv, SchedulerTypes
<1>3. ASSUME NEW i \in Restored
      PROVE  /\ schedules'[i] \in ScheduleEntry /\ Kept(schedules'[i]) = rows[i]
             /\ Punctual(schedules'[i], now, ran[i])
  <2>1. rows[i] \in ScheduleRow /\ nextRun(rows[i].cron, now) # Never
    BY <1>2 DEF Restored, SchedulerInv, SchedulerTypes
  <2>2. nextRun(rows[i].cron, now) \in Nat
    BY <1>2, <2>1, NextRunOnSchedule
  <2>3. schedules'[i] = Entry(rows[i].cron, rows[i].status, nextRun(rows[i].cron, now), 0, 0)
    BY <1>1
  <2>4. schedules'[i] \in ScheduleEntry /\ Kept(schedules'[i]) = rows[i]
    BY <2>1, <2>2, <2>3 DEF Entry, ScheduleEntry, ScheduleRow, Kept
  <2>5. /\ schedules'[i].cron = rows[i].cron
        /\ schedules'[i].next = nextRun(rows[i].cron, now) /\ ran[i] \in Int /\ ran[i] <= now
    BY <1>2, <2>3 DEF Entry, SchedulerInv, TimesInv
  <2>. QED  BY <1>2, <2>1, <2>4, <2>5, PunctualAnew
<1>4. schedules' \in [Held' -> ScheduleEntry]
  BY <1>1, <1>3
<1>5. OnSchedule'
  BY <1>1, <1>3 DEF OnSchedule, Punctual
<1>6. AnsweredIsKept'
  BY <1>1, <1>2, <1>3 DEF AnsweredIsKept
<1>. QED  BY <1>1, <1>2, <1>4, <1>5, <1>6 DEF SchedulerInv, SchedulerTypes, TimesInv

\* Time passes.
LEMMA PassStep ==
  ASSUME SchedulerInv, Pass
  PROVE  SchedulerInv'
BY DEF Pass, history, SchedulerInv, SchedulerTypes, TimesInv, OnSchedule, AnsweredIsKept, Held

\* Every state of the scheduler satisfies its invariant.
THEOREM SchedulerInvariant == SchedulerSpec => []SchedulerInv
<1>1. SchedulerInv /\ [SchedulerNext]_schedulerVars => SchedulerInv'
  <2>. SUFFICES ASSUME SchedulerInv, [SchedulerNext]_schedulerVars PROVE SchedulerInv'
    OBVIOUS
  <2>1. CASE UNCHANGED schedulerVars
    BY <2>1 DEF schedulerVars, history, SchedulerInv, SchedulerTypes, TimesInv, OnSchedule,
                AnsweredIsKept, Held
  <2>. QED  BY <2>1, ScheduleStep, PauseStep, ResumeStep, RemoveStep, SchedulerTickStep, TickThrowsStep,
               CrashStep, OutcomeStep, hydrateStep, PassStep DEF SchedulerNext
<1>. QED  BY <1>1, SchedulerInitInv, PTL DEF SchedulerSpec

\* A schedule's next run is the first minute since it was worked out that
\* matches, and later than its last: no minute is run for twice or stepped over.
THEOREM SchedulerOnSchedule == SchedulerSpec => []OnSchedule
<1>1. SchedulerInv => OnSchedule
  BY DEF SchedulerInv
<1>. QED  BY <1>1, SchedulerInvariant, PTL

\* What was answered is what runs and what a restart will run.
THEOREM SchedulerAnsweredIsKept == SchedulerSpec => []AnsweredIsKept
<1>1. SchedulerInv => AnsweredIsKept
  BY DEF SchedulerInv
<1>. QED  BY <1>1, SchedulerInvariant, PTL
=============================================================================
