-------------------------------- MODULE EdgeRun --------------------------------
(***************************************************************************)
(* The task runner: packages/edge-run/src, with its priority queue         *)
(* (queue.ts), the circuit breakers that hold work back (self-healing.ts), *)
(* the table queue_tasks it writes through to (persistence.ts) and the     *)
(* wiring, hydration and shutdown of server.ts.                            *)
(*                                                                         *)
(* The process is one JavaScript thread: a callback (a request, a timer,   *)
(* the outcome of a task) runs to its end before the next one starts.  It  *)
(* is split below only where the process can die between two commits to    *)
(* the database, and where its loops go round.  `pc` says where it is; the *)
(* actions of other callbacks are enabled at "idle" only.                  *)
(*                                                                         *)
(* A job is one request to run something, made once, under an id that the  *)
(* client chose; two jobs may be given the same id.  The clock is          *)
(* abstracted: a queued task either is due (availableAt <= now) or becomes *)
(* due, and which of two due tasks of one priority became available first  *)
(* is left open, since the client's `delay` decides it.                    *)
(***************************************************************************)
EXTENDS SelfHealing, FiniteSets, FiniteSetsExt

CONSTANTS Jobs,
          Ids,
          Targets,
          TargetOf,     \* [Jobs -> Targets]: the host or script a job calls
          Rank,         \* [Jobs -> Nat]: PRIORITY_ORDER of its priority
          Concurrency,  \* EDGERUN_MAX_CONCURRENT
          Limit,        \* EDGERUN_QUEUE_LIMIT
          MaxAttempts,  \* retry.maxAttempts
          NoJob,        \* stands for: no job, no id
          MaxEvents     \* bound: how often a job comes, the process stops or a write fails

ASSUME JobsAssumption == /\ TargetOf \in [Jobs -> Targets]
                         /\ Rank \in [Jobs -> Nat]
                         /\ NoJob \notin Jobs \cup Ids
ASSUME SizesAssumption == /\ {Concurrency, Limit, MaxAttempts} \subseteq Nat \ {0}
                          /\ MaxEvents \in Nat

VARIABLES
  tasks,      \* TaskQueue.tasks: id -> task, with its place in the Map's order
  running,    \* TaskQueue.running
  breaker,    \* SelfHealing.records
  db,         \* table queue_tasks: id -> [job, state, attempts]
  ledger,     \* job -> how many execution records name it
  pc,         \* where the process is
  stopping,   \* SIGTERM was received: the timers are off
  loading,    \* ids of the rows that hydrate() has yet to restore
  finished,   \* the job whose execution is about to be recorded
  stops,      \* how often the process crashed or was shut down
  failures,   \* how many writes to the database failed
  \* what the following remember is not stored anywhere:
  idOf,       \* job -> the id it was submitted under
  accepted,   \* jobs whose client was answered 201
  done,       \* jobs that were completed or given up
  starts,     \* job -> how often its execution was begun
  probes      \* target -> executions begun since its breaker half-opened

memory == <<tasks, running, breaker>>
ghosts == <<idOf, accepted, done, starts, probes>>
faults == <<stops, failures>>
vars == <<memory, db, ledger, pc, stopping, loading, finished, faults, ghosts>>

-----------------------------------------------------------------------------
Pending(state) == state \in {"queued", "running"}

\* countByState('queued') + countByState('running')
PendingCount == Cardinality({i \in DOMAIN tasks : Pending(tasks[i].state)})

\* Jobs, stops and failures are bounded together.
Room == Cardinality({job \in Jobs : idOf[job] # NoJob}) + stops + failures < MaxEvents

Target(i) == TargetOf[tasks[i].job]

\* The row that saveTask() leaves: on conflict the job (task, retry, priority)
\* stays as it was.
Row(table, id, task) == [job      |-> IF id \in DOMAIN table THEN table[id].job ELSE task.job,
                         state    |-> task.state,
                         attempts |-> task.attempts]

\* Mutant of Saved: a terminal state is not written through.
SavedPendingOnly(table, map) ==
  [id \in DOMAIN table \cup {i \in DOMAIN map : Pending(map[i].state)} |->
     IF id \in DOMAIN map /\ Pending(map[id].state) THEN Row(table, id, map[id]) ELSE table[id]]

\* saveTask() for every task of `map`.
Saved(table, map) ==
  [id \in DOMAIN table \cup DOMAIN map |->
     IF id \in DOMAIN map THEN Row(table, id, map[id]) ELSE table[id]]

\* saveTask()
SavedOne(table, id, task) == Saved(table, [i \in {id} |-> task])

\* Map.set()
Put(map, id, task) == [i \in DOMAIN map \cup {id} |-> IF i = id THEN task ELSE map[i]]

\* Map.set() puts a new key behind all others.
NextPlace == Max({tasks[i].place : i \in DOMAIN tasks} \cup {0}) + 1

NewTask(job, due) == [job |-> job, state |-> "queued", attempts |-> 0, due |-> due,
                      place |-> NextPlace]

\* The rows a restarted process has to take up.
PendingRows == {i \in DOMAIN db : Pending(db[i].state)}

Init == /\ tasks = << >>
        /\ running = 0
        /\ breaker = [t \in Targets |-> NewBreaker]
        /\ db = << >>
        /\ ledger = [j \in Jobs |-> 0]
        /\ pc = "idle"
        /\ stopping = FALSE
        /\ loading = {}
        /\ finished = NoJob
        /\ stops = 0
        /\ failures = 0
        /\ idOf = [j \in Jobs |-> NoJob]
        /\ accepted = {}
        /\ done = {}
        /\ starts = [j \in Jobs |-> 0]
        /\ probes = [t \in Targets |-> 0]

-----------------------------------------------------------------------------
(* POST /queue.                                                            *)

\* Mutant of Enqueue: what is running does not count against the limit.
EnqueueBesideRunning(id, job, due) ==
  /\ pc = "idle"
  /\ idOf[job] = NoJob /\ Room
  /\ PendingCount - running < Limit
  /\ id \notin DOMAIN tasks
  /\ tasks' = Put(tasks, id, NewTask(job, due))
  /\ idOf' = [idOf EXCEPT ![job] = id]
  /\ UNCHANGED <<running, breaker, ledger, stopping, loading, finished, done, starts,
                 probes, stops>>

\* enqueue() up to the point where the task is in the map.
Enqueue(id, job, due) ==
  /\ pc = "idle"
  /\ idOf[job] = NoJob /\ Room
  /\ PendingCount < Limit
  /\ id \notin DOMAIN tasks
  /\ tasks' = Put(tasks, id, NewTask(job, due))
  /\ idOf' = [idOf EXCEPT ![job] = id]
  /\ UNCHANGED <<running, breaker, ledger, stopping, loading, finished, done, starts,
                 probes, stops>>

\* The row is saved, tick() is called and the client gets its 201.
Submit(id, job, due) ==
  /\ Enqueue(id, job, due)
  /\ db' = SavedOne(db, id, NewTask(job, due))
  /\ accepted' = accepted \cup {job}
  /\ pc' = "ticking"
  /\ UNCHANGED failures

\* saveTask() throws: the client gets a 429, but the task is in the map.
SubmitUnsaved(id, job, due) ==
  /\ Enqueue(id, job, due)
  /\ failures' = failures + 1
  /\ UNCHANGED <<db, accepted, pc>>

-----------------------------------------------------------------------------
(* tick(), run by a timer and at the end of POST /queue.                   *)

\* The timer fires.
Tick ==
  /\ pc = "idle"
  /\ ~stopping
  /\ pc' = "ticking"
  /\ UNCHANGED <<memory, db, ledger, stopping, loading, finished, faults, ghosts>>

Candidates == {i \in DOMAIN tasks : tasks[i].state = "queued" /\ tasks[i].due}

\* The candidates canRun() says yes to when nextRunnable() asks it of each in
\* turn: a breaker that is not closed says yes to the first one only.
Admitted == {i \in Candidates :
               /\ CanProceed(breaker[Target(i)])
               /\ \/ breaker[Target(i)].state = "closed"
                  \/ \A k \in Candidates : Target(k) = Target(i) => tasks[i].place <= tasks[k].place}

\* nextRunnable(): of those, one of the highest priority.
Runnable == {i \in Admitted : \A k \in Admitted : Rank[tasks[i].job] <= Rank[tasks[k].job]}

\* Every breaker that was asked, whether or not its task is then the one taken.
BreakersAsked ==
  [t \in Targets |-> IF \E i \in Candidates : Target(i) = t THEN Asked(breaker[t])
                                                            ELSE breaker[t]]

\* What is counted against a breaker that is half-open, and no other.
Counted(b, n) == IF b.state = "half-open" THEN n ELSE 0

\* One round of the loop, with run() up to its await.
Start(i) ==
  LET task == [tasks[i] EXCEPT !.state = "running", !.attempts = @ + 1]
  IN  /\ pc = "ticking"
      /\ running < Concurrency
      /\ i \in Runnable
      /\ breaker' = BreakersAsked
      /\ running' = running + 1
      /\ tasks' = [tasks EXCEPT ![i] = task]
      /\ db' = SavedOne(db, i, task)
      /\ starts' = [starts EXCEPT ![task.job] = @ + 1]
      /\ probes' = [t \in Targets |->
                      Counted(breaker'[t], Counted(breaker[t], probes[t])
                                             + (IF t = Target(i) THEN 1 ELSE 0))]
      /\ UNCHANGED <<ledger, pc, stopping, loading, finished, faults, idOf, accepted, done>>

\* The loop ends.
TickEnd ==
  /\ pc = "ticking"
  /\ running >= Concurrency \/ Admitted = {}
  /\ pc' = "idle"
  /\ UNCHANGED <<memory, db, ledger, stopping, loading, finished, faults, ghosts>>

-----------------------------------------------------------------------------
(* The rest of run(): the outcome of an execution arrives.                 *)

\* What run() does whatever the outcome: `outcome` is the new state.
Settle(i, outcome, due) ==
  LET task == [tasks[i] EXCEPT !.state = outcome, !.due = due]
  IN  /\ pc = "idle"
      /\ tasks[i].state = "running"
      /\ tasks' = [tasks EXCEPT ![i] = task]
      /\ running' = running - 1
      /\ breaker' = [breaker EXCEPT ![Target(i)] =
                       IF outcome = "completed" THEN Succeeded(@) ELSE Failed(@)]
      /\ db' = SavedOne(db, i, task)
      /\ probes' = [t \in Targets |-> Counted(breaker'[t], probes[t])]
      /\ UNCHANGED <<ledger, stopping, loading, faults, idOf, accepted, starts>>

\* A terminal outcome: the row is saved first, the record is written next.
Finish(i, outcome) ==
  /\ Settle(i, outcome, FALSE)
  /\ outcome = "dead" => tasks[i].attempts >= MaxAttempts
  /\ pc' = "recording"
  /\ finished' = tasks[i].job
  /\ done' = done \cup {tasks[i].job}

\* Mutant of Retry: one attempt too many.
RetryOnceMore(i, due) ==
  /\ Settle(i, "queued", due)
  /\ tasks[i].attempts <= MaxAttempts
  /\ UNCHANGED <<pc, finished, done>>

\* A failure with attempts left: back into the queue, due now or later.
Retry(i, due) ==
  /\ Settle(i, "queued", due)
  /\ tasks[i].attempts < MaxAttempts
  /\ UNCHANGED <<pc, finished, done>>

\* traces.record()
RecordTrace ==
  /\ pc = "recording"
  /\ pc' = "idle"
  /\ ledger' = [ledger EXCEPT ![finished] = @ + 1]
  /\ finished' = NoJob
  /\ UNCHANGED <<memory, db, stopping, loading, faults, ghosts>>

\* record() throws: the error is logged and that is all.
RecordFails ==
  /\ pc = "recording"
  /\ Room
  /\ failures' = failures + 1
  /\ pc' = "idle"
  /\ finished' = NoJob
  /\ UNCHANGED <<memory, db, ledger, stopping, loading, stops, ghosts>>

-----------------------------------------------------------------------------
(* Time.                                                                   *)

\* availableAt of a queued task is reached.
BecomeDue(i) ==
  /\ pc = "idle"
  /\ tasks[i].state = "queued" /\ ~tasks[i].due
  /\ tasks' = [tasks EXCEPT ![i].due = TRUE]
  /\ UNCHANGED <<running, breaker, db, ledger, pc, stopping, loading, finished, faults, ghosts>>

\* The cooldown of an open breaker elapses.
CoolDown(t) ==
  /\ pc = "idle"
  /\ breaker[t].state = "open" /\ ~breaker[t].cooled
  /\ breaker' = [breaker EXCEPT ![t].cooled = TRUE]
  /\ UNCHANGED <<tasks, running, db, ledger, pc, stopping, loading, finished, faults, ghosts>>

\* The prune timer: finished tasks leave memory after an hour and the table
\* after a day.
Prune(old, older) ==
  /\ pc = "idle"
  /\ ~stopping
  /\ old \subseteq {i \in DOMAIN tasks : ~Pending(tasks[i].state)}
  /\ older \subseteq (DOMAIN db \ PendingRows) \ (DOMAIN tasks \ old)
  /\ old \cup older # {}
  /\ tasks' = [i \in DOMAIN tasks \ old |-> tasks[i]]
  /\ db' = [i \in DOMAIN db \ older |-> db[i]]
  /\ UNCHANGED <<running, breaker, ledger, pc, stopping, loading, finished, faults, ghosts>>

-----------------------------------------------------------------------------
(* Shutdown, crash and hydrate().                                          *)

\* SIGTERM: the timers stop and every task is saved once more, in the order of
\* the map.  The process may be killed when it has saved the first few.
Shutdown(saved) ==
  /\ pc = "idle"
  /\ ~stopping
  /\ Room
  /\ stops' = stops + 1
  /\ \A i \in saved, k \in DOMAIN tasks \ saved : tasks[i].place < tasks[k].place
  /\ db' = Saved(db, [i \in saved |-> tasks[i]])
  /\ IF saved = DOMAIN tasks
     THEN stopping' = TRUE /\ UNCHANGED <<memory, pc, ghosts>>
     ELSE /\ pc' = "down"
          /\ tasks' = << >> /\ running' = 0
          /\ breaker' = [t \in Targets |-> NewBreaker]
          /\ probes' = [t \in Targets |-> 0]
          /\ UNCHANGED <<stopping, idOf, accepted, done, starts>>
  /\ UNCHANGED <<ledger, loading, finished, failures>>

\* The process dies, or exits after a shutdown: what is in memory is gone.  An
\* exception in saveTask() inside run() comes to the same, since nothing
\* handles the rejected promise.
Exit ==
  /\ pc # "down"
  /\ IF stopping THEN UNCHANGED stops
                 ELSE Room /\ stops' = stops + 1
  /\ pc' = "down"
  /\ tasks' = << >>
  /\ running' = 0
  /\ breaker' = [t \in Targets |-> NewBreaker]
  /\ probes' = [t \in Targets |-> 0]
  /\ stopping' = FALSE
  /\ loading' = {}
  /\ finished' = NoJob
  /\ UNCHANGED <<db, ledger, failures, idOf, accepted, done, starts>>

\* Mutant of Restart: what was running when the process died is not taken up.
RestartQueuedOnly ==
  /\ pc = "down"
  /\ pc' = "hydrating"
  /\ loading' = {i \in DOMAIN db : db[i].state = "queued"}
  /\ UNCHANGED <<memory, db, ledger, stopping, finished, faults, ghosts>>

\* loadPendingTasks()
Restart ==
  /\ pc = "down"
  /\ pc' = "hydrating"
  /\ loading' = PendingRows
  /\ UNCHANGED <<memory, db, ledger, stopping, finished, faults, ghosts>>

\* hydrate() restores one row.  enqueue() saves it as new, and only then are
\* its attempts put back, in memory.
Restore(id) ==
  LET task == NewTask(db[id].job, FALSE)
  IN  /\ pc = "hydrating"
      /\ id \in loading
      /\ PendingCount < Limit
      /\ tasks' = Put(tasks, id, [task EXCEPT !.attempts = db[id].attempts])
      /\ db' = SavedOne(db, id, task)
      /\ loading' = loading \ {id}
      /\ UNCHANGED <<running, breaker, ledger, pc, stopping, finished, faults, ghosts>>

\* saveTask() throws and hydrate() ignores it: the task is in the map, as new.
RestoreUnsaved(id) ==
  /\ pc = "hydrating"
  /\ id \in loading
  /\ PendingCount < Limit
  /\ Room
  /\ failures' = failures + 1
  /\ tasks' = Put(tasks, id, NewTask(db[id].job, TRUE))
  /\ loading' = loading \ {id}
  /\ UNCHANGED <<running, breaker, db, ledger, pc, stopping, finished, stops, ghosts>>

\* The queue starts.
Hydrated ==
  /\ pc = "hydrating"
  /\ loading = {}
  /\ pc' = "idle"
  /\ UNCHANGED <<memory, db, ledger, stopping, loading, finished, faults, ghosts>>

-----------------------------------------------------------------------------
FinishSome(job) == \E i \in DOMAIN tasks : /\ tasks[i].job = job
                                           /\ \/ \E o \in {"completed", "dead"} : Finish(i, o)
                                              \/ \E due \in BOOLEAN : Retry(i, due)
DueSome(job) == \E i \in DOMAIN tasks : tasks[i].job = job /\ BecomeDue(i)
StartSome == \E i \in DOMAIN tasks : Start(i)
RestoreSome == \E id \in Ids : Restore(id) \/ RestoreUnsaved(id)

Next == \/ \E id \in Ids, job \in Jobs, due \in BOOLEAN :
             Submit(id, job, due) \/ SubmitUnsaved(id, job, due)
        \/ Tick \/ StartSome \/ TickEnd
        \/ \E job \in Jobs : FinishSome(job)
        \/ RecordTrace \/ RecordFails
        \/ \E job \in Jobs : DueSome(job)
        \/ \E t \in Targets : CoolDown(t)
        \/ \E old, older \in SUBSET Ids : Prune(old, older)
        \/ \E saved \in SUBSET DOMAIN tasks : Shutdown(saved)
        \/ Exit \/ Restart \/ RestoreSome \/ Hydrated

Spec == Init /\ [][Next]_vars

(***************************************************************************)
(* The event loop runs every due callback sooner or later, so each of the  *)
(* timers gets its turn however often others come first; every execution   *)
(* ends (an HTTP call is aborted and a script is killed at its timeout);   *)
(* time passes; and the supervisor restarts a process that has exited.     *)
(***************************************************************************)
Fairness == /\ SF_vars(Tick) /\ WF_vars(StartSome) /\ WF_vars(TickEnd)
            /\ WF_vars(RecordTrace)
            /\ \A job \in Jobs : SF_vars(FinishSome(job)) /\ SF_vars(DueSome(job))
            /\ \A t \in Targets : SF_vars(CoolDown(t))
            /\ WF_vars(Restart) /\ WF_vars(RestoreSome) /\ WF_vars(Hydrated)
            /\ WF_vars(stopping /\ Exit)

FairSpec == Spec /\ Fairness

-----------------------------------------------------------------------------
(* Properties.                                                             *)

States == {"queued", "running", "completed", "dead"}
Task == [job : Jobs, state : States, attempts : Nat, due : BOOLEAN, place : Nat]
TaskRow == [job : Jobs, state : States, attempts : Nat]

\* The maps, the table and the counters have the types the code declares.
TypeOK ==
  /\ DOMAIN tasks \subseteq Ids /\ tasks \in [DOMAIN tasks -> Task] /\ running \in Nat
  /\ breaker \in [Targets -> Breaker]
  /\ DOMAIN db \subseteq Ids
  /\ db \in [DOMAIN db -> TaskRow]
  /\ ledger \in [Jobs -> Nat] /\ starts \in [Jobs -> Nat] /\ probes \in [Targets -> Nat]
  /\ stops \in Nat /\ failures \in Nat
  /\ pc \in {"down", "hydrating", "idle", "ticking", "recording"}
  /\ stopping \in BOOLEAN /\ loading \subseteq Ids
  /\ finished \in Jobs \cup {NoJob} /\ idOf \in [Jobs -> Ids \cup {NoJob}]
  /\ accepted \subseteq Jobs /\ done \subseteq Jobs

\* No other job was ever given this one's id.
Fresh(job) == /\ idOf[job] # NoJob
              /\ \A other \in Jobs \ {job} : idOf[other] # idOf[job]

\* Work the client was promised (201) is never lost: until it is done there is
\* a pending row that a restart will take up, with the job itself in it, and
\* while the process runs the queue knows of it too - through crashes between
\* any two commits, interrupted hydrations and failed writes during them.
AcceptedSurvives ==
  \A job \in accepted \ done : Fresh(job) =>
    /\ idOf[job] \in PendingRows /\ db[idOf[job]].job = job
    /\ \/ pc = "down"
       \/ pc = "hydrating" /\ idOf[job] \in loading
       \/ \E i \in DOMAIN tasks : tasks[i].job = job /\ Pending(tasks[i].state)

\* An outcome is never recorded twice in the execution ledger.
RecordedOnce == \A job \in Jobs : Fresh(job) => ledger[job] <= 1

\* A job is begun at most MaxAttempts times in each life of the process, even
\* though hydrate() lets the stored attempt count fall behind.
RunsBounded == \A job \in Jobs : Fresh(job) => starts[job] <= MaxAttempts * (1 + stops)

\* The counter `running` is exact and within the limit, and the queue is within
\* its own: what a restart finds always fits, so hydrate() drops nothing.
CapacityRespected ==
  /\ running = Cardinality({i \in DOMAIN tasks : tasks[i].state = "running"})
  /\ running <= Concurrency
  /\ PendingCount + Cardinality(loading) <= Limit
  /\ pc = "down" => Cardinality(PendingRows) <= Limit

\* A dependency that recovers is not stampeded: while its breaker is half-open
\* no more has been begun against it than came back well since, and one more,
\* and so no more than successThreshold in all.  An outcome from before the
\* breaker opened clears the mark of the probe in flight (succeed), and lets
\* another begin beside it; but it counts, and so lets only one (canProceed,
\* succeed, fail, nextRunnable).
RecoveryIsProbed ==
  \A t \in Targets : breaker[t].state = "half-open" =>
    /\ probes[t] <= breaker[t].successes + 1
    /\ probes[t] <= SuccessThreshold

\* "Set while a half-open probe is in flight" (self-healing.ts:26), and every
\* execution ends: a probe is decided, and the mark of it cleared.
ProbesReport == \A t \in Targets : breaker[t].probe ~> ~breaker[t].probe
=============================================================================
