------------------------------- MODULE Scheduler -------------------------------
(***************************************************************************)
(* Scheduled tasks: packages/edge-run/src/scheduler.ts, the routes of      *)
(* server.ts that set schedules, hydrate(), and the table of               *)
(* persistence.ts they are kept in.                                        *)
(*                                                                         *)
(* No handler awaits, and neither does a tick: each is one step, unless    *)
(* the storage fails or the process stops inside.  A tick may come late,   *)
(* as timers do, and the queue may be full.  nextRun throws where it finds *)
(* nothing within its four years: a request is then refused or half done,  *)
(* a row is not restored, and a tick, which nobody catches, takes the      *)
(* process with it.  What becomes of a task that is queued is EdgeRun's;   *)
(* here it leaves the queue, completed or dead.                            *)
(*                                                                         *)
(* Tasks, retries and timeouts, which are carried along, are left out.     *)
(***************************************************************************)
EXTENDS Cron, FiniteSets

CONSTANTS ScheduleIds,   \* ids of schedules
          Expressions,   \* what cron may be
          QueueLimit,    \* EDGERUN_QUEUE_LIMIT
          MaxTime,       \* bound: how far the clock goes
          MaxRequests,   \* bound: how many requests change a schedule
          MaxBreakdowns  \* bound: how often the process or the storage fails

ASSUME SchedulerAssumption == {QueueLimit, MaxTime, MaxRequests, MaxBreakdowns} \subseteq Nat

VARIABLES
  up,        \* the process runs
  schedules, \* AgentScheduler.schedules: id -> its entry
  rows,      \* table schedules: id -> what hydrate() reads of its row
  queue,     \* tasks queued or running: the schedule's id, the time, and
             \* whether the storage took it
  now,       \* the clock, in minutes
  requests, breakdowns,
  since,     \* id -> when its next run was last worked out (not stored)
  ran,       \* id -> when it last enqueued a task (not stored)
  settled    \* ids whose last request was answered, and not with an error,
             \* and which no restart has passed over since (not stored)

history == <<since, ran, settled>>
schedulerVars == <<up, schedules, rows, queue, now, requests, breakdowns, history>>

Held == DOMAIN schedules

Entry(cron, status, next, runs, failures) ==
  [cron |-> cron, status |-> status, next |-> next, runs |-> runs, failures |-> failures]

With(f, x, y) == [z \in DOMAIN f \union {x} |-> IF z = x THEN y ELSE f[z]]
Drop(f, x) == [z \in DOMAIN f \ {x} |-> f[z]]

SchedulerInit ==
  /\ up = TRUE
  /\ schedules = << >> /\ rows = << >> /\ queue = {}
  /\ now = 0 /\ requests = 0 /\ breakdowns = 0
  /\ since = << >> /\ ran = [i \in ScheduleIds |-> Never] /\ settled = ScheduleIds

-----------------------------------------------------------------------------
(* Requests.                                                               *)

\* saveSchedule() and deleteSchedule(): what a restart will read.
Kept(entry) == [cron |-> entry.cron, status |-> entry.status]

\* The table follows the memory and the request is answered; or the storage
\* throws, after the memory has changed, and the answer is an error.
Save(i, table) ==
  \/ rows' = table /\ settled' = settled \union {i} /\ UNCHANGED breakdowns
  \/ /\ breakdowns < MaxBreakdowns /\ breakdowns' = breakdowns + 1
     /\ settled' = settled \ {i}
     /\ UNCHANGED rows

Request == /\ up
           /\ requests < MaxRequests /\ requests' = requests + 1
           /\ UNCHANGED <<up, queue, now, ran>>

\* schedule(): a known id keeps its counters.
Scheduled(i, x) ==
  Entry(x, "active", nextRun(x, now),
        IF i \in Held THEN schedules[i].runs ELSE 0,
        IF i \in Held THEN schedules[i].failures ELSE 0)

\* POST /schedule, which refuses what never fires.
Schedule(i, x) ==
  /\ Request
  /\ nextRun(x, now) # Never
  /\ schedules' = With(schedules, i, Scheduled(i, x))
  /\ since' = With(since, i, now)
  /\ Save(i, With(rows, i, Kept(Scheduled(i, x))))

\* POST /schedule/:id/pause
Pause(i) ==
  /\ Request
  /\ schedules' = [schedules EXCEPT ![i].status = "paused"]
  /\ Save(i, With(rows, i, Kept(schedules'[i])))
  /\ UNCHANGED since

\* POST /schedule/:id/resume: from the next run on, not from what was missed.
\* Where there is none the answer is an error, with the schedule active.
Resume(i) ==
  LET next == nextRun(schedules[i].cron, now)
  IN /\ Request
     /\ schedules' = [schedules EXCEPT ![i].status = "active",
                                       ![i].next = IF next = Never THEN @ ELSE next]
     /\ IF next = Never
        THEN settled' = settled \ {i} /\ UNCHANGED <<since, rows, breakdowns>>
        ELSE since' = With(since, i, now) /\ Save(i, With(rows, i, Kept(schedules'[i])))

\* DELETE /schedule/:id
Remove(i) ==
  /\ Request
  /\ schedules' = Drop(schedules, i)
  /\ since' = Drop(since, i)
  /\ Save(i, Drop(rows, i))

-----------------------------------------------------------------------------
(* The tick.                                                               *)

Due(i) == schedules[i].status = "active" /\ schedules[i].next <= now

\* The due ones after whose run there is no next within four years.
Last(i) == Due(i) /\ nextRun(schedules[i].cron, now) = Never

\* Those of `reached` that a queue with so much room takes; the map's order
\* says which, and it is the order of their creation, which the choice stands
\* for.
Taken(reached) == {T \in SUBSET reached :
                     /\ Cardinality(T) + Cardinality(queue) <= QueueLimit
                     /\ T = reached \/ Cardinality(T) + Cardinality(queue) = QueueLimit}

\* Those of them whose task is in the queue while its row is not: enqueue()
\* throws, after the queue has changed, and tick() takes it for refused.
Unsaved(T) == {U \in SUBSET T : Cardinality(U) + breakdowns <= MaxBreakdowns}

Fired(T, U) == {[id |-> i, at |-> now, saved |-> i \notin U] : i \in T}

Stamped(T) == [i \in ScheduleIds |-> IF i \in T THEN now ELSE ran[i]]

\* An entry after a tick: enqueued or not, its next run is worked out again.
Ticked(i, taken) ==
  LET s == schedules[i]
  IN IF ~Due(i) THEN s
     ELSE Entry(s.cron, s.status, nextRun(s.cron, now),
                IF taken THEN s.runs + 1 ELSE s.runs,
                IF taken THEN s.failures ELSE s.failures + 1)

\* tick(): every schedule that is due, each to the queue, which may be full.
SchedulerTick ==
  /\ up
  /\ \E i \in Held : Due(i)
  /\ \A i \in Held : ~Last(i)
  /\ \E T \in Taken({i \in Held : Due(i)}) : \E U \in Unsaved(T) :
       /\ queue' = queue \union Fired(T, U)
       /\ schedules' = [i \in Held |-> Ticked(i, i \in T \ U)]
       /\ ran' = Stamped(T)
       /\ breakdowns' = breakdowns + Cardinality(U)
  /\ since' = [i \in Held |-> IF Due(i) THEN now ELSE since[i]]
  /\ UNCHANGED <<up, rows, now, requests, settled>>

\* The process stops: what it held in memory is gone, and with it tasks that
\* were in no row, unless one was written since.
Stop(pending) ==
  /\ up' = FALSE
  /\ schedules' = << >> /\ since' = << >>
  /\ \E lost \in SUBSET {task \in pending : ~task.saved} : queue' = pending \ lost

\* tick() reaches a schedule, its task is queued or not, and nextRun throws:
\* through the loop and the timer, and the process stops.
TickThrows ==
  /\ up
  /\ \E i \in Held : \E others \in SUBSET {k \in Held \ {i} : Due(k) /\ ~Last(k)} :
       /\ Last(i)
       /\ \E T \in Taken(others \union {i}) : \E U \in Unsaved(T) :
            /\ Stop(queue \union Fired(T, U))
            /\ ran' = Stamped(T)
            /\ breakdowns' = breakdowns + Cardinality(U)
  /\ UNCHANGED <<rows, now, requests, settled>>

\* A task is completed, or dead: recordOutcome(), if its schedule still is.
Outcome(task, ok) ==
  /\ up
  /\ queue' = queue \ {task}
  /\ schedules' = IF task.id \notin Held \/ ok THEN schedules
                  ELSE [schedules EXCEPT ![task.id].failures = @ + 1]
  /\ UNCHANGED <<up, rows, now, requests, breakdowns, history>>

-----------------------------------------------------------------------------
(* Restarts.                                                               *)

Crash ==
  /\ up /\ breakdowns < MaxBreakdowns /\ breakdowns' = breakdowns + 1
  /\ Stop(queue)
  /\ UNCHANGED <<rows, now, requests, ran, settled>>

\* The rows that can be scheduled anew.
Restored == {i \in DOMAIN rows : nextRun(rows[i].cron, now) # Never}

\* Mutant of hydrate: a schedule that was paused runs again.
hydrateActive ==
  /\ ~up /\ up' = TRUE
  /\ schedules' = [i \in Restored |->
                     Entry(rows[i].cron, "active", nextRun(rows[i].cron, now), 0, 0)]
  /\ since' = [i \in Restored |-> now]
  /\ settled' = ScheduleIds \ (DOMAIN rows \ Restored)
  /\ UNCHANGED <<rows, queue, now, requests, breakdowns, ran>>

\* hydrate(): each row is scheduled anew, and paused again if it was, or
\* passed over; its counters and the runs that were due meanwhile are not
\* looked at.  The tasks it restores are EdgeRun's.
hydrate ==
  /\ ~up /\ up' = TRUE
  /\ schedules' = [i \in Restored |->
                     Entry(rows[i].cron, rows[i].status, nextRun(rows[i].cron, now), 0, 0)]
  /\ since' = [i \in Restored |-> now]
  /\ settled' = ScheduleIds \ (DOMAIN rows \ Restored)
  /\ UNCHANGED <<rows, queue, now, requests, breakdowns, ran>>

Pass == /\ now < MaxTime /\ now' = now + 1
        /\ UNCHANGED <<up, schedules, rows, queue, requests, breakdowns, history>>

SchedulerNext ==
  \/ \E i \in ScheduleIds, x \in Expressions : Schedule(i, x)
  \/ \E i \in Held : Pause(i) \/ Resume(i) \/ Remove(i)
  \/ \E task \in queue, ok \in BOOLEAN : Outcome(task, ok)
  \/ SchedulerTick \/ TickThrows \/ Crash \/ hydrate \/ Pass

SchedulerSpec == SchedulerInit /\ [][SchedulerNext]_schedulerVars

-----------------------------------------------------------------------------
(* Properties.                                                             *)

\* A schedule's next run is the first minute that matches its expression since
\* it was worked out, by the calendar and minute by minute, and one it has not
\* run for yet: over requests, late ticks, a full queue and restarts, no minute
\* is run for twice, and none is stepped over that nobody saw pass (nextRun,
\* tick, resume, hydrate).
OnSchedule ==
  \A i \in Held :
    LET s == schedules[i]
        f == parseCron(s.cron)
    IN /\ matches(f, s.next)
       /\ \A t \in (since[i] + 1)..(s.next - 1) : ~matches(f, t)
       /\ ran[i] < s.next

\* What was answered is what runs, and what will run after a restart: the
\* memory and the table hold the same schedules, with the same expression and
\* the same status, but for those whose last request met a failing storage
\* or an expression that had stopped to fire, and those a restart passed over
\* (POST /schedule, pause, resume, DELETE, hydrate).
AnsweredIsKept ==
  up => \A i \in settled :
          /\ i \in Held <=> i \in DOMAIN rows
          /\ i \in Held => rows[i] = Kept(schedules[i])

================================================================================
