# Verification of ABSuite-core

TLA+ specifications of the stateful core of ABSuite, the TLC configurations
that check them on small instances, and TLAPS proofs of what matters most for
every instance. `PROJECT.json` maps every definition to the lines it models and
lists the runs, the mutants that show each property can fail, the findings, the
hazards and the theorems.

To check: `tlc -config <X>.cfg <Module>` for a run, `tlapm <Module>.tla` for
the proofs (`LedgerProofs`, `EdgeRunProofs`, `WatchProofs`, `WitnessProofs`,
`RevocationProofs`, `IdentityProofs`, `CommerceProofs`, `TrustProofs`).

## 1. The system

ABSuite is a TypeScript monorepo (`packages/*`). Its services are separate Node
processes that open one SQLite file in WAL mode; a deployment runs one replica of
each (`k8s/`, `replicas: 1`, `Recreate`). A JavaScript callback runs to its end
without interruption; so within one process only an `await`, an exception or
the death of the process can come between two statements, while any other
process may commit between two statements of this one unless they stand in one
`BEGIN IMMEDIATE` transaction. That is the granularity of every model here.

| component | state it keeps | operations | talks to |
|---|---|---|---|
| execution ledger (`capkit/trace.ts`) | tables `executions`, `retention_anchors`, `chain_checkpoints` | record, verifyChain, checkpoint, pruneToRetention | written by capkit, edge-run and mcp; read by all |
| task runner (`edge-run/queue.ts`, `persistence.ts`, `server.ts`) | a Map of tasks, `running`; table `queue_tasks` | enqueue, tick, run, prune, hydrate, shutdown | asks the breaker; records outcomes in the ledger |
| circuit breaker (`edge-run/self-healing.ts`) | one record per target, memory only | canProceed, succeed, fail | called by the queue |
| scheduler and cron (`edge-run/scheduler.ts`, `cron.ts`) | schedules in memory; table `schedules` | schedule, pause, resume, remove, tick, hydrate, nextRun | enqueues tasks, hears of their outcome |
| approvals (`capkit/approval.ts`) | table `approvals` | request, decide, withdraw, consume, attest | routes of capkit; the watch |
| watch (`capkit/watch.ts`) | tables `notices`, `watch_state` | sweep, acknowledge | reads ledger and approvals |
| witnessing (`capkit/witness.ts`, `server.ts`, `billing.ts`) | table `notary_receipts`, an hourly timer | sweepWitness, witnessDue | posts to the notary |
| notary (`notary/notary.ts`) | its key; receipts, memory only | witness, auditAgainstReceipts | called over HTTP |
| revocation and middleware (`capkit/revocation-store.ts`, `middleware.ts`, `capability.ts`, `jwt.ts`) | memory, file or table of revoked ids; an index of the file in each service | issue, revoke, isRevoked, prune, the guard of a route | every service, through the table or the file |
| audit log (`capkit/audit.ts`) | a ring of entries and a file | record, verifyChain, load | every route of capkit |
| tenancy, billing, webhooks (`capkit/tenancy.ts`, `billing.ts`, `paypal-*`, `paystack.ts`) | tables `tenants`, `usage` | create, consume, bindExternalRef, setPlan, setStatus | payment providers; the middleware of every metered route |
| identity (`capkit/identity.ts`) and the ring of keys (`keyring.ts`) | tables `identities`, `identity_challenges`, `identity_tokens` | enrol, rotate, suspend, reinstate, challenge, prove, bindToken, attest | routes that issue tokens; conditions |
| conditions (`capkit/conditions.ts`) | none | trustConditions | reads ledger, identity and approvals |
| provenance (`capkit/provenance.ts`) | none | lineage, blastRadius, summary | reads the ledger |
| rate limiter, signup throttle (`capkit/rate-limit.ts`, `signup.ts`) | buckets, windows | allow | routes of capkit |
| trust (`trust/*.ts`) | tables `trust_events`, `trust_appeals`, `trust_disputes`, `trust_contracts`, `trust_breaches` | record, appeal, decideAppeal, score, open, arbitrate, decide, recordBreach, remediate, health | its own server; the score weighs disputes |
| the rest | none, or display only | formatting, outbound calls, benchmarks, scaffolding, command line, dashboard | |

What is hard in it, and what a correct implementation owes:

* **Ledger.** Several processes append to one hash chain; a retention sweep is
  four statements between which others append, and can die after any of them.
  Owed: one chain, never forked, no gap, only expired records leave and only
  from the old end, and a verification that neither misses nor invents damage.
* **Task runner.** The map in memory and the table drift apart in crashes; a row
  is rewritten while being restored; a task, its retries, the breaker's probe
  and the queue's limit interact. Owed: what was accepted is done or given up,
  never lost, never done again once done, and a target that recovers is not begun
  against more often than the breaker's threshold.
* **Approvals and the watch.** A request lapses without anyone writing it; a
  sweep reads in batches while others record, and fails half way. Owed:
  decisions stand, nobody approves his own request, and the high water mark
  never passes over something that deserves a notice.
* **Witnessing.** Decision, walk, head, post, signature, answer and row are
  separate; requests and answers are lost; the process restarts. Owed: a bounded
  unwitnessed stretch of history, a notary that is not asked at every boot, an
  audit that catches every rewrite and passes an honest chain.
* **Revocation.** Each service remembers what it read of a file that another
  writes; the guard awaits its answer; entries are pruned when their tokens should
  have expired. Owed: a token whose revocation was answered is admitted nowhere
  while that revocation is in force, and the services agree.
* **Scheduler.** Ticks come late, the queue is full, memory is written before the
  table, and a restart reads the table; the next run is searched over a calendar
  with short months and leap days. Owed: no minute is run for twice or silently
  stepped over, and what was answered is what a restart will run.
* **Identity and conditions.** A challenge may be presented twice, late, for
  another subject or after a rotation; the process may stop between a proof and
  its token; a record may name any token. Owed: a proven token rests on a proof
  of its own, and no report claims more than was shown.
* **Commerce.** Providers deliver late, twice, in any order or not at all;
  binding and plan are two statements; a request goes by a tenant row that was
  read before its guard awaited. Owed: quota and rate hold whatever waits and
  changes, a tenant has the plan that its own customer pays for as of the newest
  event that reached it, and bindings are for good.
* **Trust.** Disputes are arbitrated again as the scores they depend on change;
  appeals of appeals; a breach and its event are two inserts. Owed: no family of
  models settles a matter alone, the score and the appeals agree, and a breach
  is charged to the side that broke the contract.

## 2. The modules

| module | what it models | state and code |
|---|---|---|
| `AppendOnlyLog` | what the ledger promises, without how | `accepted`, `view` |
| `Ledger` | class `TraceStore` over its three tables | `executions`, `anchors`, `checkpoints` are the tables; `sweep`, `walk` are the locals of the operation under way and `pc` its place; `recorded` counts every record ever accepted |
| `SelfHealing` | the breaker's record and its methods, as operators | `CanProceed` is the answer of `canProceed()`, `Asked` its effect, `Succeeded` and `Failed` the others |
| `EdgeRun` | queue, persistence, wiring, hydration and shutdown; uses `SelfHealing` | `tasks` (the Map: id to task, with its place in the order of insertion), `running`, `breaker` are memory and vanish in `Exit`; `db` is the table `queue_tasks`; `ledger` counts the execution records; `idOf`, `accepted`, `done`, `starts`, and `probes`, what was begun since a breaker half-opened, are history |
| `Approvals` | class `ApprovalRegistry`, one action per method | `requests` is the table `approvals`; `State` is the lapse computed by `rowToApproval` on each read |
| `Watch` | class `Watch` with the approvals it consults and the executions it reads; extends `Approvals` | `notices`, `highWater` are its tables; `sweep` the locals of `sweep()` |
| `Notary` | the notary, and the chain it is shown | `chain` as a sequence of editions, `evidence` every receipt issued |
| `Witness` | `sweepWitness()` between ledger and notary; extends `Notary` | `pc`, `counted`, `asked`, `askedAt` are the sweep; `stored` the times of the rows of `notary_receipts`; `now`, `nextSweep` clock and timer |
| `Revocation` | the file and SQLite stores, capkit's routes that issue and revoke, the guard of every service | `table`, `file` are the shared stores, `index`, `lastSize` what a service remembers of the file; `guard` is the request a guard is busy with; `acked`, `ends` (the earliest second a token was revoked until) and `overlooked` (the tokens of lines a replica took for read) are history |
| `Conditions` | `trustConditions()`: the five conditions of a record and the weakest of them, as operators | `Evidence` is what was found out about a record apart from its subject |
| `Identity` | the registry of identities, the routes that enrol, challenge and issue, and `attest()`; extends `Conditions` | `identities`, `challenges`, `bound` are its tables; `pending` the request between its proof and its token; `proofs` what each token was asked for with (not stored) |
| `Billing` | the events of PayPal, Stripe and Paystack, and what `planFrom...Event()` makes of each, as operators | |
| `Commerce` | tenants, meters, the limiter, webhooks and admin routes; extends `Billing` | `tenants`, `used` are the tables; `buckets` the limiter's; `waiting` the requests whose guard awaits; `sent` every event a provider may deliver; `held`, `origin`, `passed` and `heard`, the newest event answered to each customer, are history |
| `Cron` | `parseCron`, `matches` and `nextRun` over a calendar of any size that repeats itself, as operators | `Never` is nextRun's exception |
| `Scheduler` | class `AgentScheduler`, its routes, its table and `hydrate()`; extends `Cron` | `schedules` is memory, `rows` the table, `queue` the tasks that EdgeRun holds; `since`, `ran`, `settled` are history |
| `Arbitration` | `arbitrate()`: weights, discounts, tally and verdict, as operators | |
| `TrustRecord` | events, appeals, the score, contracts and breaches | `events`, `appeals`, `contracts`, `breaches` are its tables; an event's `reported`, that it came from a caller, is history |
| `Trust` | the trust service: disputes over that record; extends `Arbitration` and `TrustRecord` | `disputes` is the table `trust_disputes` |
| `Provenance` | the graph between records, `lineage()`, `blastRadius()` and the failures of `summary()` | `all` is the table `executions` as the graph reads it |
| `LedgerProofs`, `EdgeRunProofs` (with `Cron` and `Scheduler`), `WatchProofs`, `WitnessProofs`, `RevocationProofs`, `IdentityProofs`, `CommerceProofs`, `TrustProofs` | the theorems of section 6 | |
| `MCEdgeRun`, `MCWatch`, `MCWitness`, `MCRevocation`, `MCIdentity`, `MCCommerce`, `MCScheduler`, `MCTrust`, `MCProvenance` | values for TLC; `Ledger` needs none | |

How the modules meet. `Ledger` is the table that `Watch`, `Provenance` and
`Notary` read; each keeps of it what its own readers tell apart (a shape, hashes
and times, editions), since the ledger's own faults are checked where it is.
`Approvals` is composed with `Watch`; `Conditions` takes what `Approvals` and
`Identity` attest; `Scheduler` hands tasks to the queue that `EdgeRun` details;
every service's guard is the one of `Revocation`.

One action is one statement or one stretch of code that nothing can interrupt.
Reads that only the process itself could invalidate are joined with the step
that follows. What several statements in one transaction do is one action
(`Record` is the whole of `record()`: head, number, hash, insert). Faults are
actions of their own: `Abandon`, `SubmitUnsaved`, `RecordFails`,
`RestoreUnsaved`, `Exit`, `Shutdown(n)` (killed after saving n tasks),
`SweepFails`, `Skipped`, `Restart`, and in the later modules a crash or a storage
that throws in the middle of a request, counted by `faults` or `breakdowns`.

Abstractions that run through all modules:

* a hash is injective, a signature always verifies, ids are model values; the
  validity of input is decided before an action is taken;
* clocks are whole days (`Ledger`), ticks of an hour (`Witness`) or of a minute
  (`Commerce`, `Scheduler`), or bits that say whether a moment has passed
  (`cooled`, `due`, `overdue`);
* history variables (`recorded`, `accepted`, `done`, `starts`, `overtaken`,
  `probes`, `exact`, `prunedThen`, `acked`, and those marked "not stored") are not stored by
  the program and guard nothing in it. `idOf` and the bounds guard only what the environment does.

## 3. What each run checks

| run | module, distinct states | question | properties |
|---|---|---|---|
| `ledger` | `Ledger`, 400 thousand | does the chain survive concurrent writers, sweeps, crashes and checkpoints? | `TypeOK`, `ChainExplained`, `NoFalseAlarm`, `OnlyExpiredLeave`, `Healed`, and `LogSpec`: it implements `AppendOnlyLog` |
| `edge_run` | `MCEdgeRun`, 590 thousand | two workers, a queue of two, four events, each a job, a stop or a failed write: is accepted work kept, and kept within its bounds? | `TypeOK`, `AcceptedSurvives`, `RecordedOnce`, `RunsBounded`, `CapacityRespected`, `RecoveryIsProbed` |
| `edge_run_probe` | `MCEdgeRun` | is every probe of a breaker decided in the end? No | `ProbesReport` |
| `watch` | `MCWatch`, 1.3 million | two executions, two requests, a sweep in batches of one that may fail | `TypeOK`, `VouchedByAnother`, `SweptIsNoticed`, `DecisionsStand` |
| `witness` | `MCWitness`, 6 million | three records, a rewrite, retention, a failed witnessing, a restart | `TypeOK`, `RewriteIsCaught`, `HonestPasses`, `WindowBounded`, `WitnessingsSpaced` |
| `revocation` | `MCRevocation`, 1.1 million | two replicas of capkit, two tokens, three revocations, a restart, over a table or a file | `TypeOK`, `RevokedStaysRefused`, `ServicesAgree` |
| `identity` | `MCIdentity`, 51 thousand | proofs in every order with rotations, suspensions, expiry and a stop before the token | `TypeOK`, `ProofsAreOwn`, `ReportsAreEarned`, `AttestationsStand` |
| `identity_named` | `MCIdentity` | is a record attributed to the subject it names on that subject's proof? No | `AttestedOnOwnProof` |
| `commerce` | `MCCommerce`, 1.4 million | two tenants, two customers, three providers; and two requests against a quota and a rate that change | `TypeOK`, `QuotaHolds`, `RateHolds`, `PlanOfItsCustomer`, `BindingsHold` |
| `scheduler` | `MCScheduler`, 290 thousand | two schedules on a small calendar with a leap year, late ticks, a full queue, a failing storage, a stop, a next run that is not found | `OnSchedule`, `AnsweredIsKept` |
| `trust` | `MCTrust`, 2.0 million | a dispute arbitrated again and again while events, appeals and a breach change the scores | `TypeOK`, `NoFamilySettlesAlone`, `AppealsSettled`, `BreachesCharged` |
| `blast_radius` | `MCProvenance` | is what a failure reached a number of records? No | `FailuresCountRecords` |

The three runs that end in a violation state what a comment or an answer of the
code says, and TLC's trace shows the code doing something else:

* `edge_run_probe`: the mark of a probe is "set while a half-open probe is in
  flight" (`self-healing.ts:26`), and every execution ends, so the mark should
  be cleared in the end. But `nextRunnable()` (`queue.ts:152`) asks the breaker
  of every candidate before it picks one, and the asking sets the mark: where a
  task of higher priority for another target is picked, no probe is begun, and
  the breaker refuses that target until the process restarts. Accepted work for
  it then waits for ever.
* `identity_named`: `POST /executions` takes subject and token id from its
  caller, and `attest()` (`identity.ts:354`) asks whether the token was proven
  but not whose it was. A record of one subject that names another's proven
  token is `DEMONSTRATED`, with the words that the subject signed a challenge.
* `blast_radius`: the next frontier of the walk (`provenance.ts:215`) is
  filtered by what was seen before it and not by itself, so a record that
  consumed what two records of one frontier produced is counted twice, though
  the answer is a count of recorded actions.

Every property of the other runs has a mutant: a plausible bug, written beside
the definition it replaces ("Mutant of ..."), with which the same run finds the
property violated.

What the properties say, in the words of the code:

* `ChainExplained`: whatever is left of the chain can be explained from the
  tables: a gapless block, linked, with an anchor below the oldest record.
* `NoFalseAlarm`: verification with the key reports damage only in the time
  between an anchor and its delete, or after a sweep died there. The comment of
  `trace.ts:1301` calls such an anchor harmless; this is the exception.
* `Healed`: that state ends, once what the anchor names has expired.
* `AcceptedSurvives`: a job answered with 201 is done or has a pending row that
  a restart will take up, at every moment.
* `Fresh` in the task runner's properties: a job whose id no other job was
  given. A reused id keeps the old job in the row (`persistence.ts:95` does not
  update it). The model takes that step, and the properties say nothing of such
  a job: for it they do not hold (section 9).
* `CapacityRespected` relates `running` to the tasks that run, and what waits to
  the limit. Its clause that no more run than there are workers cannot fail in
  this run, where the limit is the number of workers; the theorem has it for every limit.
* `RecoveryIsProbed` says how many executions a half-open breaker has let begin:
  no more than came back well, and one. It does not say that there is only one
  at a time, since a late outcome lets a second begin (section 9).
* `DecisionsStand` says which way a request may go and that it never comes back.
  It allows a grant to lapse, which the registry's comments promise, and to
  stay, which is what the code does (section 9).
* `SweptIsNoticed`: for what the record shows by itself, or for an execution
  that needed an approval nobody ever asked for. An approval that was pending
  when its execution was examined and refused later is not promised a notice:
  the sweep passes once.
* `HonestPasses` has two conditions: that no record arrived between the walk
  that counts and the statement that reads the head, and that no retention
  sweep came since. Without either it fails (section 9).
* `RevokedStaysRefused` is about requests whose guard asked after the 200 was
  sent; one that asked before may still pass. It speaks of the time in which
  every revocation of the token is in force, which for a revocation by id is 30
  days, however long the token lives. `ServicesAgree` is about the same tokens
  and those never revoked. Both leave out, at a replica of capkit that writes to
  a file, the tokens of the lines it took for read (`overlooked`, section 9),
  until it reads the file again: no more than those and nowhere else, as
  `RevocationOverlooks` proves.
* `WindowBounded`: interval, plus one sweep, plus an hour for every failure,
  plus the wait for an answer.
* `ReportsAreEarned` relates the strongest report to everything it rests on at
  once: the token's own proof, the subject's standing, content, chain, rule and
  approval. A record may name any token that was issued. The report then rests
  on the proof of that token's subject and the standing of the subject named;
  that the two are one is `AttestedOnOwnProof`, which the code does not ensure
  (`identity_named`).
* `QuotaHolds` is about the largest of the plans held in the month: a request
  goes by the plan it read before its guard awaited, so the present plan alone
  bounds nothing.
* `PlanOfItsCustomer` has two halves. No event sets the plan of a tenant that is
  not its customer's. And a tenant that an event has reached has the plan that is
  paid for as of the newest event that did, with four exceptions, each of
  which the code makes: an older event applied after it (`late`), which nothing
  tells from a new one, so that a redelivered activation reopens a cancelled
  plan; a plan the administrator set; a second tenant of the customer; and an event
  that found no tenant bound yet. A crash between binding and plan is no
  exception: the event was not answered, and its redelivery sets the plan.
* `AppealsSettled` and `BreachesCharged` are about the events that the service
  writes itself. `POST /events` takes any kind and any evidence from its caller,
  also `appeal_upheld` and the number of a breach, on any subject: the model
  has those events too (`reported`), and the two properties do not speak of them.
  `BreachesCharged` bounds by the crashes what is missing, which the code does lose.
* `OnSchedule` compares `nextRun`, which skips months, days and hours, with a
  search minute by minute, for every state a schedule can get into.
* `AnsweredIsKept` excepts the ids whose last request was answered with an
  error: then memory and table may differ until a restart. It also excepts a row
  that a restart passed over, since its expression has no run within four years:
  the row stays and nothing runs (section 9).
* `NoFamilySettlesAlone` is about what the machine settles; a person may decide
  anything. A panel of one is settled by its one voice.

## 4. Bounds

* `ledger`: three records, three days, two policies (expire at once, after a
  day), one failed operation. Three records are the fewest with a head that
  stays, a boundary and a record below it; two policies make two sweeps
  disagree; one failure leaves an anchor over records still there, which a
  later sweep meets. `AppendOnlyLog` is checked over the same states.
* `edge_run`: four events (`MaxEvents`), each a job, a stop or a failed write:
  three jobs exceed the limit of two and may meet one fault, two jobs two faults,
  among them a crash during the hydration that follows a crash, and one job goes
  through three. Any id may be given again. Threshold 1 opens a breaker at the
  first failure, two successes are needed to close it, so a half-open breaker with
  one success is reached, and with the third job a probe beside a probe.
  `edge_run_probe` has two targets, one worker, and two jobs of different priority
  or one and a fault: the fewest that show it.
* `watch`: two executions of two shapes, two requests, two people, batches of
  one, a list of one: the second lapsed approval is outside it. The
  flags `EphemeralKey` and `ChainBroken` add one fixed notice each and are off.
* `witness`: five hours of two ticks, an interval of two hours, answers that
  take up to one tick. The intervals include a plan with none and one that is
  longer, so that the shortest is chosen. One rewrite drops or alters any suffix.
* `revocation`: a lifetime equal to `Hold`, 30 days in the code, and a longer
  one, since the code sets no limit; time enough for a token to expire while an
  answer is awaited and for its entry to be pruned. With three revocations one token
  is revoked by id and then by token, or the reverse, and the other once. Both
  services write, over the table and over the file, and a service that never
  writes is among the behaviours of either. One fault: a restart, a revocation
  left unanswered, or a table that cannot be read.
* `identity`: two subjects, and two keys which both may hold, two challenges and
  two tokens, a lifetime of one for challenges and a clock of two, three changes:
  enough to enrol both, and to rotate or suspend between challenge and proof.
  A record may name any subject with any token that was issued, or none.
  Each state assesses every record it can name on the evidence `Assessed`.
  `identity_named` has two changes, the two enrolments.
* `commerce`: plans of one request and one a minute, and of two and two. The
  requests are modelled where no provider is configured and the administrator
  changes plans, the events where one is: the two meet in nothing but the plan
  and status of a tenant's row, which the administrator sets to every value.
  Two requests of one tenant at a time are the fewest that can wait together; a
  minute of two ticks refills a bucket by halves. Two changes of a subscription
  and their events, each delivered any number of times, give every order of two.
* `scheduler`: hours of two minutes, days of two hours, weeks of three days,
  years of two months of one to three days, and a calendar of five years that
  repeats itself: carries of every field happen within a few ticks. The
  expressions are a step, a date or a day of the week, a leap day that the search
  finds after four years, and a date that comes once in five, so that after its
  run the search finds nothing: then `Resume`, `TickThrows` and `hydrate` meet
  the exception. The queue holds one, so that a tick of two schedules finds it full.
* `trust`: panels of two families with an echo, of three families, and of one
  family alone; three events, of which two may be appealed or one charged, by
  the service or by callers who name what they like; five rows in all the
  tables together (`MaxRows`), so that an event, an appeal and its repair leave
  room for two more; a dispute arbitrated with the score of every state. The margin, the families
  and the influence are the code's; the confidence is saturated by two events
  instead of 25, so that three events reach both sides of it.
* `blast_radius`: four records are the fewest with two in one frontier and a
  third that consumed from both.
* Symmetry is used only in runs of safety properties, over what is
  interchangeable: ids and jobs (`edge_run`), traces and people (`watch`), tokens
  (`revocation`), keys, challenges and tokens (`identity`), requests that wait
  (`commerce`), ids (`scheduler`).
* `CHECK_DEADLOCK FALSE` except in `commerce` and `trust`: the bounds on records,
  requests, stops and time make the models end; the program goes on.

## 5. Fairness

* `Ledger!Fairness`: an operation under way ends (straight-line code; weak
  fairness), and the hourly sweep gets its turn (strong fairness, because other
  capkit operations may occupy the process whenever the timer is due, and the
  event loop runs due timers between two callbacks). Faults and records are not fair.
* `EdgeRun!Fairness`: the tick timer gets its turn, the tick's loop and the
  recording of an outcome run on, every execution ends (an HTTP call is aborted
  and a script killed at its timeout), delays and cooldowns elapse, and a
  process that has exited is started again. Crashes and submissions are not fair.
  The 200 ms timer competes with other callbacks, hence strong fairness.
  `edge_run_probe` is refuted under it.
* The other modules have safety properties only. That a sweep is retried is
  stated in `Watch` as what a stopped sweep leaves behind (the mark has not moved),
  and `Witness` has a clock, so that "in the end" is a bound on time instead.
  `Commerce`, `Identity`, `Trust` and `Scheduler` do what they are asked within
  one request or tick; nothing justifies that a request, an event or a redelivery comes.

## 6. Proofs

All for every value of the constants, under the named assumptions in the
modules. They say that bounds are naturals; that retention periods are naturals
(`PoliciesAssumption`); that an hour is at least one tick, an answer takes less
than an hour and intervals are integers (`TimeAssumption`,
`IntervalsAssumption`); that units of time have a length and every month begins
later than the one before it (`CalendarAssumption`); that limits of the queue, attempts
and the breaker's thresholds are at least one (`SizesAssumption`,
`ThresholdsAssumption`); that a batch is at least one record and there are
finitely many executions to make (`BatchAssumption`, `TracesAssumption`); that
names of different kinds differ (`NoneAssumption`, `JobsAssumption`, `NamesAssumption`,
`SidesAssumption`, `SubjectsAssumption`); that limits and rates are integers, no
rate is zero and there is a free plan (`PlansAssumption`); that a deployment has
one kind of store and its replicas are services, and lifetimes are at least a second
(`StoresAssumption`, `SpansAssumption`); that panels are sequences with a
voice, the margin is at least half, reports are what `verification.ts`
produces or one event of any kind, listed or not, and levels are percentages
(`PanelsAssumption`, `ArbitrationAssumption`, `ReportsAssumption`,
`ScoreAssumption`). Only `TrustNoFamilySettlesAlone` has a hypothesis of its own.
TLC evaluates them in the runs of these modules. No finiteness of `Policies`,
`Intervals`, `Tenants`, `Customers`, `Nonces` or `Panels` is assumed.

**Ledger** (`LedgerProofs`). `LedgerInvariant`: `Spec => []IInv`, and from it
`LedgerTypeOK`, `LedgerChainExplained`, `LedgerNoFalseAlarm`,
`LedgerOnlyExpiredLeave` and `LedgerKeepsTheLog`.
`ChainExplained` is not inductive: it does not say that a sweep in progress
remembers a boundary below the head, nor that an anchor only ever names a
record with its own hash. `IInv` says that the records held are `m..recorded`,
that record s is the s-th accepted and links to s - 1, that m - 1 has an anchor
unless m is 1, and what a sweep at each `pc` remembers. The lemmas find the head
(`HeadIsLast`), put the cut below it (`CutBelowHead`), and reduce a walk to that
interval; each action then keeps each part. `NoFalseAlarm` needs that a
checkpoint that is honoured names a record that is really there, though it may
have been signed for another. `OnlyExpiredLeave` is about the step that deletes, which
does not look at times any more: `Expired` carries what the choice of the
boundary saw to the delete, two statements later, since others record only above
it. `LedgerKeepsTheLog` is the refinement: a record is `Accept`, a delete
that takes something is `Trim`, and every other step leaves `accepted` and `view` alone.

**Task runner** (`EdgeRunProofs`). `AcceptedSurvives` is about a job; what
carries it is about rows. `RowsInv` says that a pending row is a task pending in
memory or one that `hydrate()` has yet to restore, and that nothing is loaded
which is not such a row, so that table and memory never differ by work; and it is why
what a restart finds fits in the queue (`EdgeRunCapacity`), the count of one set
being bounded by the count of the other. `NamesInv` ties a task and its row to
the id its job was submitted under, `DoneInv` says that what is done is pending
nowhere, and `LedgerInv` that a record is written of what is done and has none:
from them `EdgeRunSurvival` and `EdgeRunRecordedOnce`. `RunsBounded` is not
inductive since `hydrate()` sets the stored attempts back. `RunsInv` counts
lives: what a job was begun before this life is bounded by the lives that are over,
and in this one by the attempts of its task, whatever its row says.
`EdgeRunRecovery` is carried by `ProbesInv`: what was begun against a half-open
breaker is covered by what came back well and by the mark of a probe, so that an
outcome which clears the mark without having been the probe's either counts for
one that may begin, or opens the breaker again (`ProbesKept`). They hold for any number of jobs, ids, targets,
stops and failing writes, and for reused ids.

**Cron and scheduler** (also `EdgeRunProofs`). `NextRunIsFirst` says what the
recursive search computes: the first minute that matches, up to the limit, and
`Never` where there is none. The recursion is taken by both its ends: the
function "first match from t on" satisfies it (`FirstIsSearch`), because what
a turn skips is of the same month, day or hour, and no other does
(`SearchIsFirst`), because the last minute on which another differs would go on to a
later one. That needs the calendar: every month begins later than the one before,
also where the calendar begins again (`MonthStartStep`), so each minute is in
one month (`MonthAtIs`, `MonthAtUnique`). `SchedulerInv` adds to the two
properties that next runs were worked out before now and that nothing has run
later: so what is worked out anew is never a minute already run for, and a
`Resume` that throws leaves a next run that is still the first since `since`.

**Watch and approvals** (`WatchProofs`). `WatchSweptIsNoticed` is not
inductive: between two notices the mark has not moved and some records are
read. `SweepInv` says what a sweep knows: the rows it took leave no gap above
the mark, and what is done of them is noticed. `DecidedInv` says that a grant
names somebody other than its requester, and `BlankInv` that nobody is named
before there is something to name; `WatchVouchedByAnother` follows from the
first, and `WatchDecisionsStand` is an action property from all three. The
theorems hold for any batch, any number of failures, and any shapes of records.

**Witness** (`WitnessProofs`). `WitnessInvariant`: `Spec => []IInv`, where
`IInv` is `TypeOK` with three parts.
`ChainInv` gives the shape of the chain: no edition is later than the current
one, and the newest record is never pruned. `ReceiptInv` says that a receipt
names no later edition, and an overtaken receipt names an edition that is not
found at its place any more: since editions only grow, no later record can be
it. `WitnessRewriteIsCaught` follows. `TimeInv` says how far ahead of the last
row the timer may be set, in each place the sweep can be; without it
`WindowBounded` is not inductive, as the clock alone would break it. From it
come `WitnessWindowBounded` and `WitnessWitnessingsSpaced`.
`WitnessHonestPasses` is about receipts that are stored, and its invariant
(`HonestInv`) also about the one that is asked for: its head is still where it
was, the place it claims is the head's among the records held when it was sent, and
what was pruned since is below it. The audit counts the records it finds up to
the head, which is that place if nothing was pruned. Of receipts whose length was
not their head's place, and after a retention sweep, the theorem says nothing,
and an honest chain then does fail (section 9). `WitnessTypeOK` also needs
`TimeInv`: that the timer is never behind the clock while an answer is awaited
holds because an answer takes less than an hour.

**Revocation** (`RevocationProofs`). All theorems hold for any lifetimes, any
`Hold` and any number of replicas that write. The conclusion is about guards;
what carries it is about entries: `RowInv` and `LineInv` (no entry ends before the
earliest end its token was revoked until, and what was answered is there), and
`IndexInv` (an index lists every token among the lines its size counts, but those
whose revocations may have ended and those it overlooked). `AnswerIs` draws
from them the one answer that any service gives about a token it has not
overlooked, and `RevocationStays` and `RevocationAgreed` follow.
`RevocationOverlooks` bounds what these leave out: a service overlooks a line
only if it writes to a file to which another replica writes too, since a service
that only reads, reads all, and one that writes alone has written all (`OverlookInv`).

**Identity** (`IdentityProofs`). `IdentityProofsAreOwn` is about tokens; what
carries it is about the request between its proof and its token (`PendingInv`:
its proof is its own and shared with no token) and about nonces (`UsedInv`: a
nonce that was used is drawn, no challenge any more, and another token's never).
`IdentityReportsAreEarned` and `IdentityAttestationsStand` are about records that
name any subject with any token; they say what such a record does rest on, which
is not the named subject's own proof (`identity_named`).

**Commerce** (`CommerceProofs`). `QuotaHolds` needs that whoever waits carries
the row of a plan held in this period (`WaitInv`, `HeldInv`), which is why the
turn of the month, with requests still waiting, keeps it. `RateHolds` needs
`TokensInv`, which counts what is left in a bucket with what it let pass.
`PlanOfItsCustomer` needs to know of every event a provider sent that what it makes of
a plan is what was paid for then (`SentInv`), and that a customer whom an event
has reached still has a tenant (`HeardInv`), since bindings are for good: so that no
later event can be answered without being applied. `CommerceBindingsHold` is an action property. They hold for any
plans, clocks and numbers of waiting requests.

**Trust** (`TrustProofs`). What `AppealsSettled` and `BreachesCharged` count are
events that the service wrote, by what they refer to. `IInv` says that a reference names a row that is
there (`KnownInv`), so that a new row is mentioned by none, and that each
upheld appeal is mentioned by one event and a breach by at most one
(`MentionedInv`); the crashes bound the breaches that no event holds
(`FaultsInv`). `TrustNoFamilySettlesAlone` has the hypothesis
`MinIndependent >= 2`, the code's value, and holds whatever weights, margin and scores are.
`TrustTypeOK` says that a verdict names an answer of the panel: there is a
leader, since the sums of weights are numbers and the answers finitely many, and a tie
goes to the first. It rests on sums over sets, which the community modules fold recursively: that a sum is
what it should be for every finite set is proved from the smallest set for which
it would not be (`SumExists`, `SumIs`).

That a set of naturals has a least element, and a bounded one a greatest, which
`Min` and `Max` then find, the library leaves out; the modules that need it prove
it where they use it. It is also how what others prove by induction is proved here:
the library's induction theorems take an operator, which the provers cannot
instantiate.

## 7. What is only model-checked

* Liveness (`Healed`) and with it everything about fairness, which the prover
  does not reach. That accepted work is finished in the end is not among it: with
  two targets it is false, as `edge_run_probe` shows.
* Deadlock, and that every action can happen.
* `Provenance`, and the three violations, which are counterexamples.

Every invariant, action property and refinement that the passing runs check is
also a theorem.

## 8. Not modelled

Left out because there is no state or order to check in them: cryptography,
encodings, HTTP, address checks (`outbound-guard`), formatting and display
(`explain`, `audit-export`, `metrics`, `dashboard-ui`, `cli`,
`connector-starter`), clients of external services (`llm-provider`), floating
point (`quickbench`), the second implementation in Python, the site and the
deployment scripts. Together they are the larger part of the repository's lines,
the dashboard alone more than all that is modelled. `ChainAlerter` and the
breaker's `reset()` have no caller.

The audit log of capkit is a list of one process beside the ledger, written as
best it can; the one thing hard in it, its bound, needs no interleaving and is
in section 9. Trust monitoring appends what it is told and summarises it on
request; nothing acts on the summaries.

Of the parts that are modelled, these are left out: the actor of a task
(`taskActors`), log streams and read-only routes of edge-run; enrolment and
signatures of approvals; the counters on a notice and `coverage()`; the
notary's own memory of receipts and `UNVERIFIABLE` ones; the store of
revocations in memory, scopes and audiences; API keys of tenants, their
deletion, and the throttle of `/signup`, which is a counter of its own; the ring
of signing keys, built once from the environment; `determineTrace()`, which
puts a verdict into words; names in cron expressions and the changes of a local
clock; the half-life of an event and the gating of a subject by its score; how
`verification.ts` splits and compares texts; the registry of approved models, a
table that is compared field by field; schema and migrations.

## 9. Observations

Seen while modelling, beyond what the runs establish. In the ledger, its
verification and its witnessing:

* The default walk of `GET /executions/stats` is without the key
  (`server.ts:1335`), and without the key no anchor is honoured
  (`trace.ts:1171`): after the first retention sweep, which leaves an anchor "so the
  surviving chain still verifies" (`:1200`), that walk reports it broken.
* `checkpoint()` reads the head after its walk and may vouch for a record it did
  not walk (`trace.ts:1104` against `:1093`).
* Length and head are read by two statements (`trace.ts:1478`), and retention
  moves places; so a witnessed head is not always found "at the same position,
  forever" (`notary/notary.ts:25`).
* The window of `rewriteWindowHours()` (`billing.ts:240`) leaves out what
  `WindowBounded` adds: one sweep, an hour for every failure, and the wait for
  an answer, since a row is stamped when the answer arrives (`server.ts:2192`).
* capkit stores the notary's envelope, receipt and means together, as the
  receipt (`server.ts:2193` against `notary/server.ts:88`).
* The audit log holds 5000 entries and its `verifyChain()` starts from the genesis
  value (`audit.ts:94`), so that it fails from the 5001st entry on.

In edge-run:

* `self-healing.ts:87` clears `probeInFlight` on any outcome, so a late one from
  before the breaker opened admits a second probe beside the first, contrary to
  "exactly one probe" (`:62`); `RecoveryIsProbed` bounds how many there can be.
* An id that is given again after its task left memory finds the old row
  (`persistence.ts:95`), and a restart runs the first job in its place.
* `nextRunnable()` asks the breaker of every queued task (`queue.ts:152`), and
  the asking takes the probe, though another task may then be begun: the flag is
  set with nothing in flight, contrary to `self-healing.ts:26`, and nothing clears
  it (`edge_run_probe`).
* `packages/edge-run/README.md:103` says queued tasks are held in memory and lost by a restart; they are stored and restored.
* `hydrate()` saves a restored task with attempts 0 and puts the count back in
  memory only (`edge-run/server.ts:360`), so a second crash before it is begun
  loses it; `RunsBounded` therefore counts the stops.
* `hydrate()` ignores the counts of runs and failures that are persisted, and
  a schedule whose run came due while the process was down waits for its next.
* `POST /schedule` answers 400 when the save fails, though the schedule is in
  memory and runs until a restart. `resume()` sets a schedule active before
  `nextRun()` may throw.
* "Four years covers any schedule that can fire at all, including Feb 29"
  (`cron.ts:163`) does not hold across 2100, which is no leap year. When such a
  schedule ran for the last time before, `nextRun()` throws in `tick()`
  (`scheduler.ts:116`), outside the `try`, and a timer's exception ends the process;
  after the restart `hydrate()` passes the row over with a line in the log
  (`server.ts:345`), and `DELETE` answers 404 for it.

In approvals, the watch and revocation:

* `attest()` answers whether an execution was "approved before it ran"
  (`approval.ts:587`) without comparing the two times (`:648`): a grant given
  afterwards counts.
* A spent approval hides a second one for the same action: `attest()` takes the
  first `CONSUMED` it finds and answers `FAILED` for the other execution
  (`approval.ts:619`).
* A grant never lapses: `rowToApproval()` lapses what is `PENDING` and nothing
  else (`approval.ts:729`), so that `consume()` accepts a grant long after its
  deadline. "Approvals expire", says `:50`, "left to expire" `:492` of a grant,
  and the branch at `:533` refuses an approval that "was granted for
  circumstances that are no longer current", which no grant can reach.
* A grant that nobody consumes vouches for every execution of its action
  (`approval.ts:636`), though `:52` says "One approval, one execution."
* A record is examined once (`watch.ts:319`): an approval that was pending then
  and is refused later never becomes a notice.
* `coverage().behind` is records held less the mark (`watch.ts:425`) and reads
  zero after retention though records are unread.
* Two replicas of capkit on one revocation file: each appends its own line and
  takes the new size for read (`revocation-store.ts:70`), so that a line which
  the other wrote in between is not read until the file grows again,
  contrary to "a revocation issued by one replica is visible to the others"
  (`:50-52`). One replica is what the deployment runs. The properties leave out
  exactly those tokens (`overlooked`).
* A guard answers from what the store said before its wait: a revocation that is
  answered meanwhile does not stop the request (`middleware.ts:126`).
* A revocation by id is held for 30 days, "the maximum plausible token lifetime"
  (`server.ts:566`), and `expiresIn` has no upper limit; a longer-lived token
  revoked by id alone is accepted again after 30 days.
* A line of the revocation file that was written in part makes the next one
  unreadable with it (`revocation-store.ts:69`), and `:119` skips it.

In identity and commerce:

* `POST /issue` (`server.ts:600`) neither asks an enrolled subject for a proof nor
  binds the token, unlike `POST /auth/token`; a record that names such a token
  is told "this record carries no token id" (`identity.ts:374`).
* After a rotation `attest()` still says that the challenge was signed "with the
  key on file", which is another by now.
* An event delivered again after the subscription ended, such as ACTIVATED
  after CANCELLED, restores the plan that was paid for, though the extra attempts
  are said to be "deliberate and safe" (`billing.ts:431`). No payment event lifts a
  suspension.
* A change of the subscription that arrives before the checkout has bound its
  tenant is answered and lost.
* A tenant that is suspended while a request of it waits is still served that
  request; the row was read before (`server.ts:342`).
* A change of plan replaces the bucket of a tenant by a full one
  (`rate-limit.ts:111`), so that changing back and forth lets more pass than
  either rate.
* `external_ref` is not unique in the table: an administrator may give one
  customer two tenants, and events then find the first.
* `prune()` of the limiter and of the sign-up throttle have no caller.

In trust:

* The kinds of events are "deliberately closed" (`events.ts:16`), but `POST
  /events` casts whatever string it gets (`server.ts:92`): a caller may report an
  `appeal_upheld` of weight 4 that no appeal earned, and a kind that nobody lists
  weighs nothing and still counts toward the confidence of the score.
* The evidence of an event is the caller's too, so it may name any breach or appeal
  and prove nothing; no decision of the service reads it.
* A crash between a breach and its event keeps the event off the record for good
  (`reciprocal.ts:302`).
* Agreement within a family "counts once" (`arbitration.ts:19`); the code counts
  every further voice at a fifth (`:249`), so that many of them outweigh one.
* Of two answers with the leader's number of families only the leader is
  looked at; and a dispute that a person has decided may be arbitrated again, which
  writes over the decision and keeps the person's name (`arbitration.ts:488`).
* Two appeals against one event may both be upheld, and each is repaired: the
  weight is taken out once and credited twice.
* The monitor takes a request and its answer between two agents for a cycle.
