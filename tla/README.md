# Glasswell in TLA+

Glasswell fetches public oil and gas filings, keeps every artifact it ever received, stages and
promotes them into a bitemporal store and serves the result. Most of its Python is parsing,
SQL and presentation. What is hard to test is the machinery around it: an hourly scheduler that
launches systemd units and keeps a ledger of them, ingests that poll sources in long transactions
beside a ledger on other connections, and append-only stores whose rows must still be true after
a crash. This directory models that machinery, checks it with TLC on small instances and proves
the core results with TLAPS. Around it stand the requests that write accounts and sessions, and
a few algorithms whose edges a unit test would hardly find.

Paths below are relative to `src/src/glasswell/` unless they start with `src/`.

## 1. Inventory

| # | Component | State it keeps | Operations | Hard behaviour |
|---|-----------|----------------|------------|----------------|
| 1 | Scheduler plan (`scheduler/plan.py`, `lineage/schedules.py`) | none: a function of the registry and of the evidence one tick read | due rules, dependency rules, order of a tick | evidence that is stale when used, order over cycles and absent jobs |
| 2 | Scheduler runner and ledger (`scheduler/runner.py`, `scheduler/cli.py`, migration 076) | `lineage.job_runs`, a session advisory lock, one advisory lock per job, systemd units | tick (reconcile, plan, act), hand run, launch, close | crashes between any two statements, units that outlive their scheduler, reboots, lost connections, a `systemctl` that does not answer |
| 3 | Fetch attempts (`lineage/fetch_attempts.py`, migration 050) | `lineage.fetch_attempts`, a list of pending outcomes in each process | begin, succeed, sweep, fail | outcomes decided before the commit they depend on, written after it, on another connection |
| 4 | Raw zone and manifests (`lineage/fetch.py`, `lineage/manifests.py`, migration 003) | `lineage.manifests`, files | stage, register, seal | concurrent ingests of one slot, rollbacks over files, row locks |
| 5 | Source freshness (`status/source_health.py`, `status/models.py`) | none: a verdict over 3 and 4 | the verdict | evidence of one key hidden by another's |
| 6 | Derivation capture and store (`lineage/capture.py`, `lineage/store.py`) | `lineage.derivations` and its edges | record, reconcile | two sessions recording one content address, failed then retried |
| 7 | Vintages and canonical production (`lineage/vintages.py`, `ingest/base.py`, `ingest/promote.py`, `ingest/repromote.py`) | `canonical.production_monthly`, `lineage.vintages` | append what changed, refuse divergence, read as of a date | promotions out of order, two on one day, repeated after a rollback |
| 8 | Quarantine (`lineage/quarantine.py`) | quarantined rows | upsert by content | the same row refused by two runs |
| 9 | Audit and retention (`lineage/audit.py`, `lineage/retention.py`) | an append-only log | emit, sweep by age | little |
| 10 | Accounts and sessions (`api/accounts.py`, `api/rate_limit.py`, routers `session`, `users`) | users, sessions, login attempts, rate windows | log in, touch, revoke, change password, disable | check then act across concurrent requests, two expiries |
| 11 | Migration runner (`db/migrate.py`) | `public.schema_migrations` | migrate | two migrators at once |
| 12 | Texas allocation (`allocation/v0.py`, `marts/tx_allocation.py`) | rebuilt tables of shares and causes | eligibility, split, class, cause | negative corrections, fractions, wells that leave a lease |
| 13 | Temporal split (`modeling/split.py`) | none: an assignment of wells | grid, pads, partitions | pairs across cells, chains of wells, either sign of a coordinate |
| 14 | The rest: conformance and explanations, source parsers, other marts, status collector, read API, host scripts, web client | committed rows of the above | queries, rebuilds, presentation | none of it is concurrent with itself; what orders it is 2 |

Modelled in full: 1 to 4. In part: 5 to 8 and 10 to 13; section 7 says what is left out of each.

How they interact. A tick (2) asks the plan (1) what is due; the plan reads the fetch attempts (3)
and the poll policies of (5) for ingests, and the job ledger for marts. A launched ingest polls
through (4), which writes manifests in the ingest's transaction while (3) writes beside it on
connections of its own; it then stages, promotes (7) under derivations (6) and quarantines (8).
Marts rebuild when the plan sees a changed fetch or a completed parent. Status (5) and the API
read what was committed.

What makes each correct:

* 1: parents before children; a cycle costs the tick no job it is not above; a changed fetch reaches
  every mart that waits on it; a refusal says what is true.
* 2: the ledger never says what a unit did not do; every open row closes; a closed row stays; a tick
  starts no second copy of a job; a tick stays within its budget.
* 3: a success is written only over what is committed; what is committed is not called failed; an
  attempt is closed once; a caller never waits on itself.
* 4: supersession is a chain within one slot; a committed manifest is never withdrawn and its
  bytes are in the raw zone.
* 5: an interrupted poll is reported, whatever other keys did since.
* 6: one content address, one output; 7: an as-of read never changes once its date has passed, and
  the latest head is the last value promoted; 10: a revoked or expired session never authenticates,
  one owner remains, and a limiter neither prolongs its own lock nor lets a burst through;
  11: each migration is applied once, in order, and a lost race for a role is won on a retry.
* 12: the shares of a lease-month are its volume, and what is served as observed is observed;
  13: wells of one pad are never on both sides of a split.

## 2. Plan

Modules, in order of importance:

1. `SchedulePlan`, `Scheduler`, with `MCScheduler`: done.
2. `Scheduler_proofs`, with `Extrema`: type correctness, truthfulness of the ledger, immutability
   of closed rows, one copy of a job, running units on open rows, fetches that are not masked, and
   the order of a tick (`JobOrder`): done.
3. `AttemptLedger` (what migration 050 promises), `FetchLedger` (how polls keep it) and
   `SourceHealth` over it, with `MCFetchLedger`: done. `FetchLedger_proofs`: its safety and its
   refinement: done.
4. `ProductionHistory` (what an as-of read promises) and `Promotion` (how promotions keep it, with
   the derivations they record and the collisions they quarantine), with `MCPromotion`: done.
   `Promotion_proofs`: its safety and its refinement: done.
5. `Accounts` with `MCAccounts`, and `Accounts_proofs`: done.
6. The small machines, `LoginLimiter`, `SessionWindows`, `RateWindow`, `Migrations`, `Allocation`
   and `PadGroups`, and `JobOrder`, with `MCParts`: done. `Windows_proofs` (the first three),
   `Migrations_proofs` and `Marts_proofs` (the next two): done.
7. Left: `Pipeline`, the composition of `Scheduler`'s unit with `FetchLedger`'s process, for the one
   question neither can ask: whether a fetch whose process dies before it records it still
   reaches the marts. Its state space is the product of the two largest ones here.

One property is checked in one run, except where a second instance reaches what the first cannot
(`ImplementsLedger` under faults).

## 3. What the modules model

### SchedulePlan

A library of operators over the registry (constants) and the evidence a tick read (a record):
`IntervalDue`, `CadenceDue`, `AfterDependency` and `DueFor` are the due rules of `plan.py`;
`Placed`, `Orderable` and `Round` are the rounds of `order_jobs`, over the whole registry instead of the closure
of what is wanted, which gives the same relative order because a closure holds every ancestor;
`Proposed`, `Settle` and `PlanTick` are `plan_tick`. Instants are naturals, an hour and a month
are `HourLen` and `MonthLen` of them, and 0 is null. A refusal keeps its code and loses its
prose.

`JobOrder` puts that order over a registry that changes: `lineage.job_dependencies` starts empty and
`AddEdge` is one of its rows, so its reachable states are all the dependency relations there are,
cyclic ones included. `ParentsFirst` and `CycleFreeRuns` are stated there.

### Scheduler

`proc` holds the live invocations of the command, `session` and `jobLock` the advisory locks,
`job_runs` and `plan_rows` the two kinds of rows of `lineage.job_runs`, `unit` what systemd knows
of each run, `poll` and `newAt` what the plan reads of the fetch attempts. A tick is `StartTick`
(the session lock, the open rows), `ReconcileRow` for each open row in order, `MakePlan`, then for
each entry in plan order `RecordEntry` or `Launch`, `StartUnit` (or `StartUnitFails`) and
`CloseRun`, and `Finish`. Each is one statement or one call, so a crash, a reboot, a unit's end or
another process may come between any two. `StartHandRun` is `--run`: it takes the session lock
and goes straight to `Launch`. `UnitEnds`, `CollectUnit`, `LegacyPoll` and `Advance` are the
environment: the job, systemd forgetting a unit that succeeded, the timers the scheduler does not
own, the clock.

`ReconcileRow` decides on what `systemctl show` answers of a unit, `Shown`: active, stopped or
not found. It may also be `Silent`: `show` does not check that the command succeeded, and turns a
failure into an empty mapping. An empty answer takes the branch of a unit systemd does not know, so
a row is closed as interrupted while its unit runs on. `Crash`, `LoseConnection`, `Reboot` and
this silence are the faults; `faults` counts them by kind, and `FaultMixes` says which counts an
instance allows together. Properties that need a premise name it: `NoFault`, or `Trusted` (any
crashes and reboots, no lost connection and no silence).

Two details carry most of the behaviour. `now` is read once per invocation and passed everywhere,
so everything a tick decides, its budget included, is decided at that instant. And both locks
belong to the control connection, so they go with it while the unit stays.

### AttemptLedger, FetchLedger and SourceHealth

`AttemptLedger` is the promise of migration 050: rows open, close once, and say success only over
a published manifest, which stays published.

`FetchLedger` is one source polled by several processes. `manifests` is indexed by payload
because a manifest's id is its content hash; `txn` says whose transaction the row belongs to
until it commits, `lock` who holds it "for update", `stamp` whose transaction set its
`staging_load_ref`. Visibility, the waits on row locks and unique keys and the foreign key's share
lock are those of PostgreSQL at read committed; `RegisterFails` stands for every exception a
statement of the registration can raise, the unique violation of a rival that committed and the
cycle of waits PostgreSQL breaks among them. A poll is `Poll`,
`Sweep` for each pending outcome, `Begin`, `Download` or `DownloadFails`, then `RegisterKnown` or
`ReadHead`, `Insert` and `Seal`; `Succeeded` only makes the outcome pending. A run ends in
`Depart` (commit), `Unwind` (rollback) or, for the ingests that commit what a failed transfer
recorded, `CommitAndRaise`; it then sweeps, fails what is left when it raised, and exits.
`Committing` are the ingests that commit between two polls, `Saving` those with the handlers of
`ingest/nm_ocd.py`. `Kill` and `CommitLost` are faults.

`SourceHealth` adds `source_freshness` and the rows its query selects.

`Ledger == INSTANCE AttemptLedger WITH published <- ...` reads a manifest as published when its
row is committed; `ImplementsLedger` is the refinement.

### ProductionHistory and Promotion

`ProductionHistory` is what a reader of an as-of date is promised, without rows: `served` is the
answer of each date, a promotion is opened on a day, and publishing replaces what its workbooks
report from that day on and nothing before it. `Told` is what an answer becomes.

`Promotion` is `ingest_month` and `repromote`, each one transaction. A run is `OpenIngest` or
`OpenRepromote`, which pin the day; `Fetch`; then for each workbook, in the order of the source
keys, `Stage` (what the filings say, the collided ones into quarantine, the heads), `Check` or
`Refuse` (`reject_same_vintage_divergence`) and `AppendCanonical` (derivations, rows, completions,
collisions superseded); then `ReadCounters` and `Commit`, or `Fail` anywhere. What a run wrote
stays in `proc` until it commits; rows, primary keys and derivations written by another open run
make it wait. The data is one well and one stream, since every group of filings is promoted on its
own. A workbook has its filings in spreadsheet order, so the label that decides a decomposition and
the collisions it leaves are those of `pool_promotion_records`. `KeyedFrom` is the day the rule on
entity keys comes into force. `overlapped` remembers that two runs were ever open at once: the
vintage-day's counters and the heads are read without a lock, so what is only promised of runs that
follow one another says so.

`History == INSTANCE ProductionHistory WITH served <- ...` reads every as-of date by
`select_production`; `ImplementsHistory` is the refinement, for overlapping runs too.

### Accounts

`users` and `sessions` are the two tables, `proc` the open transactions. The handlers that change an
account or a session, and the two commands on the host, are the ten actions from `UpdateUser` to
`LogIn`; what follows is one lock or one statement each: `LockOwner` for every row of the owners'
walk in id order, `LockTarget`, `Guard` (the last-owner check, with its second walk), `WriteRow`,
`Rotate`, `Revoke`, `Open`, `Commit`, `Abort`. A walk locks the rows of its snapshot and returns
those that still qualify when their lock is granted, as PostgreSQL does at read committed. Who
knows a password is a choice of the environment.

### The small machines

Each of these, and `JobOrder`, is a module with its own variables and next-state relation. They
interact with nothing, so `MCParts` explores them in one run: `part` picks one, which moves from its
own initial states while the others rest at one of theirs.

* `LoginLimiter`: `authenticate` as three steps, `CheckIp`, `CheckAccount`, `RecordAttempt`, of
  several calls over one table of attempts, kept as a bag; `StateFrom` is backoff and lock.
* `SessionWindows`: one session's sliding idle window under requests that each read their clock
  once and write in any order.
* `RateWindow`: the upsert of one minute's count, by requests that read the minute before they
  wait for the row.
* `Migrations`: migrators of the databases of one cluster; what is applied is read once, roles
  belong to the cluster, `Retried` is the retry of a lost race, `Kill` an interrupted deploy.
* `Allocation`: a lease-month with its wells, eligibility, split, class and cause, in fractions of
  a barrel.
* `PadGroups`: wells placed one by one on the grid, the unprojected ones by spacing unit, and the
  partition of each pad. Pads are compared with the wells that no set closed under being linked
  tells apart.

## 4. Runs

| Run | Instance | Shows |
|-----|----------|-------|
| `scheduler_safety` | 2 processes, ticks and hand runs, a legacy timer, a manual, a monthly and an observed job and one whose entry point is missing, jobs that fail, 2 runs, 3 instants; one crash, reboot or lost connection, or a silence of `systemctl` with or without a crash before it | `LedgerTruthful`, `ClosedRowsStay`, whatever happens; `ActiveIsOpen`, `OneCopy` while connections hold and `systemctl` answers; and the types |
| `scheduler_live` | 1 process, fair, an hourly ingest and its mart, jobs that succeed, 6 instants, 1 crash or reboot | `OpenRowsClose`, `MartsReact`; `NoFetchMasked` before the fault |
| `fetch_ledger` | 2 ingests, 2 keys, 3 payloads, 3 polls | `SuccessIsCommitted`, `CommittedNotFailed`, `OneSuccessor`, `ImplementsLedger`, and the types |
| `fetch_live` | 1 ingest, fair, 2 keys, 2 payloads, 2 polls, 3 instants, 1 kill or lost commit | `ImplementsLedger` across faults, and `OpenIsReported` |
| `promotion` | 2 runs, 2 revisions of a month and another month, 2 pools, 2 days, the rule in force from the second | `PastNeverRestated`, `WithholdingKept`, `ChangeOnly`, `LedgerOfTheDay`, `ClosedIsDisclosed`, `Deterministic`, `ImplementsHistory`, and the types |
| `accounts` | 2 accounts, 2 sessions, 2 requests | `OwnerRemains`, `ShutOut`, and the types |
| `parts` | the order of a tick over every dependency relation of 4 jobs, and the six small machines | `ParentsFirst`, `CycleFreeRuns`; `TimeBoxed`, `TriesBounded`; `KeptWhileUsed`, `SilenceEnds`; `WithinLimit`; `InOrder`, `RaceIsWon`; `Conserved`, `ObservedIsWhole`, `CauseTrue`; `PadsAreComponents`, `PadsUnsplit` |

Five runs exhibit a disagreement between the code and what the repository says of it:

| Run | Statement | What happens |
|-----|-----------|--------------|
| `scheduler_never_ran` | `NeverRanIsTrue` | an edge on a changed mart waits for a derivation nothing records: refused as never-ran forever (`co_counts` on `co_tiles`, `marts_cumulatives` on `marts_tx_allocation`) |
| `scheduler_silent` | `ReconcileClosesStopped` | a `systemctl show` that fails answers nothing, which `reconcile` reads as a unit that is gone: it closes the row of a unit that runs, and the next plan may start a second copy |
| `fetch_self_wait` | `NeverWaitsOnItself` | an unchanged poll locks the manifest row; the sweep of the next poll waits for it on another connection of the same thread |
| `promotion_replay` | `WithheldIsKnown` | a collision first seen today withholds a month in a read as of a day on which that month was served |
| `accounts_cycle` | `NoOwnerCycle` | an owner of a lower id committed between the two walks of the owner rows makes two owners' requests wait for each other; PostgreSQL aborts one |

### Known behaviour no run is kept for

Read from the code while modelling it. No property states the opposite, so nothing here is checked.

* A mart planned beside its parent runs although the parent failed in the same tick: the plan is
  made before anything runs. Nothing stops it but the order.
* A tick's budget is measured from its own start to its own start, so the sum of the timeouts it
  admits may exceed it.
* A hand run does not reconcile: after the scheduler died it starts a second copy of a unit that is
  still running. `OneCopy` is about the copies ticks start, with hand runs beside them.
* A mart that outlived its scheduler, began before a fetch and is closed `ran` after it counts as
  having reacted: `due_for` compares the fetch with the instant of the close. The mart waits for
  the fetch after. `Masked` is that case; `MartsReact` excludes it by name and fails without
  it, and `NoFetchMasked` shows that it takes a fault.
* `plan.py` says of a cycle (lines 290-291 and 366-367) that it refuses only its members. The jobs
  below it are never ready either, so they stay in the remainder of `order_jobs` and are refused as
  `dependency_cycle`, in words that say they sit in the cycle. `CycleFreeRuns` is about the members and the jobs
  no cycle is above, on which code and comment agree.
* Bytes that return to an earlier payload are unchanged although the head is another.
* A well that is not completed yet is labelled `excluded_after_plug` (`Allocation`, `ClassFor`).
* A login that rotates its own cookie and a disable lock a session and an account the two ways
  round; PostgreSQL aborts one.
* A login that verified the old password and inserts its session after a change keeps it:
  `ShutOut` is about the sessions that were open when the change took effect.

### Bounds, and why they are enough

* Scheduler clocks: `MaxTime` lets an ingest's interval elapse and a mart react, with a month
  boundary; an instant is half an hour (`HourLen = 2`), so both "same hour" and "next hour" occur.
  `Later` lets a unit end at the horizon without advancing past it.
* `MaxRuns`: past it `SkipLaunch` drops the entry so the tick still ends. In `scheduler_safety` two
  runs are a job and its repeat, or a job and its mart; the theorems cover every number. In
  `scheduler_live`, whose properties are about what must come, the bound is out of reach: six instants
  hold no more than the runs it allows (a larger bound gives the same states), so no reaction is
  excused by it. Six instants hold the whole of a masked fetch: a mart that a crash leaves running, a
  fetch that ends meanwhile, the close after it and a tick more.
* Jobs fail in `scheduler_safety`. They succeed in `scheduler_live`, which keeps the horizon on
  reactions; `MartsReact` says by itself that a failed ingest excuses its mart.
* Refusals: the hand run of a manual job, a missing entry point, a run in flight, failed and
  never-run dependencies occur. `Unreachable` is empty (it is decided as `Missing` is), no job is
  disabled, no timeout exceeds the budget, and the scheduler's registry has no cycle (`JobOrder` has).
* Faults: one each, since every property is about one cut between two statements; a silence needs a
  row that was left open, so a crash may come before it. Two processes give the interleavings around them.
* Three payloads and three polls are the least in which two ingests can both try to supersede a
  third payload's manifest; two keys are needed for bytes that reach two slots and for one key
  hiding another. `fetch_ledger` runs without faults because rollbacks, the failures of a run and
  every interleaving of two ingests already occur in it; kills and lost commits are in
  `fetch_live`.
* `BeginHorizon` and the guard of `Poll` are the horizon on polls.
* `promotion`: two revisions of which only the second decomposes, a second month so that one
  re-promotion takes two workbooks, and a rule that comes into force between the two days, so that
  one workbook means two things. The sum of the second revision's pools equals the first filing:
  equal volumes at another level are where a comparison of values alone goes wrong. `MaxDay` bounds
  the calendar; runs are unbounded in number, two at a time.
* `accounts`: two accounts are the least for two owners that remove each other, two sessions for a
  change that keeps one; `accounts_cycle` needs a third account, and no sessions.
* `parts`: `LimiterSpan` and `MaxAttempts` bound the clock and the attempts of the limiter, whose
  thresholds are scaled to two so that backoff, lock, expiry and the known-good exemption all occur
  within four attempts, one of the two addresses being the unresolved one, which is never known good;
  `SessionSpan` passes the absolute window; `LastMinute` gives three minute
  boundaries to three requests at a limit of two; three migrators are two on one database and
  one alone on another, over two files that create roles and one that does not; lease-months have up to three
  wells and volumes of -7 to 7 half barrels, so every remainder and sign occurs; populations are
  three wells on a grid reaching from cell -2 to 0, so that they chain and straddle cells on both sides of the origin.
* Symmetry is used for interchangeable processes, requests, sessions and calls, and for
  keys and payloads of `fetch_ledger`, in runs without a liveness property. What is ordered (jobs,
  accounts, workbooks) is not permuted.
* Deadlock is checked in the scheduler's runs. It is not in the others: clocks, polls and attempts
  are bounded and parts finish, so those instances stop.

### Fairness

`Scheduler`: the timer fires hourly and is persistent (`src/infra/systemd`), a live process makes
progress, a started job ends and the clock advances. Nothing in the code stops a job that does not
end but systemd's own limit, which is a job's end. No fault is fair, and nothing assumes that a
given process is the one that starts.

`FetchLedger`: a live ingest takes some step whenever it can, and the clock advances. Which of its
next steps it takes is not constrained, so a poll that blocks on its own lock stays blocked;
`OpenIsReported` holds over that behaviour too. It does not assume the process survives.

The other modules state no liveness: an operator starts ingests and migrations, a caller starts
requests, and nothing in the code retries them.

## 5. Proofs

Every theorem is for all values of the constants its module's assumptions admit, and every leaf is
checked by `tlapm`. The assumptions say what kind of thing each constant is, and the relations of
the code's own numbers: a month is no shorter than an hour (`PlanAssumption`), no backoff outlasts a
lock (`WindowsAssumption`), a lost race is retried (`MigrationsAssumption`). A theorem with a hypothesis beside
them is named as such below.

### Scheduler_proofs

From `PlanAssumption` and `SchedulerAssumption`, `Invariant` proves the inductive `IInv`, and from
it `TypeCorrect` (`[]TypeOK`), `LedgerIsTruthful` (`[]LedgerTruthful`) and `ClosedRowsNeverChange`
(`ClosedRowsStay`). None of them is inductive alone. A row says what its unit did only because
whoever closes it looked at that unit while the row was open, and only one process can be looking.
`IInv` adds four parts:

* `SessionInv`: a process that is working and connected holds the session lock, so at most one
  is; only a process that has opened a run or waits for its unit may have lost its connection;
* `RowInv`: the rows a reconcile has read and not yet judged are still open, and the run of a
  process that opened one exists;
* `RunInv`: the unit of a run just opened has not been started, that of a run waited for has, and
  two processes never have the same run;
* `UnitInv`: a unit has no result while it is unknown or active and has one otherwise, and no unit
  exists without its row.

`TruthInv` is the property itself, restated over rows. There is one lemma per action.

A second invariant, `JInv`, adds to `IInv` what follows when more is known, each part under its own
premise, so that one induction serves the three properties. The premises are those of the properties
themselves and speak of the faults so far; the theorems have no hypothesis on the constants:

* `TrustedInv`, while connections hold and `systemctl` answers: what a process runs, and every unit
  that is active, is on an open row. `RunningIsOnAnOpenRow` (`ActiveIsOpen`) follows: a process
  without its connection has lost its lock, and a tick may meanwhile close the row it opened; an
  unanswered question closes the row of a running unit.
* `CopyInv`, under the same premise, of every tick: `Clear` says that before the plan every active
  unit is a row still to be read or a job found in flight, and after it that no entry to run is of
  an active job; and that a run carries the trigger of the process that opened it. `NoSecondCopy`
  (`OneCopy`) follows. `Clear` is not claimed of `--run`, which does not reconcile.
* `FetchInv`, before any fault: an open row has a process waiting for it, and a mart that waits, or
  that has closed, began at or after the newest fetch of another job's source, or closed before
  it. `FetchesAreNotMasked` (`NoFetchMasked`) follows; hand runs are included. It leaves out the sources a timer outside the
  schedule polls and those the mart polls itself, which do end while it runs.

The order of a tick is proved over `JobOrder`, for every finite set of jobs and every relation:
`ParentsComeFirst` (`ParentsFirst`) and `CycleFreeAreOrdered` (`CycleFreeRuns`). `Placed` is a
recursive function; `PlacedRecurs` shows by climbing its argument that each round is what its
definition says, `NothingLeft` that after as many rounds as there are jobs no placeable one is left.
A job with no cycle at or above it is placed because, among those that were not, one with the
fewest jobs above it would have had all its parents placed.

### FetchLedger_proofs

From `FetchAssumption`, `IInv` is inductive and gives `LedgerTypes`, `SuccessesAreCommitted`
(`SuccessIsCommitted`), `CommittedNeverFailed` (`CommittedNotFailed`) and `ChainsNeverFork`
(`OneSuccessor`), with every fault. An outcome is decided inside a transaction and written outside
it, so the invariant follows the outcome from one to the other:

* `InPoll`: the attempt of a poll in flight is open, its bytes are on disk, and the head it read is
  committed or its own, so it cannot be withdrawn under it;
* `Holds`: a row of an open transaction is pending under its attempt once sealed; unsealed, it is
  the row being sealed, or its attempt has failed already;
* `Answers`: a pending outcome names the only row of its attempt, no two pending outcomes share an
  attempt, and an exiting ingest has stopped sweeping one only if its row is not committed;
* `Separate`: no two ingests answer for one attempt;
* `Rows` and `Chain`: a row's bytes are on disk; it supersedes one of its own key that its
  transaction can see, which no other row supersedes;
* `Told`: what a closed attempt says.

`PollsKeepTheLedger` is the refinement of `AttemptLedger`: `StepRefines` maps a sweep, a failure
and an opened attempt to a step of the ledger, a commit to a publication, and everything else to a
stutter.

### Promotion_proofs

From `PromotionAssumption`. `Base` (types; what an open run wrote carries its day, its workbooks and
what their filings say; a derivation's hash is that of its specification; no row is later than
today) is inductive under any interleaving of runs, and gives `CanonicalTypes`, `ReplaysReconcile`
(`Deterministic`), `PastIsNeverRestated` and `WithholdingIsKept`: a run stamps the day it is pinned
to however late it commits, and a day is past (`Past`) once no open run is pinned to it or before.

The rest needs two more parts, proved in `PromotionsInTurn`:

* `Keys`: no two rows, committed or not, share an entity, a month and a vintage, so a day's row is
  permanent;
* `Solo`, under `~overlapped`: at most one run is open; the heads it read are those canonical
  still has, and it has appended every figure that is not one of them (`Alone`); its counters are
  those of its rows (`Counts`); it closes the collisions whose sum it appends (`Closes`); and at
  rest (`AtRest`) consecutive vintages differ, each day's ledger counts its rows, and a
  collision is open only while the well's head is no sum, so closing one always goes by a landing.

`OnlyChangesArePublished`, `VintageRowsAreLedgers` and `ClosedReadsAsTheSum` follow; they hold of
runs that followed one another, as the properties themselves say. `PromotionsKeepTheHistory` is the
refinement of `ProductionHistory`, for any runs: opening one maps to opening a promotion on its
day, a commit to publishing what its workbooks report from that day on, midnight to midnight, and
every other step to a stutter. A run that ends without a commit maps to an end that
publishes nothing. A commit after runs overlapped leaves the past alone, and each later answer is
either the old one or the reported one.

### Accounts_proofs

`Accounts_proofs`, from `AccountsAssumption`, proves `AccountTypes`, `OwnersNeverEmptied`
(`OwnerRemains`) and `ChangeShutsOut` (`ShutOut`). Both properties are about what a request read
being still true when it commits, and rest on the row locks. `AccountsInv` is the types, that a
live session belongs to an account, that no two requests hold one row (`Exclusive`), and of each
request: the operations each step may belong to (`Phases`); that it holds the row it is about to
write, and that every owner it counted is an owner and held (`Holding`); that one which will take
an owner out has counted another (`Guarding`); and that the live sessions of the account it shuts
out are those it is about to revoke, has revoked or keeps (`Shutting`). The property then follows
at `Commit`, the only step that writes either table.

### Windows_proofs

Sessions, from `SessionAssumption`: `SessionKeptWhileUsed` and `SessionSilenceEnds`; the invariant
`Row` ties the idle window to the last touch, and the last touch to the latest use up to the refresh
interval or a stalled request.

Rate windows, from `LimitAssumption`: `MinutesWithinLimit`: the row counts the minute it names, and
no later minute was charged.

The login limiter, from `LimiterAssumption`, `WindowsAssumption` (no backoff and no address window
is longer than a lock; in the code the three are equal) and `CallsAssumption` (finitely many calls
at once). `LocksAreTimeBoxed` (`TimeBoxed`) needs only the types: whatever state the table gives,
the failure that closed it is younger than a lock. `TriesAreBounded` (`TriesBounded`) is about a
burst that passes the check before any of it is recorded. `Closing` says of every window of time:
either fewer failures than the limit are recorded in it, or those recorded and the calls that may
still add one (`May`) are together no more than the limit and the calls there are, less one. A
call that has not checked yet and whose instant is locked already (`Barred`) cannot add one
(`FullBars`), and each failure recorded past the limit takes its call out of `May`.

### Migrations_proofs

`Migrations_proofs`, from `MigrationsAssumption`, proves `AppliedInOrder`: a worker inside a file
has every earlier one behind it; and `RacesAreWon`: a worker alone on its database is back for a
second attempt only once the role it lost is committed. That needs `RaceAttempts` of at least two;
the code has three.

### Marts_proofs

From `AllocationAssumption` and `FilingAssumption`: `CausesAreTrue`, `VolumesAreConserved`
(`Conserved`) and `ObservedIsTheWhole` (`ObservedIsWhole`). `Allotted` says that what was built was
built from the filing; the rest is the arithmetic of the split, for every volume of either sign and
any number of wells (`SplitBack`), and sums over wells.

From `PadAssumption` and `PopulationAssumption`: `PadsStayWhole` (`PadsUnsplit`) rests on
`Together` (two linked wells of the grid have one root) and `Sided` (the partition is that of the
pads). Placing a well looks at nine cells; `NearIsBeside` shows that a well within the radius is in
one of them, for coordinates of either sign. `MedianWithin` says that a pad whose median is
before the calibration date has a well before it, and one whose median is past the boundary has a
well past it. `PadsAreExact` (`PadsAreComponents`) is the other
direction: `Rooted` adds that two wells have one root only if they are chained, a chain being what
no closed set of wells separates.

### Extrema

What several of these need about data and the installed provers do not have: `Max` and `Min` of
non-empty bounded sets are members of them; sums over finite sets (`SumRemove`, `SumAdd`,
`SumSplit`, `SumOfConstant`, ...). The library's induction theorems take an operator as a
parameter, which these provers cannot instantiate; `Climbing` and `SubsetInduction` state the same
inductions for a set of numbers and a set of sets, proved by a least counterexample.

### What the proofs changed in the models

Cases of `CASE` that overlap, whose choice TLA+ leaves open where the code takes the first, became
`IF` chains in that order (`Scheduler`, `SourceHealth`, `Allocation`); the median is an order
statistic, counts and sums are folds, and pads are compared by closed sets instead of a transitive
closure. Each run still finds what it found before.

## 6. What is only model-checked

Every invariant and action property of a passing run is a theorem, and so are both refinements.
TLC alone stands for:

* liveness under fairness (`OpenRowsClose`, `MartsReact`, `OpenIsReported`), which is outside what
  the prover handles;
* the five disagreements of section 4, each of them a single behaviour.

## 7. What is not modelled, and why

* Most of the 79 000 lines of Python: the parsing of each state's files, SQL over committed rows,
  presentation, rule data and seeds, the status collector's probes. Each of them is one
  transaction or one pure pass with no state that another actor changes; what they promise is
  about data a unit test compares. The modules map the parts with control of their own, a small
  share of the lines, and widening them would add transcriptions of queries.
* Transport, paths, wording, redaction and memory figures: data no property tells apart.
* `next_due_at` and `read_relations`: read-only reports.
* Scheduler: an answer of `systemctl` with only some of its lines. The refusals `requires_superuser`,
  `deferred`, `disabled` and `externally_timed` are in the module, and no instance reaches them.
* The command's exit status, which reads the ledger's newest planned row rather than its own.
* Source freshness: a poll's timestamps in the future and sources without a policy.
* Promotion: `--restage`, which clears staging; a failed derivation's row, rolled back with its
  transaction; quarantine under the other reasons, which is written the same way and read by no
  promotion. `ingest/promote.py` does for the other states what `nd_mpr.py` does here, without
  pools.
* Login attempts: `glasswell-owner-reset` also deletes the attempts of its account
  (`api/bootstrap.py`, `reset_main`), which only ever opens a limiter earlier.
* Accounts: API keys, the checks of role and CSRF that come before a handler writes anything, the
  token buckets of tiles and logins, the audit rows written beside, and the passwords themselves.
* Migrations: the refusals of a directory with a gap, a duplicate or a changed file, which stop a
  run before it writes.
* Marts other than the Texas allocation: rebuilds whose order is the scheduler's.
* Audit and retention: an append-only log and three deletes by age.
* A mart's reaction to a fetch whose process died before it recorded its outcome: it does not
  come, and nothing in the repository promises that it does.
* Serialisation failures: the code runs at read committed.
