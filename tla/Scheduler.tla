------------------------------ MODULE Scheduler ------------------------------
(***************************************************************************)
(* The hourly tick and the hand run of glasswell-scheduler                 *)
(* (src/src/glasswell/scheduler/runner.py and cli.py) over the ledger      *)
(* lineage.job_runs, PostgreSQL's advisory locks and systemd's transient   *)
(* units.                                                                  *)
(*                                                                         *)
(* A process is one invocation of the command.  It holds the session lock  *)
(* on its control connection from start to exit; every statement           *)
(* autocommits, so a process that dies keeps what it wrote and loses its   *)
(* locks, while the unit it started runs on.                               *)
(***************************************************************************)
EXTENDS SchedulePlan, Sequences

CONSTANTS
    Proc,            \* scheduler invocations that may be alive at once
    Missing,         \* jobs whose entry point does not import on this host
    Unreachable,     \* jobs whose uid this scheduler cannot drop to
    Budget,          \* TICK_BUDGET_SECONDS
    HandRun,         \* jobs an operator may start with --run
    Legacy,          \* sources an installed timer still polls
    Endings,         \* the ways a unit of each job may end
    MaxTime,         \* horizon of the clock
    MaxRuns,         \* bound on launched runs
    FaultMixes,      \* how many faults of each kind may happen together
    NoProc

VARIABLES
    clock,      \* the wall clock
    session,    \* holder of the session advisory lock
    jobLock,    \* holder of each per-job advisory lock
    proc,       \* the scheduler processes
    job_runs,   \* launched rows of lineage.job_runs, in insertion order
    plan_rows,  \* would_run and refused rows, under job_runs_plan_key
    unit,       \* the transient unit of each launched run
    poll,       \* latest lineage.fetch_attempts row of each source
    newAt,      \* latest completed_at of a 'new' attempt of each source
    faults      \* environment faults so far, by kind

vars == <<clock, session, jobLock, proc, job_runs, plan_rows, unit, poll, newAt, faults>>

ledger == <<job_runs, plan_rows>>
attempts == <<poll, newAt>>

Time    == 0..MaxTime
RunId   == 1..MaxRuns
NoRun   == 0
Outcome == {"open", "ran", "failed", "interrupted"}

(* a scheduler killed, its host restarted, its control connection dropped,  *)
(* systemctl giving no answer                                              *)
FaultKind == {"crash", "reboot", "connection", "silence"}

RunRow ==
    [job : Job, planned : Nat, started : Time, completed : Time,
     by : {"scheduler", "manual"}, outcome : Outcome, derived : BOOLEAN]

PlanRow ==
    [job : Job, planned : Nat, outcome : {"would_run", "refused"}, code : RefusalCode]

(* state: none before systemd knows the unit, loaded once it stopped and   *)
(* until systemd forgets it; result and began outlive the unit.            *)
Unit ==
    [state : {"none", "active", "loaded", "gone"}, result : {"none", "ok", "bad"},
     began : Time]

Process ==
    [pc : {"idle", "reconcile", "plan", "act", "opened", "wait"},
     by : {"scheduler", "manual"}, now : Time, open : SUBSET RunId,
     inFlight : SUBSET Job, entries : SUBSET PlanEntry, run : RunId \cup {NoRun},
     connected : BOOLEAN]

Idle ==
    [pc |-> "idle", by |-> "scheduler", now |-> 0, open |-> {}, inFlight |-> {},
     entries |-> {}, run |-> NoRun, connected |-> TRUE]

ASSUME SchedulerAssumption ==
    /\ MaxTime \in Nat /\ MaxTime >= MonthLen
    /\ MaxRuns \in Nat /\ Budget \in Nat
    /\ FaultMixes \subseteq [FaultKind -> Nat]
    /\ NoProc \notin Proc
    /\ Missing \subseteq Job /\ Unreachable \subseteq Job
    /\ HandRun \subseteq DOMAIN Registry
    /\ Legacy \subseteq Source
    /\ Endings \in [Job -> SUBSET {"ok", "bad"}]

TypeOK ==
    /\ clock \in Time
    /\ session \in Proc \cup {NoProc}
    /\ jobLock \in [Job -> Proc \cup {NoProc}]
    /\ proc \in [Proc -> Process]
    /\ job_runs \in Seq(RunRow) /\ Len(job_runs) <= MaxRuns
    /\ plan_rows \subseteq PlanRow
    /\ unit \in [RunId -> Unit]
    /\ poll \in [Source -> [attempted : Time, completed : Time]]
    /\ newAt \in [Source -> Time]
    /\ faults \in [FaultKind -> Nat]

Init ==
    /\ clock = MonthLen
    /\ session = NoProc
    /\ jobLock = [j \in Job |-> NoProc]
    /\ proc = [p \in Proc |-> Idle]
    /\ job_runs = <<>>
    /\ plan_rows = {}
    /\ unit = [r \in RunId |-> [state |-> "none", result |-> "none", began |-> 0]]
    /\ poll = [s \in Source |-> [attempted |-> Never, completed |-> Never]]
    /\ newAt = [s \in Source |-> Never]
    /\ faults = [kind \in FaultKind |-> 0]

-----------------------------------------------------------------------------
(* The evidence queries of plan.py.                                        *)

RowsOf(j)    == {r \in DOMAIN job_runs : job_runs[r].job = j}
RanRows(j)   == {r \in RowsOf(j) : job_runs[r].outcome = "ran"}
EndedRows(j) == {r \in RowsOf(j) : job_runs[r].outcome # "open"}

(* _LAST_RAN *)
RanAt(j)     == Max({job_runs[r].completed : r \in RanRows(j)} \cup {Never})
DerivedAt(j) ==
    Max({job_runs[r].completed : r \in {d \in RanRows(j) : job_runs[d].derived}} \cup {Never})

NotAfter(r, q) ==
    \/ job_runs[r].planned < job_runs[q].planned
    \/ job_runs[r].planned = job_runs[q].planned /\ r <= q

(* _LAST_OUTCOME: by planned_at, then by run id, newest first *)
LastRow(rows) == CHOOSE r \in rows : \A q \in rows : NotAfter(q, r)
LastOutcome(j) ==
    IF EndedRows(j) = {} THEN "none" ELSE job_runs[LastRow(EndedRows(j))].outcome

(* next_expected_poll of status/models.py for the latest attempt *)
NextExpected(s) ==
    IF poll[s].attempted = Never \/ SourceInterval[s] = 0 THEN Never
    ELSE SourceInterval[s]
         + IF poll[s].completed = Never THEN poll[s].attempted ELSE poll[s].completed

Evidence ==
    [attempted   |-> [s \in Source |-> poll[s].attempted],
     expected    |-> [s \in Source |-> NextExpected(s)],
     newAt       |-> newAt,
     ranAt       |-> [j \in Job |-> RanAt(j)],
     derivedAt   |-> [j \in Job |-> DerivedAt(j)],
     lastOutcome |-> [j \in Job |-> LastOutcome(j)]]

-----------------------------------------------------------------------------
(* Statements several steps share.                                         *)

Later(t) == IF t < MaxTime THEN t + 1 ELSE t

(* insert ... on conflict do nothing, under job_runs_plan_key *)
Recorded(e) ==
    LET outcome == IF e.action = "refused" THEN "refused" ELSE "would_run"
        taken   == \E row \in plan_rows :
                      row.job = e.job /\ row.planned = e.planned /\ row.outcome = outcome
    IN  IF taken THEN plan_rows
        ELSE plan_rows \cup {[job |-> e.job, planned |-> e.planned, outcome |-> outcome,
                              code |-> e.code]}

(* close_run; the completion guard refuses a row that is already closed *)
Closed(r, outcome, at) ==
    [job_runs EXCEPT ![r] = [job_runs[r] EXCEPT !.outcome = outcome, !.completed = at]]

Fault(kind) ==
    /\ faults' = [faults EXCEPT ![kind] = @ + 1]
    /\ faults' \in FaultMixes

(* A process exits or dies: PostgreSQL drops every lock of its connection *)
Release(p) ==
    /\ session' = IF session = p THEN NoProc ELSE session
    /\ jobLock' = [j \in Job |-> IF jobLock[j] = p THEN NoProc ELSE jobLock[j]]

Exit(p) == Release(p) /\ proc' = [proc EXCEPT ![p] = Idle]

-----------------------------------------------------------------------------
(* One tick: take the session lock, reconcile, plan, act.                  *)

SessionFree == session = NoProc

EveryRow     == DOMAIN job_runs  \* mutant: closed rows are read again
StartedRows  == {r \in DOMAIN job_runs :
                    job_runs[r].outcome = "open" /\ unit[r].state # "none"}
                    \* mutant: a row whose unit never was is left alone
OpenRows     == {r \in DOMAIN job_runs : job_runs[r].outcome = "open"}

StartTick(p) ==
    /\ proc[p].pc = "idle"
    /\ SessionFree
    /\ session' = p
    /\ proc' = [proc EXCEPT ![p] =
           [Idle EXCEPT !.pc = "reconcile", !.now = clock, !.open = OpenRows]]
    /\ UNCHANGED <<clock, jobLock, ledger, unit, attempts, faults>>

(* What systemctl show answers: the unit's state, "stopped" for one it      *)
(* still has loaded, "not-found" for one it does not know; Silent when it  *)
(* fails, which show turns into an empty mapping (check=False).            *)
Silent == "silent"

Shown(r) ==
    CASE unit[r].state = "active" -> "active"
      [] unit[r].state = "loaded" -> "stopped"
      [] OTHER                    -> "not-found"

NeverActive(answer) == FALSE  \* mutant: ActiveState is not read first
Running(answer)     == answer = "active"

(* mutants: a unit systemd never knew reads as success; systemd's own word  *)
(* for the result is stored                                                *)
ShownResult(r, answer) == IF unit[r].result = "bad" THEN "failed" ELSE "ran"
ShownVerbatim(r, answer) ==
    IF answer \in {Silent, "not-found"} THEN "interrupted" ELSE unit[r].result

(* The verdict reconcile reads off the answer *)
ShownOutcome(r, answer) ==
    IF answer \in {Silent, "not-found"} THEN "interrupted"
    ELSE IF unit[r].result = "ok" THEN "ran" ELSE "failed"

(* order by planned_at, run_id *)
Oldest(rows) == {r \in rows : \A q \in rows : NotAfter(r, q)}

Reconciled(p, r, answer) ==
    IF Running(answer)
    THEN /\ proc' = [proc EXCEPT ![p].open = @ \ {r},
                                 ![p].inFlight = @ \cup {job_runs[r].job}]
         /\ UNCHANGED <<job_runs, unit>>
    ELSE /\ job_runs' = Closed(r, ShownOutcome(r, answer), proc[p].now)
         /\ unit' = [unit EXCEPT ![r].state =
                         IF answer = "stopped" THEN "gone" ELSE @]  \* reset_failed
         /\ proc' = [proc EXCEPT ![p].open = @ \ {r}]

ReconcileRow(p) ==
    /\ proc[p].pc = "reconcile" /\ proc[p].connected
    /\ \E r \in Oldest(proc[p].open) :
          \/ Reconciled(p, r, Shown(r)) /\ UNCHANGED faults
          \/ Reconciled(p, r, Silent) /\ Fault("silence")
    /\ UNCHANGED <<clock, session, jobLock, plan_rows, attempts>>

MakePlan(p) ==
    /\ proc[p].pc = "reconcile" /\ proc[p].connected
    /\ proc[p].open = {}
    /\ proc' = [proc EXCEPT ![p].pc = "act",
                            ![p].entries = PlanTick(Evidence, proc[p].now, proc[p].inFlight)]
    /\ UNCHANGED <<clock, session, jobLock, ledger, unit, attempts, faults>>

(* Runner._guard; `now` is the instant the tick started, and so is started_at *)
RemainingBudget(started_at, now) == Budget - (now - started_at)

Guarded(p, e) ==
    LET now == proc[p].now
    IN  IF proc[p].by = "manual" \/ e.action # "run" THEN e
        ELSE IF e.job \in Missing THEN Refused(e.job, e.planned, "entry_point_missing")
        ELSE IF e.job \in Unreachable THEN Refused(e.job, e.planned, "requires_superuser")
        ELSE IF RemainingBudget(proc[p].now, now) < Registry[e.job].timeout
        THEN Refused(e.job, HourOf(now), "deferred")
        ELSE e

Acting(p) == proc[p].pc = "act" /\ proc[p].connected

Acted(p, e) == [proc[p] EXCEPT !.entries = @ \ {e}]

RecordEntry(p) ==
    /\ Acting(p)
    /\ \E e \in Foremost(proc[p].entries) :
          /\ Guarded(p, e).action # "run"
          /\ plan_rows' = Recorded(Guarded(p, e))
          /\ proc' = [proc EXCEPT ![p] = Acted(p, e)]
    /\ UNCHANGED <<clock, session, jobLock, job_runs, unit, attempts, faults>>

OpenRow(p, e) ==
    [job |-> e.job, planned |-> e.planned, started |-> proc[p].now, completed |-> Never,
     by |-> proc[p].by, outcome |-> "open", derived |-> FALSE]

(* launch: take_job_lock, then open_run or a run_in_flight refusal *)
Launch(p) ==
    /\ Acting(p)
    /\ Len(job_runs) < MaxRuns
    /\ \E e \in Foremost(proc[p].entries) :
          /\ Guarded(p, e).action = "run"
          /\ IF jobLock[e.job] \in {NoProc, p}
             THEN /\ jobLock' = [jobLock EXCEPT ![e.job] = p]
                  /\ job_runs' = Append(job_runs, OpenRow(p, e))
                  /\ proc' = [proc EXCEPT ![p] = [Acted(p, e) EXCEPT
                                 !.pc = "opened", !.run = Len(job_runs) + 1]]
                  /\ UNCHANGED plan_rows
             ELSE /\ plan_rows' = Recorded(Refused(e.job, HourOf(proc[p].now), "run_in_flight"))
                  /\ proc' = [proc EXCEPT ![p] = Acted(p, e)]
                  /\ UNCHANGED <<jobLock, job_runs>>
    /\ UNCHANGED <<clock, session, unit, attempts, faults>>

(* the horizon: past MaxRuns a launch is skipped *)
SkipLaunch(p) ==
    /\ Acting(p)
    /\ Len(job_runs) = MaxRuns
    /\ \E e \in Foremost(proc[p].entries) :
          /\ Guarded(p, e).action = "run"
          /\ proc' = [proc EXCEPT ![p] = Acted(p, e)]
    /\ UNCHANGED <<clock, session, jobLock, ledger, unit, attempts, faults>>

(* systemd-run --wait; an ingest opens a durable attempt of each source *)
StartUnit(p) ==
    /\ proc[p].pc = "opened"
    /\ LET r == proc[p].run
       IN  /\ unit' = [unit EXCEPT ![r].state = "active", ![r].began = clock]
           /\ poll' = [s \in Source |->
                          IF s \in Registry[job_runs[r].job].sources
                          THEN [attempted |-> clock, completed |-> Never] ELSE poll[s]]
    /\ proc' = [proc EXCEPT ![p].pc = "wait"]
    /\ UNCHANGED <<clock, session, jobLock, ledger, newAt, faults>>

(* systemd refuses the unit: systemd-run exits non-zero and nothing ran *)
StartUnitFails(p) ==
    /\ proc[p].pc = "opened"
    /\ "bad" \in Endings[job_runs[proc[p].run].job]
    /\ unit' = [unit EXCEPT ![proc[p].run].state = "gone", ![proc[p].run].result = "bad",
                            ![proc[p].run].began = clock]
    /\ proc' = [proc EXCEPT ![p].pc = "wait"]
    /\ UNCHANGED <<clock, session, jobLock, ledger, attempts, faults>>

(* mutant: systemd-run does not --wait, and exits 0 once the unit is up *)
CloseUnwaited(p) ==
    /\ proc[p].pc = "wait" /\ proc[p].connected
    /\ LET r == proc[p].run
       IN  /\ job_runs[r].outcome = "open"
           /\ job_runs' = Closed(r, IF unit[r].result = "bad" THEN "failed" ELSE "ran", clock)
    /\ proc' = [proc EXCEPT ![p].pc = "act", ![p].run = NoRun]
    /\ UNCHANGED <<clock, session, jobLock, plan_rows, unit, attempts, faults>>

(* the wait returns with the exit status; close_run, then reset_failed *)
CloseRun(p) ==
    /\ proc[p].pc = "wait" /\ proc[p].connected
    /\ LET r == proc[p].run
       IN  /\ unit[r].state # "active"
           /\ job_runs[r].outcome = "open"
           /\ job_runs' = Closed(r, IF unit[r].result = "ok" THEN "ran" ELSE "failed", clock)
           /\ unit' = [unit EXCEPT ![r].state = "gone"]
    /\ proc' = [proc EXCEPT ![p].pc = "act", ![p].run = NoRun]
    /\ UNCHANGED <<clock, session, jobLock, plan_rows, attempts, faults>>

Finish(p) ==
    /\ proc[p].pc = "act" /\ proc[p].connected
    /\ proc[p].entries = {}
    /\ Exit(p)
    /\ UNCHANGED <<clock, ledger, unit, attempts, faults>>

-----------------------------------------------------------------------------
(* glasswell-scheduler --run JOB_ID [--force]: no reconcile, no due test,  *)
(* no guard.                                                               *)

HandRefusal(j, force) ==
    IF Registry[j].trigger = "external_timer" THEN "externally_timed"
    ELSE IF ~Registry[j].enabled /\ ~force THEN "disabled"
    ELSE IF Registry[j].trigger = "manual" /\ ~force THEN "manual_only"
    ELSE "none"

StartHandRun(p, j, force) ==
    /\ proc[p].pc = "idle"
    /\ SessionFree
    /\ HandRefusal(j, force) = "none"
    /\ session' = p
    /\ proc' = [proc EXCEPT ![p] =
           [Idle EXCEPT !.pc = "act", !.by = "manual", !.now = clock,
                        !.entries = {[Due(j, HourOf(clock)) EXCEPT !.action = "run"]}]]
    /\ UNCHANGED <<clock, jobLock, ledger, unit, attempts, faults>>

RefuseHandRun(p, j, force) ==
    /\ proc[p].pc = "idle"
    /\ SessionFree
    /\ HandRefusal(j, force) # "none"
    /\ plan_rows' = Recorded(Refused(j, HourOf(clock), HandRefusal(j, force)))
    /\ UNCHANGED <<clock, session, jobLock, proc, job_runs, unit, attempts, faults>>

-----------------------------------------------------------------------------
(* systemd, the jobs themselves, the legacy timers and the clock.          *)

PollOutcomes(r, result) ==
    IF Registry[job_runs[r].job].sources = {} THEN {"open"}
    ELSE IF result = "ok" THEN {"unchanged", "new"}
    ELSE {"open", "failed", "unchanged", "new"}

(* A job ends; its last poll may be complete, or left open by a kill *)
UnitEnds(r, result, polled) ==
    /\ unit[r].state = "active"
    /\ result \in Endings[job_runs[r].job]
    /\ polled \in PollOutcomes(r, result)
    /\ LET at   == Later(clock)
           mine == {s \in Registry[job_runs[r].job].sources :
                       poll[s].attempted = unit[r].began}
       IN  /\ clock' = at
           /\ unit' = [unit EXCEPT ![r].state = "loaded", ![r].result = result]
           /\ poll' = [s \in Source |-> IF s \in mine /\ polled # "open"
                                        THEN [poll[s] EXCEPT !.completed = at] ELSE poll[s]]
           /\ newAt' = [s \in Source |->
                           IF s \in Registry[job_runs[r].job].sources /\ polled = "new"
                           THEN at ELSE newAt[s]]
    /\ UNCHANGED <<session, jobLock, proc, ledger, faults>>

(* systemd unloads an inactive unit nobody references; a failed one stays *)
CollectUnit(r) ==
    /\ unit[r].state = "loaded" /\ unit[r].result = "ok"
    /\ unit' = [unit EXCEPT ![r].state = "gone"]
    /\ UNCHANGED <<clock, session, jobLock, proc, ledger, attempts, faults>>

LegacyPoll(s, new) ==
    /\ s \in Legacy
    /\ clock < MaxTime
    /\ clock' = clock + 1
    /\ poll' = [poll EXCEPT ![s] = [attempted |-> clock, completed |-> clock + 1]]
    /\ newAt' = IF new THEN [newAt EXCEPT ![s] = clock + 1] ELSE newAt
    /\ UNCHANGED <<session, jobLock, proc, ledger, unit, faults>>

Advance ==
    /\ clock < MaxTime
    /\ clock' = clock + 1
    /\ UNCHANGED <<session, jobLock, proc, ledger, unit, attempts, faults>>

-----------------------------------------------------------------------------
(* Faults.                                                                 *)

(* The process is killed or its connection error ends it *)
Crash(p) ==
    /\ Fault("crash")
    /\ proc[p].pc # "idle"
    /\ Exit(p)
    /\ UNCHANGED <<clock, ledger, unit, attempts>>

(* PostgreSQL restarts: the locks go, the process has not noticed yet *)
LoseConnection(p) ==
    /\ Fault("connection")
    /\ proc[p].pc \in {"opened", "wait"} /\ proc[p].connected
    /\ Release(p)
    /\ proc' = [proc EXCEPT ![p].connected = FALSE]
    /\ UNCHANGED <<clock, ledger, unit, attempts>>

(* its next statement raises *)
NoticeLoss(p) ==
    /\ ~proc[p].connected
    /\ proc[p].pc = "wait" /\ unit[proc[p].run].state # "active"
    /\ Exit(p)
    /\ UNCHANGED <<clock, ledger, unit, attempts, faults>>

(* The host restarts: no process and no unit survives *)
Reboot ==
    /\ Fault("reboot")
    /\ session' = NoProc
    /\ jobLock' = [j \in Job |-> NoProc]
    /\ proc' = [p \in Proc |-> Idle]
    /\ unit' = [r \in RunId |->
                   CASE unit[r].state = "active" -> [unit[r] EXCEPT !.state = "gone",
                                                                    !.result = "bad"]
                     [] unit[r].state = "loaded" -> [unit[r] EXCEPT !.state = "gone"]
                     [] OTHER                    -> unit[r]]
    /\ UNCHANGED <<clock, ledger, attempts>>

-----------------------------------------------------------------------------
Working(p) ==
    \/ ReconcileRow(p) \/ MakePlan(p)
    \/ RecordEntry(p) \/ Launch(p) \/ SkipLaunch(p)
    \/ StartUnit(p) \/ StartUnitFails(p) \/ CloseRun(p) \/ Finish(p) \/ NoticeLoss(p)

Ending(r) == \E result \in {"ok", "bad"}, polled \in {"open", "failed", "unchanged", "new"} :
                UnitEnds(r, result, polled)

Next ==
    \/ \E p \in Proc : StartTick(p) \/ Working(p) \/ Crash(p) \/ LoseConnection(p)
    \/ \E p \in Proc, j \in HandRun, force \in BOOLEAN :
          StartHandRun(p, j, force) \/ RefuseHandRun(p, j, force)
    \/ \E r \in RunId : Ending(r) \/ CollectUnit(r)
    \/ \E s \in Source, new \in BOOLEAN : LegacyPoll(s, new)
    \/ Advance
    \/ Reboot

Spec == Init /\ [][Next]_vars

(* The timer fires hourly and persistently, a live process and systemd make *)
(* progress, and a job is a finite batch program: nothing in the code stops *)
(* a job that does not end.                                                *)
Fairness ==
    /\ WF_vars(\E p \in Proc : StartTick(p))
    /\ \A p \in Proc : WF_vars(Working(p))
    /\ \A r \in RunId : WF_vars(Ending(r))
    /\ WF_vars(Advance)

FairSpec == Spec /\ Fairness

-----------------------------------------------------------------------------
(* Properties.                                                             *)

NoFault == \A kind \in FaultKind : faults[kind] = 0

(* Crashes and reboots at most: every process that goes on has its locks,   *)
(* and systemctl answers.                                                  *)
Trusted == faults["connection"] = 0 /\ faults["silence"] = 0

ActiveUnits(j) == {r \in RowsOf(j) : unit[r].state = "active"}

(* The ledger never records an outcome the unit did not have: a row says    *)
(* ran only over a unit that succeeded and failed only over one that did   *)
(* not, whichever of launch and reconcile closed it (runner.py, close_run). *)
LedgerTruthful ==
    \A r \in DOMAIN job_runs :
        /\ job_runs[r].outcome = "ran"    => unit[r].result = "ok"
        /\ job_runs[r].outcome = "failed" => unit[r].result = "bad"

(* Through any crash or reboot, a tick never starts a copy of a job that    *)
(* runs: what outlived its scheduler, a hand run's unit included, is found *)
(* in flight before the next plan (runner.py, reconcile: "closing a        *)
(* still-running job is how two copies start").  A hand run takes the same *)
(* locks but looks at no unit, so a copy it starts itself is not excluded. *)
OneCopy ==
    [][Trusted =>
         \A r \in RunId :
             unit[r].state # "active" /\ unit'[r].state = "active" =>
                 job_runs[r].by = "manual" \/ ActiveUnits(job_runs[r].job) = {}]_vars

(* A unit that runs is on an open row, where the next reconcile finds it,   *)
(* through any crash or reboot (runner.py, reconcile reads outcome is      *)
(* null).                                                                  *)
ActiveIsOpen ==
    Trusted =>
        \A r \in DOMAIN job_runs :
            unit[r].state = "active" => job_runs[r].outcome = "open"

(* What the code says of its reader of systemd: it never decides on an      *)
(* empty answer, so a row is not closed while its unit runs (runner.py,    *)
(* SystemctlControl; reconcile).                                           *)
ReconcileClosesStopped ==
    [][\A r \in DOMAIN job_runs :
          job_runs[r].outcome = "open" /\ job_runs'[r].outcome # "open" =>
              unit[r].state # "active"]_vars

(* A closed row is evidence: no later step changes it (migration 076,       *)
(* guard_job_run_completion).                                              *)
ClosedRowsStay ==
    [][\A r \in DOMAIN job_runs :
          job_runs[r].outcome # "open" => job_runs'[r] = job_runs[r]]_vars

(* While nothing has failed, a fetch that changed something is not       *)
(* hidden behind a run that began before it: when the dependency rule      *)
(* calls a mart up to date with its ingest, some successful run of the     *)
(* mart began at or after the fetch (plan.py, due_for: newest <= last).    *)
(* Stated for the sources only the schedule polls and the job does not     *)
(* poll itself (seed/schedules.py lists nm_ocd_wchistory under both ends   *)
(* of an edge), and before the horizon, where every instant is the same.   *)
NoFetchMasked ==
    NoFault =>
    \A j \in DOMAIN Registry : \A e \in Registry[j].edges :
        \A s \in Source \ (Legacy \cup Registry[j].sources) :
            /\ e.on = "changed" /\ e.parent \in DOMAIN Registry
            /\ Registry[e.parent].kind = "ingest" /\ s \in Registry[e.parent].sources
            /\ newAt[s] \notin {Never, MaxTime} /\ RanAt(j) >= newAt[s]
            => \E r \in RanRows(j) : unit[r].began >= newAt[s]

(* The ledger says dependency_never_ran only of a job with a parent that    *)
(* recorded no successful run (seed/schedules.py, dependency_never_ran).   *)
NeverRanIsTrue ==
    [][\A row \in plan_rows' \ plan_rows :
          row.code = "dependency_never_ran" =>
              \E e \in Registry[row.job].edges : RanRows(e.parent) = {}]_vars

(* Every row that opens is closed with an outcome (runner.py: "a run whose  *)
(* unit vanished has to close with a reason").                             *)
OpenRowsClose ==
    \A r \in RunId :
        (r \in DOMAIN job_runs /\ job_runs[r].outcome = "open")
            ~> (r \in DOMAIN job_runs /\ job_runs[r].outcome # "open")

(* The mart j was at work before the fetch at t and its row closed after    *)
(* it, so the dependency rule takes that run for the answer to the fetch.  *)
(* NoFetchMasked: it takes a scheduler that died under the run.            *)
Masked(j, t) ==
    /\ ~NoFault
    /\ \E r \in RanRows(j) : unit[r].began < t /\ job_runs[r].completed >= t

(* A changed fetch of an ingest is eventually followed by a run of every    *)
(* mart that reacts to it, unless a later fetch takes its place, the       *)
(* ingest's own latest run did not succeed, or a run that outlived its     *)
(* scheduler masks the fetch (plan.py, due_for); stated for fetches before *)
(* the horizon of the clock.                                               *)
MartsReact ==
    \A j \in DOMAIN Registry : \A e \in Registry[j].edges : \A t \in MonthLen..(MaxTime - 1) :
        \A s \in IF e.on = "changed" /\ Registry[e.parent].kind = "ingest"
                  THEN Registry[e.parent].sources ELSE {} :
            (newAt[s] = t) ~> \/ newAt[s] # t
                              \/ \E r \in RowsOf(j) : unit[r].began >= t
                              \/ LastOutcome(e.parent) \in {"failed", "interrupted"}
                              \/ Masked(j, t)
=============================================================================
