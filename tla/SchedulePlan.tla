---------------------------- MODULE SchedulePlan ----------------------------
(***************************************************************************)
(* The due computation of src/src/glasswell/scheduler/plan.py: what a tick *)
(* should run, in which order, and which refusal it records instead.  The  *)
(* module is a library of operators over the registry (constants) and the  *)
(* evidence one tick collected (a record); Scheduler.tla supplies both.    *)
(*                                                                         *)
(* Instants are naturals and Never (0) stands for a null instant; a clock  *)
(* that starts at MonthLen keeps every real instant above it.              *)
(***************************************************************************)
EXTENDS Integers, FiniteSets, FiniteSetsExt

CONSTANTS
    Job,             \* every job id a dependency edge may name
    JobRank,         \* the lexical order of the ids
    Registry,        \* the resolved schedule rows, by job id
    Source,          \* the polled sources
    SourceInterval,  \* expected_poll_interval of each source, 0 for null
    HourLen,         \* instants in an hour
    MonthLen         \* instants between two monthly occurrences

Never == 0

(***************************************************************************)
(* One resolved row of the registry, with its sources and its edges.  A    *)
(* cadence row is monthly or has an interval, never both.                  *)
(***************************************************************************)
JobRow ==
    [kind     : {"ingest", "mart", "maintenance"},
     trigger  : {"cadence", "after_dependency", "manual", "external_timer"},
     monthly  : BOOLEAN,
     interval : Nat,
     sources  : SUBSET Source,
     edges    : SUBSET [parent : Job, on : {"changed", "completed"}],
     mode     : {"observe", "launch"},
     enabled  : BOOLEAN,
     timeout  : Nat]

ASSUME PlanAssumption ==
    /\ HourLen \in Nat \ {0} /\ MonthLen \in Nat /\ MonthLen >= HourLen
    /\ DOMAIN Registry \subseteq Job
    /\ \A j \in DOMAIN Registry : Registry[j] \in JobRow
    /\ IsFiniteSet(Job) /\ JobRank \in [Job -> Nat]
    /\ \A a, b \in Job : JobRank[a] = JobRank[b] => a = b
    /\ SourceInterval \in [Source -> Nat]

RefusalCode ==
    {"none", "run_in_flight", "dependency_failed", "dependency_never_ran",
     "dependency_cycle", "entry_point_missing", "requires_superuser",
     "deferred", "externally_timed", "disabled", "manual_only",
     "scheduler_lost_unit"}

PlanEntry ==
    [job : Job, planned : Nat, action : {"would_run", "run", "refused"},
     code : RefusalCode]

Due(j, at)           == [job |-> j, planned |-> at, action |-> "would_run", code |-> "none"]
Refused(j, at, code) == [job |-> j, planned |-> at, action |-> "refused", code |-> code]

HourOf(now) == (now \div HourLen) * HourLen

MonthlyOccurrence(now) == (now \div MonthLen) * MonthLen

-----------------------------------------------------------------------------
(* The due rules.  A rule answers the set of due instants, empty when the   *)
(* job is not due.                                                         *)

IntervalDue(j, ev, now) ==
    LET sources  == Registry[j].sources
        last     == ev.ranAt[j]
        expected == {ev.expected[s] : s \in sources} \ {Never}
        firstObservation ==
            /\ \E s \in sources : SourceInterval[s] # 0
            /\ \A s \in sources : ev.attempted[s] = Never
    IN  IF sources = {}
        THEN IF last = Never THEN {HourOf(now)}
             ELSE {t \in {last + Registry[j].interval} : now >= t}
        ELSE IF expected = {}
        THEN {t \in {HourOf(now)} : firstObservation}
        ELSE {t \in expected : now >= t /\ \A u \in expected : t <= u}

CadenceDue(j, ev, now) ==
    IF Registry[j].monthly
    THEN {t \in {MonthlyOccurrence(now)} : ev.ranAt[j] = Never \/ ev.ranAt[j] < t}
    ELSE IntervalDue(j, ev, now)

(* mutant: the fetch attempts of an ingest are not read *)
RunEvents(edge, ev) ==
    (IF edge.on = "completed" THEN {ev.ranAt[edge.parent]}
     ELSE {ev.derivedAt[edge.parent]}) \ {Never}

(* The instants at which an edge has something to react to *)
EdgeEvents(edge, ev) ==
    (IF edge.on = "completed" THEN {ev.ranAt[edge.parent]}
     ELSE IF Registry[edge.parent].kind = "ingest"
     THEN {ev.newAt[s] : s \in Registry[edge.parent].sources}
     ELSE {ev.derivedAt[edge.parent]}) \ {Never}

Known(j) == {e \in Registry[j].edges : e.parent \in DOMAIN Registry}

FailedEdges(j, ev) ==
    {e \in Known(j) : ev.lastOutcome[e.parent] \in {"failed", "interrupted"}}

DependencyEvents(j, ev) == UNION {EdgeEvents(e, ev) : e \in Known(j) \ FailedEdges(j, ev)}

AfterDependency(j, ev, now) ==
    LET events == DependencyEvents(j, ev)
    IN  IF FailedEdges(j, ev) # {} THEN {Refused(j, HourOf(now), "dependency_failed")}
        ELSE IF events = {} THEN {Refused(j, HourOf(now), "dependency_never_ran")}
        ELSE {Due(j, t) : t \in {newest \in events :
                 /\ \A u \in events : u <= newest
                 /\ ev.ranAt[j] = Never \/ newest > ev.ranAt[j]}}

DueFor(j, ev, now) ==
    CASE Registry[j].trigger = "cadence" -> {Due(j, t) : t \in CadenceDue(j, ev, now)}
      [] Registry[j].trigger = "after_dependency" -> AfterDependency(j, ev, now)
      [] OTHER -> {}

-----------------------------------------------------------------------------
(* The order of a tick: rounds of jobs whose every parent is placed, each  *)
(* round in id order.  Parents that are not registered have no edges of    *)
(* their own, so they are placed in the first round.                       *)

Parents(j, reg) == IF j \in DOMAIN reg THEN {e.parent : e \in reg[j].edges} ELSE {}

(* mutant: one placed parent is enough *)
PlacedByAny(reg) ==
    LET placed[k \in 0..Cardinality(Job)] ==
            IF k = 0 THEN {}
            ELSE {j \in Job : Parents(j, reg) = {} \/ Parents(j, reg) \cap placed[k - 1] # {}}
    IN  placed

Placed(reg) ==
    LET placed[k \in 0..Cardinality(Job)] ==
            IF k = 0 THEN {}
            ELSE LET before == placed[k - 1]
                 IN  {j \in Job : Parents(j, reg) \subseteq before}
    IN  placed

RootsOnly(reg) == Placed(reg)[2]  \* mutant: the rounds are not repeated
Orderable(reg) == Placed(reg)[Cardinality(Job)]

Round(j, reg) ==
    IF j \in Orderable(reg)
    THEN Min({k \in 0..Cardinality(Job) : j \in Placed(reg)[k]})
    ELSE Cardinality(Job) + 1

(* The same over the resolved registry *)
JobRound == [j \in Job |-> Round(j, Registry)]
Cycled   == {j \in Job : JobRound[j] > Cardinality(Job)}

(* The entries of a plan that nothing else in it comes before *)
Foremost(entries) ==
    {e \in entries : \A d \in entries \ {e} :
        \/ JobRound[e.job] < JobRound[d.job]
        \/ JobRound[e.job] = JobRound[d.job] /\ JobRank[e.job] < JobRank[d.job]}

-----------------------------------------------------------------------------
(* The plan of one tick.                                                   *)

Resolvable ==
    {j \in DOMAIN Registry : Registry[j].enabled /\ Registry[j].trigger # "external_timer"}

(* mutant: what reconcile found running is proposed again *)
ProposedAgain(ev, now, inFlight) == UNION {DueFor(j, ev, now) : j \in Resolvable}

Proposed(ev, now, inFlight) ==
    UNION {IF j \in inFlight THEN {Refused(j, HourOf(now), "run_in_flight")}
           ELSE DueFor(j, ev, now) : j \in Resolvable}

Settle(e, now) ==
    IF e.job \in Cycled THEN Refused(e.job, HourOf(now), "dependency_cycle")
    ELSE IF e.action = "would_run" /\ Registry[e.job].mode = "launch"
    THEN [e EXCEPT !.action = "run"]
    ELSE e

PlanTick(ev, now, inFlight) == {Settle(e, now) : e \in Proposed(ev, now, inFlight)}
=============================================================================
