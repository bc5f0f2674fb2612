------------------------------ MODULE Promotion ------------------------------
(***************************************************************************)
(* Promotions of one source into canonical.production_monthly, each in one *)
(* PostgreSQL transaction at read committed: ingest_month of nd_mpr.py and *)
(* repromote of repromote.py, both through promote_manifest, with the      *)
(* change-only append, the refusal of a diverging vintage, the derivation  *)
(* store, the quarantine of pool collisions and the vintage-day's counters.*)
(*                                                                         *)
(* One well and one stream: every group of filings is promoted on its own. *)
(* What a transaction wrote is kept with its run until it commits.         *)
(***************************************************************************)
EXTENDS Naturals, Sequences, FiniteSets, Functions

CONSTANTS
    Run,        \* ingest processes
    Workbook,   \* the revisions of the monthly workbooks the upstream may serve
    Month,
    MonthOf,    \* the month a workbook reports, its source key
    Rank,       \* the order of the source keys
    Filings,    \* the well's filings in a workbook, in spreadsheet order
    Pool,
    MaxDay,     \* horizon of the calendar
    KeyedFrom,  \* effective_from of cr_nd_entity_key_1
    NoPool, Well

ASSUME PromotionAssumption ==
    /\ MaxDay \in Nat \ {0} /\ KeyedFrom \in Nat
    /\ NoPool \notin Pool /\ Well \notin Pool
    /\ MonthOf \in [Workbook -> Month] /\ Rank \in [Month -> Nat]
    /\ Filings \in [Workbook -> Seq([pool : Pool \cup {NoPool}, volume : Nat]) \ {<<>>}]

VARIABLES
    today,
    canonical,   \* canonical.production_monthly
    completions, \* canonical.well_completions
    held,        \* lineage.quarantine_rows under key_collision
    staged,      \* manifests with rows in staging.nd_mpr_oil
    derivations, \* lineage.derivations: what a specification hashed to
    vintages,    \* lineage.vintages, by day
    proc,        \* the open transactions
    overlapped   \* history: a run was opened beside another

vars == <<today, canonical, completions, held, staged, derivations, vintages, proc, overlapped>>

Day    == 1..MaxDay
Entity == Pool \cup {Well}
Filing == [pool : Pool \cup {NoPool}, volume : Nat]

Value  == [volume : Nat, level : {"well", "pool"}, summed : BOOLEAN]  \* change_key
Figure == [entity : Entity, value : Value]
Row    == [entity : Entity, month : Month, vintage : Day, value : Value, workbook : Workbook]

Completion == [pool : Pool, month : Month, vintage : Day]
Collision  == [month : Month, ordinal : Nat, filing : Filing, keyed : BOOLEAN]
Held       == [row : Collision, first : Day, released : Day \cup {0}]  \* 0 while it is open
Derivation == [of : Workbook, again : BOOLEAN, keyed : BOOLEAN,
               part : {"records", "aggregate"}, hash : SUBSET Figure]
Vintage    == [opened : BOOLEAN, appended : Nat, restated : Nat, manifests : SUBSET Workbook]

Unopened == [opened |-> FALSE, appended |-> 0, restated |-> 0, manifests |-> {}]

(* A run and what its transaction has read and written so far *)
Process ==
    [pc : {"idle", "fetch", "stage", "check", "append", "counters", "vintage"},
     day : Day \cup {0}, again : BOOLEAN, todo : SUBSET Workbook, promoted : SUBSET Workbook,
     heads : SUBSET Figure, land : SUBSET Figure, appended : Nat, restated : Nat, counters : Vintage,
     rows : SUBSET Row, completed : SUBSET Completion, seen : SUBSET Collision,
     closed : SUBSET Collision, loaded : SUBSET Workbook, derived : SUBSET Derivation]

Idle ==
    [pc |-> "idle", day |-> 0, again |-> FALSE, todo |-> {}, promoted |-> {}, heads |-> {},
     land |-> {}, appended |-> 0, restated |-> 0, counters |-> Unopened, rows |-> {},
     completed |-> {}, seen |-> {}, closed |-> {}, loaded |-> {}, derived |-> {}]

TypeOK ==
    /\ today \in Day
    /\ canonical \subseteq Row
    /\ completions \subseteq Completion
    /\ held \subseteq Held
    /\ staged \subseteq Workbook
    /\ derivations \subseteq Derivation
    /\ vintages \in [Day -> Vintage]
    /\ proc \in [Run -> Process]
    /\ overlapped \in BOOLEAN

Init ==
    /\ today = 1
    /\ canonical = {} /\ completions = {} /\ held = {} /\ staged = {} /\ derivations = {}
    /\ vintages = [d \in Day |-> Unopened]
    /\ proc = [p \in Run |-> Idle]
    /\ overlapped = FALSE

-----------------------------------------------------------------------------
(* pool_promotion_records: what a workbook says of the well.               *)

Filed(w)   == DOMAIN Filings[w]
Total(w)   == FoldFunction(+, 0, [i \in Filed(w) |-> Filings[w][i].volume])

(* Two or more filings, each under a pool of its own *)
Decomposable(w, keyed) ==
    /\ keyed /\ Len(Filings[w]) > 1
    /\ \A i, j \in Filed(w) : /\ Filings[w][i].pool # NoPool
                              /\ i # j => Filings[w][i].pool # Filings[w][j].pool

Figures(e, v, level, summed) ==
    {[entity |-> e, value |-> [volume |-> v, level |-> level, summed |-> summed]]}

Records(w, keyed) ==
    IF Decomposable(w, keyed)
    THEN UNION {Figures(Filings[w][i].pool, Filings[w][i].volume, "pool", FALSE) : i \in Filed(w)}
    ELSE Figures(Well, Filings[w][1].volume, "well", FALSE)

Aggregates(w, keyed) ==
    IF Decomposable(w, keyed) THEN Figures(Well, Total(w), "pool", TRUE) ELSE {}

(* Filings the rule cannot tell the well from *)
Collided(w, keyed) ==
    IF Decomposable(w, keyed) THEN {}
    ELSE {[month |-> MonthOf[w], ordinal |-> i, filing |-> Filings[w][i], keyed |-> keyed] :
            i \in Filed(w) \ {1}}

Completed(w, keyed) ==
    IF ~keyed THEN {}
    ELSE {Filings[w][i].pool : i \in IF Decomposable(w, keyed) THEN Filed(w) ELSE {1}} \ {NoPool}

-----------------------------------------------------------------------------
(* Reads at read committed: what is committed and what the run itself wrote *)

Keyed(p)     == proc[p].day >= KeyedFrom
Others(p)    == {q \in Run \ {p} : proc[q].pc # "idle"}
Doing(p)     == CHOOSE w \in proc[p].todo : \A v \in proc[p].todo : Rank[MonthOf[w]] <= Rank[MonthOf[v]]
Computed(p)  == Records(Doing(p), Keyed(p)) \cup Aggregates(Doing(p), Keyed(p))

Latest(rows) == {r \in rows : \A s \in rows : s.entity = r.entity => s.vintage <= r.vintage}
Visible(p, m) == {r \in canonical \cup proc[p].rows : r.month = m}
FiguresOf(rows) == {[entity |-> r.entity, value |-> r.value] : r \in rows}

(* canonical.production_monthly_latest *)
Heads(p, m) == FiguresOf(Latest(Visible(p, m)))

AtVintage(p, m) == FiguresOf({r \in Visible(p, m) : r.vintage = proc[p].day})

Holds(figures, e) == \E f \in figures : f.entity = e

-----------------------------------------------------------------------------
(* open_ingest_run: the day is pinned when the session opens.              *)

Opened(p, step, again, todo) ==
    /\ proc[p].pc = "idle"
    /\ proc' = [proc EXCEPT ![p] = [Idle EXCEPT !.pc = step, !.day = today, !.again = again,
                                                !.todo = todo]]
    /\ overlapped' = (overlapped \/ Others(p) # {})
    /\ UNCHANGED <<today, canonical, completions, held, staged, derivations, vintages>>

OpenIngest(p) == Opened(p, "fetch", FALSE, {})

(* staged_manifests and _refuse_duplicate_months *)
OpenRepromote(p) ==
    \E months \in SUBSET Month \ {{}} :
        LET chosen == {w \in staged : MonthOf[w] \in months}
        IN  /\ chosen # {}
            /\ \A v, w \in chosen : MonthOf[v] = MonthOf[w] => v = w
            /\ Opened(p, "stage", TRUE, chosen)

(* fetch_raw: bytes already held and staged end the run; a manifest being  *)
(* registered by another run locks its content and the head it supersedes. *)
Fetch(p) ==
    /\ proc[p].pc = "fetch"
    /\ \E w \in Workbook :
          /\ \A q \in Others(p) : \A v \in proc[q].loaded :
                v # w /\ (MonthOf[v] = MonthOf[w] => \A x \in staged : MonthOf[x] # MonthOf[w])
          /\ proc' = [proc EXCEPT ![p] =
                IF w \in staged THEN Idle
                ELSE [@ EXCEPT !.pc = "stage", !.todo = {w}, !.loaded = {w}]]
    /\ UNCHANGED <<today, canonical, completions, held, staged, derivations, vintages, overlapped>>

Touched(p) == proc[p].seen \cup proc[p].closed

(* promote_manifest, to the reading of the heads: staging, and the upsert  *)
(* of the collided filings, which keeps the state of a row it meets again  *)
Stage(p) ==
    /\ proc[p].pc = "stage"
    /\ LET w == Doing(p) IN
       /\ \A q \in Others(p) : Collided(w, Keyed(p)) \cap Touched(q) = {}
       /\ proc' = [proc EXCEPT ![p].pc = "check",
                               ![p].seen = @ \cup Collided(w, Keyed(p)),
                               ![p].heads = Heads(p, MonthOf[w])]
    /\ UNCHANGED <<today, canonical, completions, held, staged, derivations, vintages, overlapped>>

(* mutant: every figure is appended again *)
Recomputed(p) == Computed(p)

(* mutant: value_hash alone decides *)
OtherVolume(p) ==
    {f \in Computed(p) : \A h \in proc[p].heads : h.entity = f.entity => h.value.volume # f.value.volume}

(* _unchanged *)
Changed(p) == Computed(p) \ proc[p].heads

(* reject_same_vintage_divergence *)
Landable(p) ==
    {f \in Changed(p) : ~Holds(AtVintage(p, MonthOf[Doing(p)]), f.entity)}
Divergent(p) ==
    \E f \in Changed(p) : /\ Holds(AtVintage(p, MonthOf[Doing(p)]), f.entity)
                          /\ f \notin AtVintage(p, MonthOf[Doing(p)])

Check(p) ==
    /\ proc[p].pc = "check"
    /\ ~Divergent(p)
    /\ proc' = [proc EXCEPT
         ![p].pc = "append",
         ![p].land = Landable(p),
         ![p].restated = @ + Cardinality({f \in Landable(p) : Holds(proc[p].heads, f.entity)})]
    /\ UNCHANGED <<today, canonical, completions, held, staged, derivations, vintages, overlapped>>

(* VintageAlreadyPromoted *)
Refuse(p) ==
    /\ proc[p].pc = "check"
    /\ Divergent(p)
    /\ proc' = [proc EXCEPT ![p] = Idle]
    /\ UNCHANGED <<today, canonical, completions, held, staged, derivations, vintages, overlapped>>

(* mutant: the hash covers what the store kept *)
DerivationsOfLanded(p) ==
    {[of |-> Doing(p), again |-> proc[p].again, keyed |-> Keyed(p), part |-> "records",
      hash |-> Records(Doing(p), Keyed(p)) \cap proc[p].land]}

(* derive(): a specification and the hash of what it computed *)
DerivationsOf(p) ==
    LET w == Doing(p)
        spec(part, figures) == [of |-> w, again |-> proc[p].again, keyed |-> Keyed(p),
                                part |-> part, hash |-> figures]
    IN  {spec("records", Records(w, Keyed(p)))}
        \cup IF Aggregates(w, Keyed(p)) \cap proc[p].land = {} THEN {}
             ELSE {spec("aggregate", Aggregates(w, Keyed(p)))}

SameSpec(d, e) == d.of = e.of /\ d.again = e.again /\ d.keyed = e.keyed /\ d.part = e.part

(* mutant: the vintage is the day after, as a clock east of UTC reads it *)
RowsOfTomorrow(p) ==
    {[entity |-> f.entity, month |-> MonthOf[Doing(p)], vintage |-> proc[p].day + 1,
      value |-> f.value, workbook |-> Doing(p)] : f \in proc[p].land}

RowsOf(p) ==
    {[entity |-> f.entity, month |-> MonthOf[Doing(p)], vintage |-> proc[p].day,
      value |-> f.value, workbook |-> Doing(p)] : f \in proc[p].land}

SameKey(r, s) == r.entity = s.entity /\ r.month = s.month /\ r.vintage = s.vintage

(* mutant: any figure that landed closes the collision *)
AnyLanded(p) == proc[p].land # {}

(* An aggregate that landed, or that the heads already disclose *)
Disclosed(p) ==
    \E f \in Aggregates(Doing(p), Keyed(p)) : f \in proc[p].land \/ f \in proc[p].heads

New(p)   == {c \in proc[p].seen : \A h \in held : h.row # c}
Open(p, m) == {c \in New(p) \cup {h.row : h \in {g \in held : g.released = 0}} : c.month = m}
Superseded(p) == IF Disclosed(p) THEN Open(p, MonthOf[Doing(p)]) ELSE {}

(* The rest of promote_manifest: the derivations are recorded, the rows    *)
(* appended and the collisions they resolve superseded.  A derivation, a   *)
(* primary key and an updated row stay locked until the transaction ends;  *)
(* a diverging hash or a key already taken ends it (Fail).                 *)
AppendCanonical(p) ==
    /\ proc[p].pc = "append"
    /\ \A q \in Others(p) :
          /\ \A d \in DerivationsOf(p), e \in proc[q].derived : ~SameSpec(d, e)
          /\ \A r \in RowsOf(p), s \in proc[q].rows : ~SameKey(r, s)
          /\ Superseded(p) \cap Touched(q) \subseteq New(p)
    /\ \A d \in DerivationsOf(p), e \in derivations : SameSpec(d, e) => d.hash = e.hash
    /\ \A r \in RowsOf(p), s \in canonical : ~SameKey(r, s)
    /\ proc' = [proc EXCEPT
         ![p].pc = IF proc[p].todo = {Doing(p)} THEN "counters" ELSE "stage",
         ![p].todo = @ \ {Doing(p)},
         ![p].promoted = @ \cup {Doing(p)},
         ![p].derived = @ \cup DerivationsOf(p),
         ![p].rows = @ \cup RowsOf(p),
         ![p].appended = @ + Cardinality(proc[p].land),
         ![p].completed = @ \cup {[pool |-> x, month |-> MonthOf[Doing(p)], vintage |-> proc[p].day] :
                                    x \in Completed(Doing(p), Keyed(p))},
         ![p].closed = @ \cup Superseded(p),
         ![p].heads = {}, ![p].land = {}]
    /\ UNCHANGED <<today, canonical, completions, held, staged, derivations, vintages, overlapped>>

(* record_vintage_day reads what the day has counted so far *)
ReadCounters(p) ==
    /\ proc[p].pc = "counters"
    /\ proc' = [proc EXCEPT ![p].pc = "vintage", ![p].counters = vintages[proc[p].day]]
    /\ UNCHANGED <<today, canonical, completions, held, staged, derivations, vintages, overlapped>>

(* mutant: the row reports the last run of the day *)
LastRun(p) ==
    IF proc[p].counters.opened /\ proc[p].appended = 0 THEN vintages
    ELSE [vintages EXCEPT ![proc[p].day] =
            [opened |-> TRUE, appended |-> proc[p].appended, restated |-> proc[p].restated,
             manifests |-> proc[p].promoted]]

(* A run that appended nothing leaves an existing row alone; any other     *)
(* upserts the sums (open_vintage).                                        *)
Counted(p) ==
    LET prior == proc[p].counters
    IN  IF prior.opened /\ proc[p].appended = 0 THEN vintages
        ELSE [vintages EXCEPT ![proc[p].day] =
                [opened |-> TRUE, appended |-> prior.appended + proc[p].appended,
                 restated |-> prior.restated + proc[p].restated,
                 manifests |-> prior.manifests \cup proc[p].promoted]]

Settled(p) ==
    {[h EXCEPT !.released = IF h.row \in proc[p].closed THEN proc[p].day ELSE @] :
        h \in held \cup {[row |-> c, first |-> proc[p].day, released |-> 0] : c \in New(p)}}

Commit(p) ==
    /\ proc[p].pc = "vintage"
    /\ canonical' = canonical \cup proc[p].rows
    /\ completions' = completions \cup proc[p].completed
    /\ held' = Settled(p)
    /\ staged' = staged \cup proc[p].loaded
    /\ derivations' = derivations \cup proc[p].derived
    /\ vintages' = Counted(p)
    /\ proc' = [proc EXCEPT ![p] = Idle]
    /\ UNCHANGED <<today, overlapped>>

(* A kill, a unique violation, a deadlock's victim: the server rolls back *)
Fail(p) ==
    /\ proc[p].pc # "idle"
    /\ proc' = [proc EXCEPT ![p] = Idle]
    /\ UNCHANGED <<today, canonical, completions, held, staged, derivations, vintages, overlapped>>

Midnight ==
    /\ today < MaxDay /\ today' = today + 1
    /\ UNCHANGED <<canonical, completions, held, staged, derivations, vintages, proc, overlapped>>

Next ==
    \/ Midnight
    \/ \E p \in Run :
          \/ OpenIngest(p) \/ OpenRepromote(p) \/ Fetch(p) \/ Stage(p) \/ Check(p) \/ Refuse(p)
          \/ AppendCanonical(p) \/ ReadCounters(p) \/ Commit(p) \/ Fail(p)

Spec == Init /\ [][Next]_vars

-----------------------------------------------------------------------------
(* select_production: the greatest vintage not after the as-of date.       *)

NoReport == [volume |-> 0, level |-> "none", summed |-> FALSE]

(* mutant: the as-of predicate is lost *)
LatestKnown(x, e, m) ==
    LET rows == {r \in canonical : r.entity = e /\ r.month = m}
    IN  IF rows = {} THEN NoReport ELSE (CHOOSE r \in Latest(rows) : TRUE).value

AsOf(x, e, m) ==
    LET rows == {r \in canonical : r.entity = e /\ r.month = m /\ r.vintage <= x}
    IN  IF rows = {} THEN NoReport ELSE (CHOOSE r \in Latest(rows) : TRUE).value

(* mutant: the query of before migration 024 *)
WithheldNow(x, m) == \E h \in held : h.row.month = m /\ h.released = 0

(* _MULTI_POOL_PENDING with _OPEN_AS_OF: the months a read as of x withholds *)
Withheld(x, m) == \E h \in held : h.row.month = m /\ (h.released = 0 \/ h.released > x)

(* A day no running promotion was opened on or before *)
Past(x) == x < today /\ \A p \in Run : proc[p].pc # "idle" => x < proc[p].day

(* Once a day is past, what is read as of it never changes again: a        *)
(* restatement is a new vintage, and a run stamps the day it was opened on *)
(* however late it commits (vintages.py, lineage_session).                 *)
PastNeverRestated ==
    [][\A x \in Day : Past(x) =>
          \A e \in Entity, m \in Month : AsOf(x, e, m)' = AsOf(x, e, m)]_vars

(* A month withheld as of a past day stays withheld as of that day, however *)
(* often its collision is resolved later (migration 024, "an as-of read    *)
(* before it still sees the row as open").                                 *)
WithholdingKept ==
    [][\A x \in Day, m \in Month : Past(x) /\ Withheld(x, m) => Withheld(x, m)']_vars

(* Of runs that never overlapped, two vintages of one figure that follow    *)
(* each other differ: an unchanged figure is never published as a          *)
(* restatement (unchanged_removed).                                        *)
ChangeOnly ==
    ~overlapped =>
        \A r, s \in canonical :
            (r.entity = s.entity /\ r.month = s.month /\ r.vintage < s.vintage /\ r.value = s.value)
            => \E t \in canonical : /\ t.entity = r.entity /\ t.month = r.month
                                    /\ r.vintage < t.vintage /\ t.vintage < s.vintage

AtDay(d) == {r \in canonical : r.vintage = d}

(* Of runs that never overlapped, the row of a vintage-day is the ledger of *)
(* that day: what it counts is what canonical holds at the vintage and how *)
(* much of it restates an earlier vintage (record_vintage_day, DR-78).     *)
LedgerOfTheDay ==
    ~overlapped =>
        \A d \in Day :
            /\ vintages[d].appended = Cardinality(AtDay(d))
            /\ vintages[d].restated =
                 Cardinality({r \in AtDay(d) : AsOf(d - 1, r.entity, r.month) # NoReport})
            /\ {r.workbook : r \in AtDay(d)} \subseteq vintages[d].manifests

(* A collision is closed only by a vintage that discloses the sum of its   *)
(* pools: as of the day it was released the well reads as an aggregate     *)
(* (supersede_pool_collisions, gate-a1b Defect A).                         *)
ClosedIsDisclosed ==
    ~overlapped =>
        \A h \in held : h.released # 0 => AsOf(h.released, Well, h.row.month).summed

(* A figure that was served on a date is not withheld as of that date by a  *)
(* collision first seen later: "An as-of read from before that time has to *)
(* see it the way that date saw it, or the replay manufactures a fact"     *)
(* (api/routers/production.py).                                            *)
WithheldIsKnown ==
    \A x \in Day, m \in Month :
        (Withheld(x, m) /\ AsOf(x, Well, m) # NoReport) =>
            \E h \in held : h.row.month = m /\ h.first <= x

(* A repeated promotion computes what its derivation recorded, whatever     *)
(* canonical held in between: the determinism detector never fires on it   *)
(* (promote_manifest, reconcile).                                          *)
Deterministic ==
    \A p \in Run : proc[p].pc = "append" =>
        \A d \in DerivationsOf(p), e \in derivations : SameSpec(d, e) => d.hash = e.hash

-----------------------------------------------------------------------------
(* The history these transactions implement.                               *)

ReportOf(S, keyed) ==
    LET figures(w) == Records(w, keyed) \cup Aggregates(w, keyed)
    IN  [fact \in UNION {{<<f.entity, MonthOf[w]>> : f \in figures(w)} : w \in S} |->
            (CHOOSE f \in UNION {figures(w) : w \in {v \in S : MonthOf[v] = fact[2]}} :
                f.entity = fact[1]).value]

OnePerMonth == {S \in SUBSET Workbook : \A v, w \in S : MonthOf[v] = MonthOf[w] => v = w}

History == INSTANCE ProductionHistory WITH
    Fact    <- Entity \X Month,
    Unknown <- NoReport,
    Reports <- {ReportOf(S, keyed) : S \in OnePerMonth, keyed \in BOOLEAN},
    opened  <- [p \in Run |-> proc[p].day],
    alone   <- ~overlapped,
    served  <- [x \in Day |-> [fact \in Entity \X Month |-> AsOf(x, fact[1], fact[2])]]

(* As-of reads behave as the abstract history: a promotion that never met   *)
(* another replaces exactly what its workbooks report from its day on.     *)
ImplementsHistory == History!HistorySpec
=============================================================================
