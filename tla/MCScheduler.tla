----------------------------- MODULE MCScheduler -----------------------------
(* Small registries for the runs of Scheduler, cut from the seeded one.    *)
EXTENDS Scheduler, TLC

CONSTANTS gis, wells, tiles, prune, counts, header

Row(kind, trigger, sourceIds, edges) ==
    [kind |-> kind, trigger |-> trigger, monthly |-> FALSE, interval |-> 1,
     sources |-> sourceIds, edges |-> edges, mode |-> "launch", enabled |-> TRUE,
     timeout |-> 2]

On(parent, event) == [parent |-> parent, on |-> event]

MCJob == {gis, wells, tiles, prune, counts}
MCRank == (gis :> 1) @@ (wells :> 2) @@ (tiles :> 3) @@ (prune :> 4) @@ (counts :> 5)
MCSource == {header}
MCSourceInterval == (header :> 2)
HourlySource == (header :> 1)
MayFail == [j \in MCJob |-> {"ok", "bad"}]
AllSucceed == [j \in MCJob |-> {"ok"}]

Ingest == Row("ingest", "cadence", {header}, {})
Wells  == Row("mart", "after_dependency", {}, {On(gis, "changed")})

(* an ingest on its source's interval, a mart that reacts to a changed fetch *)
PairRegistry == (gis :> Ingest) @@ (wells :> Wells)

(* and a mart that waits on a changed mart, as the seeded co_counts waits   *)
(* on co_tiles                                                             *)
ChangedMartRegistry ==
    (gis :> Ingest) @@ (wells :> Wells) @@
    (tiles :> Row("mart", "after_dependency", {}, {On(wells, "changed")}))

(* a job an installed timer runs, a mart that reacts to its changes and to  *)
(* what is run by hand, an observed monthly job, and one whose interval is *)
(* due but whose entry point is missing                                    *)
MixedRegistry ==
    (gis    :> [Row("ingest", "external_timer", {header}, {}) EXCEPT !.mode = "observe"]) @@
    (wells  :> [Wells EXCEPT !.edges = @ \cup {On(prune, "completed")}]) @@
    (tiles  :> [Row("mart", "cadence", {}, {}) EXCEPT !.monthly = TRUE, !.mode = "observe"]) @@
    (prune  :> Row("maintenance", "manual", {}, {})) @@
    (counts :> Row("mart", "cadence", {}, {}))

(* each of these kinds once at most, together *)
Once(kinds) == [kind \in FaultKind |-> IF kind \in kinds THEN 1 ELSE 0]

Faultless == {}
OneDeath  == {Once({"crash"}), Once({"reboot"})}
Unheard   == {Once({"crash"}), Once({"crash", "silence"})}
(* silence needs a row somebody left open *)
AnyFault  == OneDeath \cup Unheard \cup {Once({"connection"})}

ProcSymmetry == Permutations(Proc)
=============================================================================
