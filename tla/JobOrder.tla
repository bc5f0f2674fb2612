------------------------------- MODULE JobOrder -------------------------------
(***************************************************************************)
(* The dependency edges of the schedule registry, lineage.job_dependencies, *)
(* which migrations and seeds only ever add to, and the order a tick makes *)
(* of whatever they say (order_jobs of scheduler/plan.py, SchedulePlan).   *)
(***************************************************************************)
EXTENDS SchedulePlan

VARIABLE registry  \* the edges of every job

OrderInit == registry = [j \in Job |-> [edges |-> {}]]

(* A row of job_dependencies: no job waits on itself, nor twice on another *)
AddEdge(j, parent) ==
    /\ parent # j /\ parent \notin Parents(j, registry)
    /\ registry' = [registry EXCEPT ![j].edges =
                      @ \cup {[parent |-> parent, on |-> "completed"]}]

OrderNext == \E j, parent \in Job : AddEdge(j, parent)

OrderSpec == OrderInit /\ [][OrderNext]_registry

-----------------------------------------------------------------------------
(* A job the tick orders comes strictly after every parent it waits on, so  *)
(* a parent due in the same tick runs first (plan.py, order_jobs).         *)
ParentsFirst ==
    \A j \in Orderable(registry) : \A parent \in Parents(j, registry) :
        Round(parent, registry) < Round(j, registry)

(* The jobs above each: what every set with its parents and their parents   *)
(* holds                                                                   *)
Upstream ==
    LET closed == {S \in SUBSET Job : \A i \in S : Parents(i, registry) \subseteq S}
    IN  [j \in Job |->
            {up \in Job : \A S \in closed : Parents(j, registry) \subseteq S => up \in S}]

(* A cycle refuses its members, and does not cost the tick the jobs that no *)
(* cycle is above: each of them is ordered and still runs (plan.py,        *)
(* order_jobs).  It says nothing of a job below a cycle without being in   *)
(* one: plan.py's docstring has it run, its code refuses it.               *)
CycleFreeRuns ==
    LET upstream == Upstream
        cyclic   == {j \in Job : j \in upstream[j]}
    IN  /\ Orderable(registry) \cap cyclic = {}
        /\ {j \in Job : upstream[j] \cap cyclic = {}} \subseteq Orderable(registry)
=============================================================================
