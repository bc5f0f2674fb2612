------------------------------- MODULE PadGroups -------------------------------
(***************************************************************************)
(* The leakage guard of modeling/split.py: wells are joined into pads, and  *)
(* a temporal split puts every pad whole into one partition.  A projected  *)
(* well is compared only with the wells already filed in its own cell of a *)
(* grid and the eight around it; the others are joined by spacing unit.    *)
(***************************************************************************)
EXTENDS Integers, FiniteSets, FiniteSetsExt

CONSTANTS
    Population,           \* populations: [place, unit, completion, first] by api10
    NoPlace, NoUnit,
    Radius, Window,       \* PAD_RADIUS_M, PAD_WINDOW_DAYS
    HalfYear,             \* days in a half year
    Calibration, Boundary,
    MaxMembers            \* PAD_GROUP_MAX_SHARE of the population

ASSUME PadAssumption ==
    /\ {Radius, HalfYear, MaxMembers} \subseteq Nat \ {0}
    /\ Window \in Nat /\ {Calibration, Boundary} \subseteq Int

(* Projected metres, and dates as ordinals *)
ASSUME PopulationAssumption ==
    \A wells \in Population :
        /\ IsFiniteSet(DOMAIN wells) /\ DOMAIN wells \subseteq Nat
        /\ \A w \in DOMAIN wells :
              /\ wells[w].place # NoPlace => {wells[w].place.x, wells[w].place.y} \subseteq Int
              /\ {wells[w].completion, wells[w].first} \subseteq Nat

VARIABLES
    wells,      \* the population of the split
    cells,      \* the wells filed in the grid so far
    root,       \* find of the disjoint set
    partition   \* of each well; "none" before, "refused" for a chained pad

padVars == <<wells, cells, root, partition>>

Api == DOMAIN wells
Everywhere(p) == [w \in DOMAIN wells |-> p]

PadInit ==
    /\ wells \in Population
    /\ cells = {}
    /\ root = [w \in DOMAIN wells |-> w]
    /\ partition = Everywhere("none")

-----------------------------------------------------------------------------
Projected == {w \in Api : wells[w].place # NoPlace}

Cell(w) == [x |-> wells[w].place.x \div Radius, y |-> wells[w].place.y \div Radius]

(* mutant: the cells behind are left to the other well of a pair *)
Ahead == {0, 1}

Offset == {-1, 0, 1}

(* The loop over the neighbouring cells *)
Beside(v, w) ==
    \E dx, dy \in Offset : Cell(v) = [x |-> Cell(w).x + dx, y |-> Cell(w).y + dy]

Apart(a, b) == IF a < b THEN b - a ELSE a - b

SamePad(v, w) ==
    LET dx == wells[v].place.x - wells[w].place.x
        dy == wells[v].place.y - wells[w].place.y
    IN  /\ dx * dx + dy * dy <= Radius * Radius
        /\ Apart(wells[v].completion, wells[w].completion) <= Window

(* _DisjointSet.union of all of S: the lowest root wins *)
United(S) ==
    LET met == {root[v] : v \in S}
    IN  [v \in Api |-> IF root[v] \in met THEN Min(met) ELSE root[v]]

(* One turn of the loop of build_pad_groups over the projected wells *)
Place ==
    /\ cells # Projected
    /\ LET w == Min(Projected \ cells)
       IN  /\ root' = United({w} \cup {v \in cells : Beside(v, w) /\ SamePad(v, w)})
           /\ cells' = cells \cup {w}
    /\ UNCHANGED <<wells, partition>>

(* The unprojected wells of one spacing unit and half year *)
Fallback(w) ==
    {v \in Api \ Projected : /\ wells[v].unit = wells[w].unit
                             /\ wells[v].completion \div HalfYear
                                  = wells[w].completion \div HalfYear}

Group(pads, w) == {v \in Api : pads[v] = pads[w]}

PartitionAt(month) ==
    IF month < Calibration THEN "train" ELSE IF month < Boundary THEN "cal" ELSE "test"

(* _median_date: at(i) is the i-th of the first months in order *)
Median(members) ==
    LET n        == Cardinality(members)
        first(i) == {t \in {wells[v].first : v \in members} :
                        i <= Cardinality({v \in members : wells[v].first <= t})}
        at(i)    == Min(first(i))
        middle   == n \div 2 + 1
    IN  IF n % 2 = 1 THEN at(middle) ELSE (at(middle - 1) + at(middle)) \div 2

(* mutant: each well by its own first month *)
OwnPartition(pads, w) == PartitionAt(wells[w].first)

GroupPartition(pads, w) == PartitionAt(Median(Group(pads, w)))

(* The rest of build_pad_groups and build_temporal_split *)
Assign ==
    /\ cells = Projected /\ partition = Everywhere("none")
    /\ LET pads == [w \in Api |-> IF w \in Projected \/ wells[w].unit = NoUnit THEN root[w]
                                  ELSE Min(Fallback(w))]
       IN  /\ root' = pads
           /\ partition' = IF \E w \in Api : Cardinality(Group(pads, w)) > MaxMembers
                           THEN Everywhere("refused")
                           ELSE [w \in Api |-> GroupPartition(pads, w)]
    /\ UNCHANGED <<wells, cells>>

PadSpec == PadInit /\ [][Place \/ Assign]_padVars

-----------------------------------------------------------------------------
(* Two wells belong together, grid or no grid *)
Linked(v, w) ==
    IF {v, w} \subseteq Projected THEN SamePad(v, w)
    ELSE /\ v \notin Projected /\ w \notin Projected
         /\ wells[v].unit = wells[w].unit /\ wells[v].unit # NoUnit
         /\ w \in Fallback(v)

(* The sets of wells nobody outside belongs to *)
Closed ==
    LET beside == [x \in Api |-> {y \in Api : Linked(x, y)}]
    IN  {S \in SUBSET Api : \A x \in S : beside[x] \subseteq S}

(* The pads are exactly the wells that chain by distance and date, or by    *)
(* unit and half year: the grid misses no pair (split.py, build_pad_groups). *)
PadsAreComponents ==
    partition # Everywhere("none") =>
        LET closed == Closed IN
        \A v, w \in Api :
            root[v] = root[w] <=> \A S \in closed : v \in S => w \in S

(* Wells that belong together are never on both sides of the holdout, and   *)
(* the side is one the pad's own members span (split.py,                   *)
(* build_temporal_split).                                                  *)
PadsUnsplit ==
    \A v \in Api : partition[v] \in {"train", "cal", "test"} =>
        /\ \A w \in Api : Linked(v, w) => partition[w] = partition[v]
        /\ partition[v] = "train" => \E w \in Group(root, v) : wells[w].first < Calibration
        /\ partition[v] = "test"  => \E w \in Group(root, v) : wells[w].first >= Boundary
=============================================================================
