----------------------------- MODULE Marts_proofs -----------------------------
(* What the allocation of a lease-month and the pads of a split keep, for   *)
(* every number of wells, every volume and every place.                    *)
EXTENDS Allocation, PadGroups, Extrema

(* A month is built from what was filed, and once. *)
Allotted ==
    /\ filing \in Filing
    /\ shares # Unbuilt =>
          /\ Eligible(filing.wells) # {} /\ cause = "none"
          /\ shares = Allocated(filing.wells, filing.volume, filing.gas)
    /\ cause # "none" => Eligible(filing.wells) = {} /\ cause = CauseOf(filing.wells)

LEMMA AllottedInvariant == AllocationSpec => []Allotted
<1>1. AllocationInit => Allotted
  BY DEF AllocationInit, Allotted
<1>2. Allotted /\ [BuildRow]_allocationVars => Allotted'
  BY DEF Allotted, BuildRow, allocationVars
<1> QED BY <1>1, <1>2, PTL DEF AllocationSpec

(* A lease-month nobody carries is filed under a cause that is true of      *)
(* every one of its wells (tx_allocation.py, CAUSES).                      *)
THEOREM CausesAreTrue == AllocationSpec => []CauseTrue
<1>1. Allotted => CauseTrue
  <2> SUFFICES ASSUME Allotted, Built PROVE CauseTrue
    BY DEF CauseTrue
  <2> DEFINE listed == filing.wells
  <2>1. CASE cause = "none"
    BY <2>1 DEF Built, Allotted, CauseTrue
  <2>2. CASE cause # "none"
    <3>1. Eligible(listed) = {} /\ cause = CauseOf(listed)
      BY <2>2 DEF Allotted
    <3>2. \A w \in DOMAIN listed : listed[w].completion \in Nat /\ listed[w].plug \in Nat /\ Month \in Nat
      BY FilingAssumption, AllocationAssumption DEF Allotted
    <3>3. \A w \in DOMAIN listed : CompletedAfter(listed[w]) \/ PluggedBefore(listed[w])
      BY <3>1 DEF Eligible
    <3> HIDE DEF listed
    <3>4. CASE DOMAIN listed = {}
      BY <3>1, <3>4 DEF CauseOf, CauseTrue, listed
    <3>5. CASE DOMAIN listed # {} /\ \A w \in DOMAIN listed : CompletedAfter(listed[w])
      BY <3>1, <3>5 DEF CauseOf, CauseTrue, CompletedAfter, listed
    <3>6. CASE DOMAIN listed # {} /\ \E w \in DOMAIN listed : ~CompletedAfter(listed[w])
      <4>1. CASE \A w \in DOMAIN listed : PluggedBefore(listed[w])
        <5>1. cause = "all_wells_plugged_before_month"
          BY <3>1, <3>6, <4>1 DEF CauseOf
        <5>2. \A w \in DOMAIN listed : listed[w].plug < Month
          BY <3>2, <4>1 DEF PluggedBefore
        <5> QED BY <5>1, <5>2 DEF CauseTrue, listed
      <4>2. CASE ~ \A w \in DOMAIN listed : PluggedBefore(listed[w])
        <5>1. cause = "no_eligible_well"
          BY <3>1, <3>6, <4>2 DEF CauseOf
        <5>2. \E w \in DOMAIN listed : listed[w].completion > Month
          BY <3>3, <4>2 DEF CompletedAfter
        <5>3. \E w \in DOMAIN listed : listed[w].completion <= Month
          BY <3>2, <3>6 DEF CompletedAfter
        <5> QED BY <5>1, <5>2, <5>3 DEF CauseTrue, listed
      <4> QED BY <4>1, <4>2
    <3> QED BY <3>4, <3>5, <3>6
  <2> QED BY <2>1, <2>2
<1> QED BY <1>1, AllottedInvariant, PTL

-----------------------------------------------------------------------------
(* The shares                                                              *)

(* A volume splits into a whole number of barrels for each well and a rest  *)
(* of the same sign.                                                       *)
LEMMA SplitBack ==
    ASSUME NEW volume \in Int, NEW count \in Nat \ {0}
    PROVE  LET split == Split(volume, count)
           IN  /\ split.base \in Int /\ split.rest \in Int
               /\ count * split.base + split.rest = volume
               /\ volume >= 0 => split.base >= 0 /\ split.rest >= 0
               /\ volume < 0 => split.base <= 0 /\ split.rest <= 0
<1> DEFINE sign == Sign(volume)
           size == sign * volume
           q == size \div (count * Parts)
           base == Whole(size, count)
<1>1. sign \in {-1, 1} /\ size \in Nat /\ sign * size = volume /\ (volume >= 0 <=> sign = 1)
  BY DEF Sign
<1>2. Split(volume, count) = [base |-> sign * base, rest |-> volume - sign * count * base]
  BY DEF Split
<1>3. Parts \in Nat \ {0} /\ count * Parts \in Nat \ {0}
  BY AllocationAssumption
<1> HIDE DEF sign, size
<1>4. q \in Nat /\ (count * Parts) * q <= size
  BY <1>1, <1>3
<1>5. base = q * Parts
  BY DEF Whole
<1> HIDE DEF q
<1>6. count * (q * Parts) = (count * Parts) * q /\ q * Parts \in Nat
  BY <1>3, <1>4
<1>7. base \in Nat /\ count * base \in Nat /\ count * base <= size
  BY <1>4, <1>5, <1>6
<1> HIDE DEF base
<1>8. CASE sign = 1
  <2>1. sign * base = base /\ sign * count * base = count * base /\ size = volume /\ volume >= 0
    BY <1>1, <1>7, <1>8
  <2> QED BY <1>2, <1>7, <2>1
<1>9. CASE sign = -1
  <2>1. /\ sign * base = -base /\ sign * count * base = -(count * base) /\ volume = -size
        /\ count * (-base) = -(count * base) /\ ~(volume >= 0)
    BY <1>1, <1>7, <1>9
  <2> QED BY <1>1, <1>2, <1>7, <2>1
<1> QED BY <1>1, <1>8, <1>9

LEMMA EligibleWells ==
    ASSUME Allotted, Eligible(filing.wells) # {}
    PROVE  LET eligible == Eligible(filing.wells)
           IN  /\ IsFiniteSet(DOMAIN filing.wells) /\ filing.volume \in Int
               /\ eligible \subseteq DOMAIN filing.wells /\ IsFiniteSet(eligible)
               /\ Cardinality(eligible) \in Nat \ {0} /\ Min(eligible) \in eligible
               /\ Cardinality(eligible) = 1 => eligible = {Min(eligible)}
<1> DEFINE eligible == Eligible(filing.wells)
<1>1. /\ IsFiniteSet(DOMAIN filing.wells) /\ filing.volume \in Int
      /\ DOMAIN filing.wells \subseteq Nat
  BY FilingAssumption DEF Allotted
<1>2. eligible \subseteq DOMAIN filing.wells
  BY DEF Eligible
<1> HIDE DEF eligible
<1>3. IsFiniteSet(eligible) /\ eligible # {}
  BY <1>1, <1>2, FS_Subset DEF eligible
<1>4. Cardinality(eligible) \in Nat \ {0}
  BY <1>3, FS_CardinalityType, FS_EmptySet
<1>5. Min(eligible) \in eligible
  BY <1>1, <1>2, <1>3, LeastNatural DEF Min
<1>6. Cardinality(eligible) = 1 => eligible = {Min(eligible)}
  <2> SUFFICES ASSUME Cardinality(eligible) = 1 PROVE eligible = {Min(eligible)}
    OBVIOUS
  <2>1. \E x : eligible = {x}
    BY <1>3, FS_Singleton
  <2> QED BY <1>5, <2>1
<1> QED BY <1>1, <1>2, <1>3, <1>4, <1>5, <1>6 DEF eligible

(* What each well of a built month has *)
LEMMA ShareOfWell ==
    ASSUME Allotted, shares # Unbuilt
    PROVE  LET eligible == Eligible(filing.wells)
               count    == Cardinality(eligible)
               split    == Split(filing.volume, count)
           IN  /\ DOMAIN shares = DOMAIN filing.wells
               /\ \A w \in DOMAIN shares :
                     /\ shares[w].volume =
                          IF w \notin eligible THEN 0
                          ELSE IF count = 1 THEN filing.volume
                          ELSE split.base + IF w = Min(eligible) THEN split.rest ELSE 0
                     /\ shares[w].class =
                          ClassFor(filing.wells[w], w \in eligible, count, filing.gas)
<1>1. shares = Allocated(filing.wells, filing.volume, filing.gas)
  BY DEF Allotted
<1> QED BY <1>1 DEF Allocated

(* The shares of a lease-month are the volume to the last fraction, a       *)
(* correction takes no well the other way, and only the well of the lowest *)
(* api10 takes more than another (v0.py, allocate_lease_month).            *)
THEOREM VolumesAreConserved == AllocationSpec => []Conserved
<1>1. Allotted => Conserved
  <2> SUFFICES ASSUME Allotted, shares # Unbuilt PROVE Conserved
    BY DEF Conserved
  <2> DEFINE eligible == Eligible(filing.wells)
             count == Cardinality(eligible)
             volume == filing.volume
             split == Split(volume, count)
             lowest == Min(eligible)
             D == DOMAIN shares
             f == [w \in D |-> shares[w].volume]
  <2>1. Eligible(filing.wells) # {}
    BY DEF Allotted
  <2>2. /\ IsFiniteSet(D) /\ volume \in Int /\ eligible \subseteq D /\ IsFiniteSet(eligible)
        /\ count \in Nat \ {0} /\ lowest \in eligible
        /\ count = 1 => eligible = {lowest}
    BY <2>1, EligibleWells, ShareOfWell
  <2>3. \A w \in D : f[w] = IF w \notin eligible THEN 0
                            ELSE IF count = 1 THEN volume
                            ELSE split.base + IF w = lowest THEN split.rest ELSE 0
    BY ShareOfWell
  <2>4. /\ split.base \in Int /\ split.rest \in Int
        /\ count * split.base + split.rest = volume
        /\ volume >= 0 => split.base >= 0 /\ split.rest >= 0
        /\ volume < 0 => split.base <= 0 /\ split.rest <= 0
    BY <2>2, SplitBack
  <2>5. \A w \in D : shares[w].volume = f[w]
    OBVIOUS
  <2>6. FoldFunction(+, 0, f) = SumOver(f, D)
    BY DEF FoldFunction, SumOver
  <2> HIDE DEF split, lowest, D, f, count
  <2>7. \A w \in D : f[w] \in Int
    BY <2>2, <2>3, <2>4
  <2>8. SumOver(f, D) = SumOver(f, eligible)
    <3> HIDE DEF eligible
    <3> DEFINE rest == D \ eligible
    <3>1. IsFiniteSet(rest) /\ \A w \in rest : f[w] = 0
      BY <2>2, <2>3, FS_Subset
    <3>2. Cardinality(rest) \in Nat
      BY <3>1, FS_CardinalityType
    <3>3. SumOver(f, rest) = 0 * Cardinality(rest)
      <4> HIDE DEF rest
      <4> QED BY <3>1, SumOfConstant
    <3>4. SumOver(f, D) = SumOver(f, eligible) + SumOver(f, rest)
      BY <2>2, <2>7, SumSplit
    <3>5. SumOver(f, eligible) \in Int
      BY <2>2, <2>7, SumType
    <3> HIDE DEF rest
    <3> QED BY <3>2, <3>3, <3>4, <3>5
  <2>9. SumOver(f, eligible) = volume
    <3> HIDE DEF eligible
    <3> DEFINE others == eligible \ {lowest}
    <3>1. SumOver(f, eligible) = f[lowest] + SumOver(f, others)
      BY <2>2, <2>7, SumRemove
    <3>2. CASE count = 1
      <4>1. SumOver(f, others) = 0 /\ f[lowest] = volume
        BY <2>2, <2>3, <3>2, SumOfNone
      <4> QED BY <3>1, <4>1, <2>2
    <3>3. CASE count # 1
      <4>1. IsFiniteSet(others) /\ Cardinality(others) = count - 1
        BY <2>2, FS_RemoveElement DEF count
      <4>2. \A w \in others : f[w] = split.base + 0
        BY <2>2, <2>3, <3>3
      <4>3. \A w \in others : f[w] = split.base
        BY <2>4, <4>2
      <4>4. SumOver(f, others) = split.base * Cardinality(others)
        <5> HIDE DEF others
        <5> QED BY <2>4, <4>1, <4>3, SumOfConstant
      <4>5. f[lowest] = split.base + split.rest
        BY <2>2, <2>3, <3>3
      <4> DEFINE b == split.base
                 r == split.rest
      <4>6. b * (count - 1) = count * b - b
        BY <2>2, <2>4
      <4> HIDE DEF others, b, r
      <4>7. SumOver(f, eligible) = (b + r) + (count * b - b)
        BY <3>1, <4>1, <4>4, <4>5, <4>6 DEF b, r
      <4>8. b \in Int /\ r \in Int /\ count * b \in Int /\ count * b + r = volume
        BY <2>2, <2>4 DEF b, r
      <4> QED BY <4>7, <4>8
    <3> QED BY <3>2, <3>3
  <2>10. ASSUME NEW w \in D PROVE f[w] * volume >= 0
    <3>1. (volume >= 0 /\ f[w] >= 0) \/ (volume < 0 /\ f[w] <= 0)
      <4> HIDE DEF volume, eligible
      <4> QED BY <2>2, <2>3, <2>4
    <3>2. \A a, b \in Int : (b >= 0 /\ a >= 0) \/ (b < 0 /\ a <= 0) => a * b >= 0
      OBVIOUS
    <3> QED BY <2>2, <2>7, <3>1, <3>2
  <2>11. \A v, w \in eligible \ {lowest} : f[v] = f[w]
    BY <2>2, <2>3
  <2> HIDE DEF volume
  <2>12. /\ FoldFunction(+, 0, f) = volume
         /\ \A w \in D : shares[w].volume * volume >= 0 /\ (w \notin eligible => shares[w].volume = 0)
         /\ \A v, w \in eligible \ {lowest} : shares[v].volume = shares[w].volume
    BY <2>2, <2>3, <2>5, <2>6, <2>8, <2>9, <2>10, <2>11
  <2> QED BY <2>12 DEF Conserved, f, D, lowest, volume
<1> QED BY <1>1, AllottedInvariant, PTL

(* What is served as observed at the well is the whole volume its lease     *)
(* filed, and nobody else has a share of it (v0.py, _class_for).           *)
THEOREM ObservedIsTheWhole == AllocationSpec => []ObservedIsWhole
<1>1. Allotted => ObservedIsWhole
  <2> SUFFICES ASSUME Allotted, NEW w \in DOMAIN shares,
                      shares[w].class \in {"observed_gas_well", "observed_single_well_lease"}
               PROVE  /\ shares[w].volume = filing.volume
                      /\ \A v \in Eligible(filing.wells) : v = w
    BY DEF ObservedIsWhole
  <2> DEFINE eligible == Eligible(filing.wells)
             count == Cardinality(eligible)
  <2>1. shares # Unbuilt
    BY DEF Unbuilt
  <2>2. eligible # {}
    BY <2>1 DEF Allotted
  <2>3. shares[w].class = ClassFor(filing.wells[w], w \in eligible, count, filing.gas)
    BY <2>1, ShareOfWell
  <2>4. w \in eligible /\ count = 1
    <3> HIDE DEF eligible, count
    <3>1. CASE w \notin eligible
      BY <2>3, <3>1 DEF ClassFor
    <3>2. CASE w \in eligible /\ count # 1
      <4>1. shares[w].class \in {"allocated_after_status_change", "allocated_equal_share"}
        BY <2>3, <3>2 DEF ClassFor, PassesVolume
      <4> QED BY <4>1
    <3> QED BY <3>1, <3>2
  <2>5. eligible = {Min(eligible)}
    BY <2>2, <2>4, EligibleWells
  <2>6. shares[w].volume = filing.volume
    BY <2>1, <2>4, ShareOfWell
  <2> HIDE DEF eligible
  <2> QED BY <2>4, <2>5, <2>6 DEF eligible
<1> QED BY <1>1, AllottedInvariant, PTL

-----------------------------------------------------------------------------
(* The pads                                                                *)

(* Dividing by the radius moves two coordinates no further apart than one   *)
(* cell when they are within the radius of each other.                     *)
LEMMA WithinTheRadius ==
    ASSUME NEW a \in Int, NEW b \in Int, NEW R \in Nat \ {0}, NEW d \in Int,
           d = a - b, NEW e \in Int, d * d + e * e <= R * R
    PROVE  (a \div R) - (b \div R) \in {-1, 0, 1}
<1>1. d <= R /\ -R <= d
  BY SMT
<1>2. a - b <= R /\ b - a <= R
  BY <1>1
<1>3. (a \div R) - (b \div R) <= 1
  BY <1>2
<1>4. (b \div R) - (a \div R) <= 1
  BY <1>2
<1>5. a \div R \in Int /\ b \div R \in Int
  BY SMT
<1> HIDE <1>1, <1>2
<1> QED BY <1>3, <1>4, <1>5

(* So the grid compares every pair that is near enough. *)
LEMMA NearIsBeside ==
    ASSUME wells \in Population, NEW v \in Projected, NEW w \in Projected, SamePad(v, w)
    PROVE  Beside(v, w)
<1> DEFINE vx == wells[v].place.x
           vy == wells[v].place.y
           wx == wells[w].place.x
           wy == wells[w].place.y
           i == (vx \div Radius) - (wx \div Radius)
           j == (vy \div Radius) - (wy \div Radius)
           d == vx - wx
           e == vy - wy
<1>1. vx \in Int /\ vy \in Int /\ wx \in Int /\ wy \in Int /\ Radius \in Nat \ {0}
  BY PopulationAssumption, PadAssumption DEF Projected, Api
<1>2. d * d + e * e <= Radius * Radius
  BY DEF SamePad
<1>3. /\ Cell(v) = [x |-> vx \div Radius, y |-> vy \div Radius]
      /\ Cell(w) = [x |-> wx \div Radius, y |-> wy \div Radius]
  BY DEF Cell
<1> HIDE DEF vx, vy, wx, wy
<1>4. d \in Int /\ e \in Int /\ e * e + d * d <= Radius * Radius
  <2>1. d \in Int /\ e \in Int
    BY <1>1
  <2> HIDE DEF d, e
  <2>2. d * d \in Int /\ e * e \in Int
    BY <2>1
  <2> QED BY <2>1, <2>2, <1>2
<1>5. i \in Offset /\ j \in Offset
  BY <1>1, <1>2, <1>4, WithinTheRadius DEF Offset
<1>6. vx \div Radius = (wx \div Radius) + i /\ vy \div Radius = (wy \div Radius) + j
  BY <1>1
<1> HIDE DEF i, j
<1>7. Cell(v) = [x |-> Cell(w).x + i, y |-> Cell(w).y + j]
  BY <1>3, <1>6
<1> QED BY <1>5, <1>7 DEF Beside

LEMMA NearBothWays ==
    ASSUME wells \in Population, NEW v \in Projected, NEW w \in Projected, SamePad(v, w)
    PROVE  SamePad(w, v)
<1> DEFINE dx == wells[v].place.x - wells[w].place.x
           dy == wells[v].place.y - wells[w].place.y
           ex == wells[w].place.x - wells[v].place.x
           ey == wells[w].place.y - wells[v].place.y
<1>1. /\ wells[v].place.x \in Int /\ wells[v].place.y \in Int
      /\ wells[w].place.x \in Int /\ wells[w].place.y \in Int
      /\ wells[v].completion \in Nat /\ wells[w].completion \in Nat
  BY PopulationAssumption DEF Projected, Api
<1>2. dx * dx + dy * dy <= Radius * Radius /\ Apart(wells[v].completion, wells[w].completion) <= Window
  BY DEF SamePad
<1>3. ex = -dx /\ ey = -dy /\ dx \in Int /\ dy \in Int
  BY <1>1
<1>4. Apart(wells[w].completion, wells[v].completion) <= Window
  BY <1>1, <1>2 DEF Apart
<1>5. ex * ex = dx * dx /\ ey * ey = dy * dy
  <2>1. \A a \in Int : (-a) * (-a) = a * a
    OBVIOUS
  <2> HIDE DEF dx, dy, ex, ey
  <2> QED BY <1>3, <2>1
<1>6. ex * ex + ey * ey <= Radius * Radius
  BY <1>2, <1>5
<1> QED BY <1>4, <1>6 DEF SamePad

(* A position among the first months of a group is the first month of one   *)
(* of its wells.                                                           *)
LEMMA FirstInOrder ==
    ASSUME wells \in Population, NEW members \in SUBSET Api, members # {},
           NEW i \in Int, i <= Cardinality(members)
    PROVE  LET firsts == {wells[v].first : v \in members}
           IN  Min({t \in firsts : i <= Cardinality({v \in members : wells[v].first <= t})}) \in firsts
<1> DEFINE firsts == {wells[v].first : v \in members}
           below(t) == {v \in members : wells[v].first <= t}
           T == {t \in firsts : i <= Cardinality(below(t))}
<1>1. firsts \subseteq Nat /\ firsts # {} /\ IsFiniteSet(members)
  BY PopulationAssumption, FS_Subset DEF Api
<1>2. IsFiniteSet(firsts)
  <2> DEFINE f == [v \in members |-> wells[v].first]
  <2>1. f \in Surjection(members, firsts)
    BY DEF Surjection
  <2> HIDE DEF f, firsts
  <2> QED BY <2>1, <1>1, FS_Surjection
<1>3. PICK t \in firsts : \A u \in firsts : u <= t
  <2> HIDE DEF firsts
  <2> QED BY <1>1, <1>2, GreatestOfFinite
<1>4. below(t) = members
  BY <1>3
<1>5. t \in T
  BY <1>3, <1>4
<1>6. T \in SUBSET Nat /\ T # {}
  <2> HIDE DEF below, firsts
  <2> QED BY <1>1, <1>5
<1>7. Min(T) \in T
  <2> HIDE DEF T
  <2> QED BY <1>6, LeastNatural DEF Min
<1>8. T \subseteq firsts
  OBVIOUS
<1> QED BY <1>7, <1>8

(* The side of a pad is one its own wells reach. *)
LEMMA MedianWithin ==
    ASSUME wells \in Population, NEW members \in SUBSET Api, members # {}
    PROVE  /\ Median(members) < Calibration => \E w \in members : wells[w].first < Calibration
           /\ Median(members) >= Boundary => \E w \in members : wells[w].first >= Boundary
           /\ Median(members) \in Int
<1> DEFINE n == Cardinality(members)
           firsts == {wells[v].first : v \in members}
           at(i) == Min({t \in firsts : i <= Cardinality({v \in members : wells[v].first <= t})})
           middle == n \div 2 + 1
<1>1. /\ firsts \subseteq Nat /\ IsFiniteSet(members) /\ n \in Nat \ {0}
      /\ Calibration \in Int /\ Boundary \in Int
  <2>1. IsFiniteSet(members) /\ firsts \subseteq Nat
    BY PopulationAssumption, FS_Subset DEF Api
  <2>2. n \in Nat /\ n # 0
    BY <2>1, FS_CardinalityType, FS_EmptySet
  <2> QED BY <2>1, <2>2, PadAssumption
<1>2. \A i \in Int : i <= n => at(i) \in firsts
  BY FirstInOrder
<1>3. Median(members) = IF n % 2 = 1 THEN at(middle) ELSE (at(middle - 1) + at(middle)) \div 2
  BY DEF Median
<1> DEFINE a == at(middle - 1)
           b == at(middle)
<1>4. middle \in Int /\ middle - 1 \in Int /\ middle - 1 <= n /\ middle <= n
  <2> HIDE DEF n
  <2>1. n % 2 = 1 \/ n % 2 = 0
    BY <1>1
  <2> QED BY <1>1
<1>5. a \in firsts /\ b \in firsts
  <2> HIDE DEF at, middle, n, firsts
  <2> QED BY <1>2, <1>4
<1>6. Median(members) = IF n % 2 = 1 THEN b ELSE (a + b) \div 2
  BY <1>3
<1> HIDE DEF a, b, n
<1>7. Median(members) < Calibration => a < Calibration \/ b < Calibration
  <2> HIDE DEF firsts
  <2>1. a \in Nat /\ b \in Nat
    BY <1>1, <1>5
  <2> QED BY <1>1, <1>6, <2>1
<1>8. Median(members) >= Boundary => a >= Boundary \/ b >= Boundary
  <2> HIDE DEF firsts
  <2>1. a \in Nat /\ b \in Nat
    BY <1>1, <1>5
  <2> QED BY <1>1, <1>6, <2>1
<1>9. Median(members) \in Int
  <2> HIDE DEF firsts
  <2>1. a \in Nat /\ b \in Nat
    BY <1>1, <1>5
  <2> QED BY <1>1, <1>6, <2>1
<1> QED BY <1>5, <1>7, <1>8, <1>9

(* Wells filed in the grid that are near each other have one root, and a    *)
(* partition is read off the pads.                                         *)
Together ==
    /\ wells \in Population /\ cells \subseteq Projected /\ DOMAIN root = Api
    /\ \A v, w \in cells : SamePad(v, w) => root[v] = root[w]

Sided ==
    \/ partition \in {Everywhere("none"), Everywhere("refused")}
    \/ /\ partition = [w \in Api |-> GroupPartition(root, w)]
       /\ cells = Projected
       /\ \A v, w \in Api \ Projected : Linked(v, w) => root[v] = root[w]

(* The median depends on the population alone. *)
MedianOf(pop, members) ==
    LET n        == Cardinality(members)
        first(i) == {t \in {pop[v].first : v \in members} :
                        i <= Cardinality({v \in members : pop[v].first <= t})}
        at(i)    == Min(first(i))
        middle   == n \div 2 + 1
    IN  IF n % 2 = 1 THEN at(middle) ELSE (at(middle - 1) + at(middle)) \div 2

LEMMA SamePartitions ==
    ASSUME wells' = wells, NEW pads, root' = pads, NEW w
    PROVE  GroupPartition(root, w)' = GroupPartition(pads, w)
<1>1. \A S : Median(S) = MedianOf(wells, S)
  BY Zenon DEF Median, MedianOf
<1>2. \A S : Median(S)' = MedianOf(wells', S)
  BY Zenon DEF Median, MedianOf
<1>3. Group(root, w)' = Group(pads, w)
  BY DEF Group, Api
<1>4. GroupPartition(root, w)' = PartitionAt(MedianOf(wells', Group(root, w)'))
  <2>1. GroupPartition(root, w)' = PartitionAt(Median(Group(root, w)))'
    BY DEF GroupPartition
  <2> QED BY <1>2, <2>1 DEF PartitionAt
<1>5. GroupPartition(pads, w) = PartitionAt(MedianOf(wells, Group(pads, w)))
  BY <1>1 DEF GroupPartition
<1> QED BY <1>3, <1>4, <1>5

LEMMA PlaceKeeps ==
    ASSUME Together, Sided, Place
    PROVE  Together' /\ Sided'
<1> DEFINE w == Min(Projected \ cells)
           near == {v \in cells : Beside(v, w) /\ SamePad(v, w)}
           met == {root[v] : v \in {w} \cup near}
<1>1. /\ wells' = wells /\ partition' = partition /\ cells' = cells \cup {w}
      /\ root' = United({w} \cup near) /\ cells # Projected
  BY DEF Place
<1>2. w \in Projected
  <2>1. Projected \ cells # {} /\ Projected \ cells \subseteq Nat
    BY <1>1, PopulationAssumption DEF Together, Projected, Api
  <2> QED BY <2>1, LeastNatural DEF Min
<1>3. \A v \in Api : root'[v] = IF root[v] \in met THEN Min(met) ELSE root[v]
  BY <1>1 DEF United
<1>4. DOMAIN root' = Api /\ Api' = Api /\ Projected' = Projected
  BY <1>1 DEF United, Api, Projected
<1>5. cells \subseteq Api /\ Projected \subseteq Api
  BY DEF Together, Projected
<1>6. \A v \in near : root'[v] = root'[w]
  BY <1>2, <1>3, <1>5
<1>7. ASSUME NEW u \in cells \cup {w}, NEW v \in cells \cup {w}, SamePad(u, v)
      PROVE  root'[u] = root'[v]
  <2> HIDE DEF w, met
  <2>1. CASE u \in cells /\ v \in cells
    BY <2>1, <1>3, <1>5, <1>7 DEF Together
  <2>2. ASSUME NEW t \in cells, SamePad(t, w) \/ SamePad(w, t)
        PROVE  t \in near
    <3>1. t \in Projected /\ wells \in Population
      BY DEF Together
    <3>2. SamePad(t, w)
      BY <1>2, <2>2, <3>1, NearBothWays
    <3> QED BY <1>2, <3>1, <3>2, NearIsBeside
  <2> HIDE DEF near
  <2> QED BY <1>6, <1>7, <2>1, <2>2
<1>8. \A u, v : SamePad(u, v)' <=> SamePad(u, v)
  BY <1>1 DEF SamePad, Apart
<1>9. Together'
  <2> HIDE DEF w, near
  <2> QED BY <1>1, <1>2, <1>4, <1>7, <1>8 DEF Together
<1>10. Sided'
  <2>1. partition \in {Everywhere("none"), Everywhere("refused")}
    BY <1>1 DEF Sided
  <2> QED BY <1>1, <2>1 DEF Sided, Everywhere
<1> QED BY <1>9, <1>10

LEMMA AssignKeeps ==
    ASSUME Together, Sided, Assign
    PROVE  Together' /\ Sided'
<1> DEFINE pads == [w \in Api |-> IF w \in Projected \/ wells[w].unit = NoUnit THEN root[w]
                                  ELSE Min(Fallback(w))]
<1>1. /\ cells = Projected /\ root' = pads /\ wells' = wells /\ cells' = cells
      /\ partition' = IF \E w \in Api : Cardinality(Group(pads, w)) > MaxMembers
                      THEN Everywhere("refused")
                      ELSE [w \in Api |-> GroupPartition(pads, w)]
  BY DEF Assign
<1>2. Api' = Api /\ Projected' = Projected /\ Projected \subseteq Api
  BY <1>1 DEF Api, Projected
<1>3. \A u, v : (SamePad(u, v)' <=> SamePad(u, v)) /\ (Linked(u, v)' <=> Linked(u, v))
  <2>1. \A u, v : SamePad(u, v)' <=> SamePad(u, v)
    BY <1>1 DEF SamePad, Apart
  <2>2. \A u, v : u \in Fallback(v)' <=> u \in Fallback(v)
    BY <1>1, <1>2 DEF Fallback
  <2> QED BY <1>1, <1>2, <2>1, <2>2 DEF Linked
<1>4. Together'
  <2>1. \A v \in cells : root'[v] = root[v]
    BY <1>1, <1>2
  <2> QED BY <1>1, <1>2, <1>3, <2>1 DEF Together
<1>5. Sided'
  <2>1. ASSUME NEW v \in Api \ Projected, NEW w \in Api \ Projected, Linked(v, w)
        PROVE  pads[v] = pads[w]
    <3>1. /\ wells[v].unit = wells[w].unit /\ wells[v].unit # NoUnit
          /\ w \in Fallback(v)
      BY <2>1 DEF Linked
    <3>2. Fallback(v) = Fallback(w)
      BY <3>1 DEF Fallback
    <3> QED BY <3>1, <3>2
  <2>2. \A w : (GroupPartition(root, w)' = GroupPartition(pads, w))
    BY <1>1, SamePartitions
  <2> HIDE DEF pads
  <2>3. \/ partition' = Everywhere("refused")'
        \/ partition' = [w \in Api |-> GroupPartition(root, w)]'
    BY <1>1, <1>2, <2>2 DEF Everywhere
  <2> QED BY <1>1, <1>2, <1>3, <2>1, <2>3 DEF Sided
<1> QED BY <1>4, <1>5

LEMMA PadInvariant == PadSpec => [](Together /\ Sided)
<1>1. PadInit => Together /\ Sided
  BY DEF PadInit, Together, Sided, Projected, Api
<1>2. Together /\ Sided /\ [Place \/ Assign]_padVars => (Together /\ Sided)'
  <2> SUFFICES ASSUME Together, Sided, [Place \/ Assign]_padVars PROVE (Together /\ Sided)'
    OBVIOUS
  <2>1. CASE UNCHANGED padVars
    <3>1. wells' = wells /\ cells' = cells /\ root' = root /\ partition' = partition
      BY <2>1 DEF padVars
    <3>2. Api' = Api /\ Projected' = Projected
      BY <3>1 DEF Api, Projected
    <3>3. \A u, v : SamePad(u, v)' <=> SamePad(u, v)
      BY <3>1 DEF SamePad, Apart
    <3>4. \A v : (Fallback(v)' = Fallback(v))
      BY <3>1, <3>2 DEF Fallback
    <3>5. \A u, v : Linked(u, v)' <=> Linked(u, v)
      BY <3>1, <3>2, <3>3, <3>4 DEF Linked
    <3>6. \A w : (GroupPartition(root, w)' = GroupPartition(root, w))
      BY <3>1, SamePartitions
    <3>7. Together'
      BY <3>1, <3>2, <3>3 DEF Together
    <3>8. Sided'
      BY <3>1, <3>2, <3>5, <3>6 DEF Sided, Everywhere
    <3> QED BY <3>7, <3>8
  <2> QED BY <2>1, PlaceKeeps, AssignKeeps
<1> QED BY <1>1, <1>2, PTL DEF PadSpec

(* Wells that belong together are never on both sides of the holdout, and   *)
(* the side is one the pad's own members span (split.py,                   *)
(* build_temporal_split).                                                  *)
THEOREM PadsStayWhole == PadSpec => []PadsUnsplit
<1>1. Together /\ Sided => PadsUnsplit
  <2> SUFFICES ASSUME Together, Sided, NEW v \in Api, partition[v] \in {"train", "cal", "test"}
               PROVE  /\ \A w \in Api : Linked(v, w) => partition[w] = partition[v]
                      /\ partition[v] = "train" => \E w \in Group(root, v) : wells[w].first < Calibration
                      /\ partition[v] = "test"  => \E w \in Group(root, v) : wells[w].first >= Boundary
    BY DEF PadsUnsplit
  <2>1. /\ partition = [w \in Api |-> GroupPartition(root, w)]
        /\ cells = Projected
        /\ \A u, w \in Api \ Projected : Linked(u, w) => root[u] = root[w]
    <3>1. partition \notin {Everywhere("none"), Everywhere("refused")}
      BY DEF Everywhere, Api
    <3> QED BY <3>1 DEF Sided
  <2>2. ASSUME NEW w \in Api, Linked(v, w) PROVE partition[w] = partition[v]
    <3>1. root[v] = root[w]
      BY <2>1, <2>2 DEF Linked, Together
    <3>2. Group(root, v) = Group(root, w)
      BY <3>1 DEF Group
    <3> QED BY <2>1, <3>2 DEF GroupPartition
  <2> DEFINE members == Group(root, v)
  <2>3. partition[v] = PartitionAt(Median(members)) /\ members \in SUBSET Api /\ v \in members
    BY <2>1 DEF GroupPartition, Group
  <2>4. wells \in Population
    BY DEF Together
  <2> HIDE DEF members
  <2>5. /\ partition[v] = "train" => Median(members) < Calibration
        /\ partition[v] = "test" => ~(Median(members) < Boundary)
    BY <2>3 DEF PartitionAt
  <2>6. Median(members) \in Int /\ Boundary \in Int
    BY <2>3, <2>4, MedianWithin, PadAssumption
  <2>7. /\ partition[v] = "train" => \E w \in members : wells[w].first < Calibration
        /\ partition[v] = "test" => \E w \in members : wells[w].first >= Boundary
    BY <2>3, <2>4, <2>5, <2>6, MedianWithin
  <2> QED BY <2>2, <2>7 DEF members
<1> QED BY <1>1, PadInvariant, PTL

-----------------------------------------------------------------------------
(* The pads and nothing but the pads *)

Chained(v, w) == \A S \in Closed : v \in S => w \in S

LEMMA ClosedSets ==
    ASSUME NEW S
    PROVE  S \in Closed <=> /\ S \in SUBSET Api
                           /\ \A x \in S : \A y \in Api : Linked(x, y) => y \in S
<1> DEFINE beside == [x \in Api |-> {y \in Api : Linked(x, y)}]
<1>1. S \in Closed <=> S \in SUBSET Api /\ \A x \in S : beside[x] \subseteq S
  BY DEF Closed
<1>2. \A x \in Api : beside[x] = {y \in Api : Linked(x, y)}
  OBVIOUS
<1> HIDE DEF beside
<1> QED BY <1>1, <1>2

LEMMA LinkedBothWays ==
    ASSUME wells \in Population, NEW v \in Api, NEW w \in Api, Linked(v, w)
    PROVE  Linked(w, v)
<1>1. CASE {v, w} \subseteq Projected
  <2>1. SamePad(w, v)
    BY <1>1, NearBothWays DEF Linked
  <2> QED BY <1>1, <2>1 DEF Linked
<1>2. CASE ~({v, w} \subseteq Projected)
  BY <1>2 DEF Linked, Fallback
<1> QED BY <1>1, <1>2

(* To chain is an equivalence. *)
LEMMA ChainedOn ==
    ASSUME wells \in Population, NEW v \in Api, NEW w \in Api
    PROVE  /\ Chained(v, v)
           /\ Linked(v, w) => Chained(v, w)
           /\ Chained(v, w) => Chained(w, v)
           /\ \A u \in Api : Chained(u, v) /\ Chained(v, w) => Chained(u, w)
<1>1. Linked(v, w) => Chained(v, w)
  BY ClosedSets DEF Chained
<1>2. ASSUME Chained(v, w) PROVE Chained(w, v)
  <2> SUFFICES ASSUME NEW S \in Closed, w \in S, v \notin S PROVE FALSE
    BY DEF Chained
  <2>1. Api \ S \in Closed
    <3> SUFFICES ASSUME NEW x \in Api \ S, NEW y \in Api, Linked(x, y), y \in S PROVE FALSE
      BY ClosedSets
    <3>1. Linked(y, x)
      BY LinkedBothWays
    <3> QED BY <3>1, ClosedSets
  <2> QED BY <1>2, <2>1 DEF Chained
<1> QED BY <1>1, <1>2 DEF Chained

(* Wells of one root chain. *)
Rooted ==
    /\ \A v \in Api : root[v] \in Api
    /\ \A v \in cells : root[v] \in cells
    /\ partition = Everywhere("none") => \A v \in Api \ cells : root[v] = v
    /\ partition # Everywhere("none") =>
          /\ cells = Projected
          /\ \A v, w \in Api \ Projected : Linked(v, w) => root[v] = root[w]
    /\ \A v, w \in Api : root[v] = root[w] => Chained(v, w)

LEMMA SameLinks ==
    ASSUME wells' = wells
    PROVE  /\ Api' = Api /\ Projected' = Projected
           /\ \A u, v : Linked(u, v)' <=> Linked(u, v)
           /\ \A u, v : Chained(u, v)' <=> Chained(u, v)
<1>1. Api' = Api /\ Projected' = Projected
  BY DEF Api, Projected
<1>2. \A u, v : SamePad(u, v)' <=> SamePad(u, v)
  BY DEF SamePad, Apart
<1>3. \A v : (Fallback(v)' = Fallback(v))
  BY <1>1 DEF Fallback
<1>4. \A u, v : Linked(u, v)' <=> Linked(u, v)
  BY <1>1, <1>2, <1>3 DEF Linked
<1>5. Closed' = Closed
  <2> DEFINE beside == [x \in Api |-> {y \in Api : Linked(x, y)}]
  <2>1. beside' = beside
    BY <1>1, <1>4
  <2>2. Closed = {S \in SUBSET Api : \A x \in S : beside[x] \subseteq S}
    BY DEF Closed
  <2>3. Closed' = {S \in SUBSET Api' : \A x \in S : beside'[x] \subseteq S}
    BY DEF Closed
  <2> HIDE DEF beside
  <2> QED BY <1>1, <2>1, <2>2, <2>3
<1>6. \A u, v : Chained(u, v)' <=> Chained(u, v)
  BY <1>5 DEF Chained
<1> QED BY <1>1, <1>4, <1>6

LEMMA PlaceRoots ==
    ASSUME Together, Rooted, Place
    PROVE  Rooted'
<1> DEFINE w == Min(Projected \ cells)
           near == {v \in cells : Beside(v, w) /\ SamePad(v, w)}
           joined == {w} \cup near
           met == {root[v] : v \in joined}
<1>1. /\ wells' = wells /\ partition' = partition /\ cells' = cells \cup {w}
      /\ root' = United({w} \cup near) /\ cells # Projected
  BY DEF Place
<1>2. w \in Projected \ cells
  <2>1. Projected \ cells # {} /\ Projected \ cells \subseteq Nat
    BY <1>1, PopulationAssumption DEF Together, Projected, Api
  <2> QED BY <2>1, LeastNatural DEF Min
<1>3. \A v \in Api : root'[v] = IF root[v] \in met THEN Min(met) ELSE root[v]
  BY <1>1 DEF United
<1>4. wells \in Population /\ cells \subseteq Projected /\ Projected \subseteq Api /\ Api \subseteq Nat
  BY PopulationAssumption DEF Together, Projected, Api
<1>5. \A v \in near : v \in cells /\ Linked(v, w)
  BY <1>2, <1>4 DEF Linked
<1>6. partition = Everywhere("none") /\ root[w] = w
  BY <1>1, <1>2, <1>4 DEF Rooted
<1> HIDE DEF near
<1>7. met \subseteq cells \cup {w} /\ met # {} /\ w \in joined /\ joined \subseteq Api
  BY <1>2, <1>4, <1>5, <1>6 DEF Rooted
<1>8. Min(met) \in met
  <2> HIDE DEF met
  <2>1. met \in SUBSET Nat
    BY <1>2, <1>4, <1>7
  <2> QED BY <1>7, <2>1, LeastNatural DEF Min
<1>9. \A v \in joined : Chained(v, w)
  BY <1>2, <1>4, <1>5, ChainedOn
<1>10. ASSUME NEW v \in Api, root[v] \in met PROVE Chained(v, w)
  <2>1. PICK x \in joined : root[v] = root[x]
    BY <1>10
  <2>2. Chained(v, x) /\ Chained(x, w) /\ x \in Api /\ w \in Api
    BY <1>2, <1>4, <1>7, <1>9, <2>1 DEF Rooted
  <2> QED BY <1>4, <2>2, ChainedOn
<1> HIDE DEF w, joined, met
<1>11. ASSUME NEW u \in Api, NEW v \in Api, root'[u] = root'[v] PROVE Chained(u, v)
  <2>1. CASE root[u] \in met /\ root[v] \in met
    <3>1. Chained(u, w) /\ Chained(v, w) /\ w \in Api
      BY <1>2, <1>4, <1>10, <2>1
    <3> QED BY <1>4, <3>1, ChainedOn
  <2>2. CASE ~(root[u] \in met /\ root[v] \in met)
    <3>1. root[u] = root[v]
      BY <1>3, <1>8, <1>11, <2>2
    <3> QED BY <3>1 DEF Rooted
  <2> QED BY <2>1, <2>2
<1>12. /\ Api' = Api /\ Projected' = Projected
       /\ \A u, v : Chained(u, v)' <=> Chained(u, v)
       /\ Everywhere("none")' = Everywhere("none")
  BY <1>1, SameLinks DEF Everywhere
<1>13. \A v \in Api : root'[v] \in Api
  BY <1>2, <1>3, <1>4, <1>7, <1>8 DEF Rooted
<1>14. \A v \in cells \cup {w} : root'[v] \in cells \cup {w}
  <2>1. \A v \in cells \cup {w} : root[v] \in cells \cup {w} /\ v \in Api
    BY <1>2, <1>4, <1>6 DEF Rooted
  <2> QED BY <1>3, <1>7, <1>8, <2>1
<1>15. \A v \in Api \ (cells \cup {w}) : root'[v] = v
  <2>1. \A v \in Api \ (cells \cup {w}) : root[v] = v
    BY <1>6 DEF Rooted
  <2> QED BY <1>3, <1>7, <2>1
<1> QED BY <1>1, <1>6, <1>11, <1>12, <1>13, <1>14, <1>15 DEF Rooted

LEMMA AssignRoots ==
    ASSUME Together, Rooted, Assign
    PROVE  Rooted'
<1> DEFINE bare(w) == w \in Projected \/ wells[w].unit = NoUnit
           pads == [w \in Api |-> IF w \in Projected \/ wells[w].unit = NoUnit THEN root[w]
                                  ELSE Min(Fallback(w))]
<1>1. /\ cells = Projected /\ partition = Everywhere("none")
      /\ root' = pads /\ wells' = wells /\ cells' = cells
      /\ partition' = IF \E w \in Api : Cardinality(Group(pads, w)) > MaxMembers
                      THEN Everywhere("refused")
                      ELSE [w \in Api |-> GroupPartition(pads, w)]
  BY DEF Assign
<1>2. wells \in Population /\ Projected \subseteq Api /\ Api \subseteq Nat
  BY PopulationAssumption DEF Together, Projected, Api
<1>3. \A w \in Api : pads[w] = IF bare(w) THEN root[w] ELSE Min(Fallback(w))
  OBVIOUS
<1>4. ASSUME NEW w \in Api, ~bare(w) PROVE Min(Fallback(w)) \in Fallback(w)
  <2>1. Fallback(w) \in SUBSET Nat /\ w \in Fallback(w)
    BY <1>2, <1>4 DEF Fallback
  <2> QED BY <2>1, LeastNatural DEF Min
<1>5. \A w \in Api : root[w] \in Api /\ (w \in Projected => root[w] \in Projected)
                   /\ (w \notin Projected => root[w] = w)
  BY <1>1 DEF Rooted
<1> HIDE DEF pads
<1>6. ASSUME NEW v \in Api, NEW w \in Api, ~bare(w), pads[v] = pads[w]
      PROVE  Chained(v, w)
  <2> DEFINE x == Min(Fallback(w))
  <2>1. x \in Fallback(w) /\ pads[w] = x
    BY <1>3, <1>4, <1>6
  <2>2. ~bare(v)
    <3>1. x \notin Projected /\ wells[x].unit = wells[w].unit /\ wells[x].unit # NoUnit
      BY <1>6, <2>1 DEF Fallback
    <3> HIDE DEF x
    <3> QED BY <1>3, <1>5, <1>6, <2>1, <3>1
  <2>3. x \in Fallback(v)
    BY <1>3, <1>4, <1>6, <2>1, <2>2
  <2> HIDE DEF x
  <2>4. Linked(v, w)
    BY <1>6, <2>1, <2>2, <2>3 DEF Linked, Fallback
  <2> QED BY <1>2, <2>4, ChainedOn
<1>7. ASSUME NEW v \in Api, NEW w \in Api, pads[v] = pads[w] PROVE Chained(v, w)
  <2>1. CASE bare(v) /\ bare(w)
    <3>1. root[v] = root[w]
      BY <1>3, <1>7, <2>1
    <3> QED BY <3>1 DEF Rooted
  <2>2. CASE ~bare(w)
    <3> HIDE DEF bare
    <3> QED BY <1>6, <1>7, <2>2
  <2>3. CASE ~bare(v)
    <3>1. Chained(w, v)
      <4> HIDE DEF bare
      <4> QED BY <1>6, <1>7, <2>3
    <3> QED BY <1>2, <3>1, ChainedOn
  <2> QED BY <2>1, <2>2, <2>3
<1>8. ASSUME NEW v \in Api \ Projected, NEW w \in Api \ Projected, Linked(v, w)
      PROVE  pads[v] = pads[w]
  <2>1. /\ wells[v].unit = wells[w].unit /\ wells[v].unit # NoUnit /\ w \in Fallback(v)
    BY <1>8 DEF Linked
  <2>2. Fallback(v) = Fallback(w)
    BY <2>1 DEF Fallback
  <2> QED BY <1>3, <2>1, <2>2
<1>9. \A w \in Api : pads[w] \in Api
  BY <1>3, <1>4, <1>5 DEF Fallback
<1>10. \A w \in Projected : pads[w] \in Projected
  BY <1>2, <1>3, <1>5
<1>11. \A v \in Api : partition'[v] # "none"
  <2>1. \A w : GroupPartition(pads, w) # "none"
    BY DEF GroupPartition, PartitionAt
  <2> QED BY <1>1, <2>1 DEF Everywhere, Api
<1>12. /\ Api' = Api /\ Projected' = Projected
       /\ \A u, v : Chained(u, v)' <=> Chained(u, v)
       /\ \A u, v : Linked(u, v)' <=> Linked(u, v)
       /\ Everywhere("none")' = Everywhere("none")
  BY <1>1, SameLinks DEF Everywhere
<1>13. partition' = Everywhere("none") => Api = {}
  BY <1>11 DEF Everywhere, Api
<1> QED BY <1>1, <1>7, <1>8, <1>9, <1>10, <1>12, <1>13 DEF Rooted

(* The pads are exactly the wells that chain by distance and date, or by    *)
(* unit and half year (split.py, build_pad_groups).                        *)
THEOREM PadsAreExact == PadSpec => []PadsAreComponents
<1>1. PadInit => Rooted
  <2> SUFFICES ASSUME PadInit PROVE Rooted
    OBVIOUS
  <2>1. wells \in Population /\ cells = {} /\ (\A v \in Api : root[v] = v)
        /\ partition = Everywhere("none")
    BY DEF PadInit, Api
  <2>2. \A v \in Api : Chained(v, v)
    BY DEF Chained
  <2> QED BY <2>1, <2>2 DEF Rooted
<1>2. Together /\ Rooted /\ [Place \/ Assign]_padVars => Rooted'
  <2> SUFFICES ASSUME Together, Rooted, UNCHANGED padVars PROVE Rooted'
    BY PlaceRoots, AssignRoots
  <2>1. wells' = wells /\ cells' = cells /\ root' = root /\ partition' = partition
    BY DEF padVars
  <2>2. /\ Api' = Api /\ Projected' = Projected
        /\ \A u, v : Chained(u, v)' <=> Chained(u, v)
        /\ \A u, v : Linked(u, v)' <=> Linked(u, v)
        /\ Everywhere("none")' = Everywhere("none")
    BY <2>1, SameLinks DEF Everywhere
  <2> QED BY <2>1, <2>2 DEF Rooted
<1>3. Together /\ Rooted => PadsAreComponents
  <2> SUFFICES ASSUME Together, Rooted, partition # Everywhere("none"), NEW v \in Api, NEW w \in Api
               PROVE  root[v] = root[w] <=> Chained(v, w)
    BY DEF PadsAreComponents, Chained
  <2> DEFINE pad == {x \in Api : root[x] = root[v]}
  <2>1. ASSUME NEW x \in Api, NEW y \in Api, Linked(x, y) PROVE root[x] = root[y]
    <3>1. CASE {x, y} \subseteq Projected
      BY <2>1, <3>1 DEF Linked, Together, Rooted
    <3>2. CASE ~({x, y} \subseteq Projected)
      <4>1. x \notin Projected /\ y \notin Projected
        BY <2>1, <3>2 DEF Linked
      <4> QED BY <2>1, <4>1 DEF Rooted
    <3> QED BY <3>1, <3>2
  <2>2. pad \in Closed /\ v \in pad
    BY <2>1, ClosedSets
  <2>3. Chained(v, w) => root[v] = root[w]
    BY <2>2 DEF Chained
  <2> QED BY <2>3 DEF Rooted
<1>4. PadSpec => [](Together /\ Sided)
  BY PadInvariant
<1> QED BY <1>1, <1>2, <1>3, <1>4, PTL DEF PadSpec

=============================================================================
