-------------------------- MODULE Scheduler_proofs --------------------------
(* Proofs about Scheduler for every registry, every number of scheduler    *)
(* processes and every bound.                                              *)
EXTENDS Scheduler, JobOrder, Extrema, SequenceTheorems, FiniteSetTheorems

USE DEF Never, NoRun, SessionFree, OpenRows, Running, Shown, Silent

-----------------------------------------------------------------------------
(* The order of a tick, whatever the dependency edges say                  *)

Step(reg, S) == {j \in Job : Parents(j, reg) \subseteq S}

(* The function the rounds are counted by exists. *)
LEMMA PlacedRecurs ==
    ASSUME NEW reg
    PROVE  /\ Placed(reg)[0] = {}
           /\ \A k \in 0..(Cardinality(Job) - 1) : Placed(reg)[k + 1] = Step(reg, Placed(reg)[k])
<1> DEFINE N == Cardinality(Job)
           Row(f, k) == IF k = 0 THEN {} ELSE Step(reg, f[k - 1])
           G == {m \in Nat : \E f : f = [k \in 0..m |-> Row(f, k)]}
<1>1. N \in Nat
  BY PlanAssumption, FS_CardinalityType
<1>2. 0 \in G
  <2> DEFINE f == [k \in 0..0 |-> {}]
  <2>1. f = [k \in 0..0 |-> Row(f, k)]
    OBVIOUS
  <2> QED BY <2>1
<1>3. ASSUME NEW m \in Nat, m \in G PROVE m + 1 \in G
  <2>1. PICK f : f = [k \in 0..m |-> Row(f, k)]
    BY <1>3
  <2> DEFINE g == [k \in 0..(m + 1) |-> IF k <= m THEN f[k] ELSE Step(reg, f[m])]
  <2>2. ASSUME NEW k \in 0..(m + 1) PROVE g[k] = Row(g, k)
    <3>1. CASE k = 0
      BY <2>1, <3>1
    <3>2. CASE k \in 1..m
      <4>1. f[k] = Step(reg, f[k - 1])
        BY <2>1, <3>2
      <4>2. g[k] = f[k] /\ g[k - 1] = f[k - 1]
        BY <3>2
      <4> HIDE DEF g
      <4> QED BY <3>2, <4>1, <4>2
    <3>3. CASE k = m + 1
      <4>1. g[k] = Step(reg, f[m]) /\ g[k - 1] = f[m] /\ k # 0
        BY <3>3
      <4> HIDE DEF g
      <4> QED BY <4>1
    <3> QED BY <3>1, <3>2, <3>3
  <2>3. g = [k \in 0..(m + 1) |-> Row(g, k)]
    <3>1. DOMAIN g = 0..(m + 1) /\ g = [k \in 0..(m + 1) |-> g[k]]
      OBVIOUS
    <3> HIDE DEF g
    <3> QED BY <2>2, <3>1
  <2> HIDE DEF g
  <2> QED BY <2>3
<1>4. N \in G
  <2> HIDE DEF G, N
  <2>1. 0..N \subseteq G
    BY <1>1, <1>2, <1>3, Climbing
  <2> QED BY <1>1, <2>1
<1> DEFINE p == Placed(reg)
<1>5. p = [k \in 0..N |-> IF k = 0 THEN {} ELSE {j \in Job : Parents(j, reg) \subseteq p[k - 1]}]
  <2>1. \E f : f = [k \in 0..N |-> IF k = 0 THEN {}
                                  ELSE {j \in Job : Parents(j, reg) \subseteq f[k - 1]}]
    BY <1>4 DEF Step
  <2>2. p = CHOOSE f : f = [k \in 0..N |-> IF k = 0 THEN {}
                                  ELSE {j \in Job : Parents(j, reg) \subseteq f[k - 1]}]
    BY DEF Placed
  <2> QED BY <2>1, <2>2
<1> HIDE DEF N, p
<1>6. \A k \in 0..N : p[k] = Row(p, k)
  <2>1. p = [k \in 0..N |-> Row(p, k)]
    BY <1>5 DEF Step
  <2> HIDE DEF Row
  <2> QED BY <2>1
<1>7. p[0] = {} /\ \A k \in 0..(N - 1) : p[k + 1] = Step(reg, p[k])
  <2>1. ASSUME NEW k \in 0..(N - 1) PROVE p[k + 1] = Step(reg, p[k])
    <3>1. k + 1 \in 0..N /\ k + 1 # 0 /\ (k + 1) - 1 = k
      BY <1>1
    <3>2. p[k + 1] = Step(reg, p[(k + 1) - 1])
      BY <1>6, <3>1
    <3> QED BY <3>1, <3>2
  <2> QED BY <1>1, <1>6, <2>1
<1> QED BY <1>7 DEF p, N

(* What is placed stays placed. *)
LEMMA PlacedGrows ==
    ASSUME NEW reg, NEW k \in 0..Cardinality(Job)
    PROVE  /\ Placed(reg)[k] \subseteq Job
           /\ \A l \in k..Cardinality(Job) : Placed(reg)[k] \subseteq Placed(reg)[l]
<1> DEFINE N == Cardinality(Job)
           p == Placed(reg)
           G == {m \in 0..N : p[m] \subseteq Job /\ (m < N => p[m] \subseteq p[m + 1])}
<1>1. N \in Nat
  BY PlanAssumption, FS_CardinalityType
<1>2. p[0] = {} /\ \A m \in 0..(N - 1) : p[m + 1] = Step(reg, p[m])
  BY PlacedRecurs
<1> HIDE DEF N, p
<1>3. 0 \in G
  BY <1>1, <1>2
<1>4. ASSUME NEW m \in 0..(N - 1), m \in G PROVE m + 1 \in G
  <2>1. p[m + 1] = Step(reg, p[m]) /\ p[m] \subseteq p[m + 1] /\ m + 1 \in 0..N
    BY <1>1, <1>2, <1>4
  <2>2. p[m + 1] \subseteq Step(reg, p[m + 1])
    BY <2>1 DEF Step
  <2>3. m + 1 < N => p[m + 2] = Step(reg, p[m + 1])
    BY <1>1, <1>2, <2>1
  <2>4. p[m + 1] \subseteq Job
    BY <2>1 DEF Step
  <2> QED BY <1>1, <2>1, <2>2, <2>3, <2>4
<1>5. 0..N \subseteq G
  <2> HIDE DEF G
  <2> QED BY <1>1, <1>3, <1>4, Climbing
<1> DEFINE H == {d \in Nat : k + d <= N => p[k] \subseteq p[k + d]}
<1>6. 0 \in H
  BY <1>1 DEF N
<1>7. ASSUME NEW d \in Nat, d \in H PROVE d + 1 \in H
  <2>1. k \in Int /\ (k + d + 1 <= N => k + d \in 0..N /\ k + d < N)
    BY <1>1 DEF N
  <2>2. k + d + 1 <= N => p[k + d] \subseteq p[k + d + 1]
    BY <1>5, <2>1
  <2>3. k + (d + 1) = k + d + 1
    BY <2>1
  <2> QED BY <1>1, <1>7, <2>1, <2>2, <2>3
<1>8. ASSUME NEW l \in k..N PROVE p[k] \subseteq p[l]
  <2>1. k \in Int /\ l - k \in Nat /\ k + (l - k) = l /\ l <= N
    BY <1>1, <1>8 DEF N
  <2>2. 0..(l - k) \subseteq H
    <3> HIDE DEF H
    <3>1. \A d \in 0..(l - k - 1) : d \in H => d + 1 \in H
      BY <1>7, <2>1
    <3> QED BY <1>6, <2>1, <3>1, Climbing
  <2> QED BY <1>1, <2>1, <2>2
<1> QED BY <1>5, <1>8 DEF p, N

(* A job is placed in the round after all its parents. *)
LEMMA RoundPlaced ==
    ASSUME NEW reg, NEW j \in Orderable(reg)
    PROVE  LET m == Round(j, reg) IN
           /\ m \in 1..Cardinality(Job) /\ j \in Placed(reg)[m] /\ j \notin Placed(reg)[m - 1]
           /\ Parents(j, reg) \subseteq Placed(reg)[m - 1]
           /\ \A k \in 0..Cardinality(Job) : j \in Placed(reg)[k] => m <= k
<1> DEFINE N == Cardinality(Job)
           p == Placed(reg)
           m == Round(j, reg)
           rounds == {k \in 0..N : j \in p[k]}
<1>1. N \in Nat
  BY PlanAssumption, FS_CardinalityType
<1>2. p[0] = {} /\ \A k \in 0..(N - 1) : p[k + 1] = Step(reg, p[k])
  BY PlacedRecurs
<1>3. N \in rounds /\ rounds \in SUBSET Nat /\ m = Min(rounds)
  BY <1>1 DEF Orderable, Round
<1>4. m \in rounds /\ \A k \in rounds : m <= k
  <2> HIDE DEF rounds, m
  <2> QED BY <1>3, LeastNatural DEF Min
<1> HIDE DEF N, p, m
<1>5. m \in 1..N
  BY <1>1, <1>2, <1>4
<1>6. m - 1 \in 0..(N - 1) /\ (m - 1) + 1 = m /\ m - 1 \in 0..N
  BY <1>1, <1>5
<1>7. p[m] = Step(reg, p[m - 1])
  BY <1>2, <1>6
<1>8. j \notin p[m - 1]
  BY <1>1, <1>4, <1>5, <1>6
<1> QED BY <1>4, <1>5, <1>7, <1>8 DEF N, p, m, Step

(* What holds a placed job's round holds all above it. *)
LEMMA PlacedIsClosed ==
    ASSUME NEW reg, NEW k \in 0..Cardinality(Job), NEW j \in Placed(reg)[k]
    PROVE  Parents(j, reg) \subseteq Placed(reg)[k]
<1> DEFINE N == Cardinality(Job)
           p == Placed(reg)
<1>1. N \in Nat
  BY PlanAssumption, FS_CardinalityType
<1>2. p[0] = {} /\ \A i \in 0..(N - 1) : p[i + 1] = Step(reg, p[i])
  BY PlacedRecurs
<1> HIDE DEF p, N
<1>3. k # 0 /\ k - 1 \in 0..(N - 1) /\ (k - 1) + 1 = k /\ k - 1 \in 0..N /\ k \in (k - 1)..N
  BY <1>1, <1>2 DEF p, N
<1>4. p[k] = Step(reg, p[k - 1])
  BY <1>2, <1>3
<1>5. p[k - 1] \subseteq p[k]
  BY <1>3, PlacedGrows DEF p, N
<1> QED BY <1>4, <1>5 DEF p, Step

LEMMA ParentsRoundFirst ==
    ASSUME NEW reg, NEW j \in Orderable(reg), NEW parent \in Parents(j, reg)
    PROVE  Round(parent, reg) < Round(j, reg)
<1> DEFINE N == Cardinality(Job)
           m == Round(j, reg)
<1>1. N \in Nat
  BY PlanAssumption, FS_CardinalityType
<1>2. m \in 1..N /\ parent \in Placed(reg)[m - 1]
  BY RoundPlaced
<1> HIDE DEF m, N
<1>3. m - 1 \in 0..N /\ N \in (m - 1)..N
  BY <1>1, <1>2
<1>4. parent \in Orderable(reg)
  BY <1>2, <1>3, PlacedGrows DEF N, Orderable
<1>5. Round(parent, reg) \in Nat /\ Round(parent, reg) <= m - 1
  <2>1. Round(parent, reg) \in 1..N
    BY <1>4, RoundPlaced DEF N
  <2>2. \A k \in 0..N : parent \in Placed(reg)[k] => Round(parent, reg) <= k
    BY <1>4, RoundPlaced DEF N
  <2> QED BY <1>1, <1>2, <1>3, <2>1, <2>2
<1>6. Round(parent, reg) < m
  BY <1>1, <1>2, <1>5
<1> QED BY <1>6 DEF m

(* A job the tick orders comes after every parent it waits on: plan.py,     *)
(* order_jobs.                                                             *)
THEOREM ParentsComeFirst == OrderSpec => []ParentsFirst
<1>1. ParentsFirst
  BY ParentsRoundFirst DEF ParentsFirst
<1> QED BY <1>1, PTL

(* The rounds end with every job placed whose parents are. *)
LEMMA NothingLeft ==
    ASSUME NEW reg, \A j \in Job : Parents(j, reg) \subseteq Job
    PROVE  \A j \in Job : Parents(j, reg) \subseteq Orderable(reg) => j \in Orderable(reg)
<1> DEFINE N == Cardinality(Job)
           p == Placed(reg)
           G == {k \in 0..N : Step(reg, p[k]) = p[k] \/ Cardinality(p[k]) >= k}
<1>1. N \in Nat /\ IsFiniteSet(Job)
  BY PlanAssumption, FS_CardinalityType
<1>2. p[0] = {} /\ \A k \in 0..(N - 1) : p[k + 1] = Step(reg, p[k])
  BY PlacedRecurs
<1>3. \A k \in 0..N : p[k] \subseteq Job /\ IsFiniteSet(p[k]) /\ Cardinality(p[k]) \in Nat
  BY <1>1, PlacedGrows, FS_Subset, FS_CardinalityType
<1>4. \A k \in 0..(N - 1) : p[k] \subseteq p[k + 1]
  <2> SUFFICES ASSUME NEW k \in 0..(N - 1) PROVE p[k] \subseteq p[k + 1]
    OBVIOUS
  <2>1. k \in 0..N /\ k + 1 \in k..N
    BY <1>1
  <2> QED BY <2>1, PlacedGrows
<1> HIDE DEF N, p
<1>5. 0 \in G
  BY <1>1, <1>2, <1>3
<1>6. ASSUME NEW k \in 0..(N - 1), k \in G PROVE k + 1 \in G
  <2>1. k \in 0..N /\ k + 1 \in 0..N /\ p[k + 1] = Step(reg, p[k]) /\ p[k] \subseteq p[k + 1]
    BY <1>1, <1>2, <1>4
  <2>2. CASE p[k + 1] = p[k]
    BY <2>1, <2>2
  <2>3. CASE p[k + 1] # p[k]
    <3>1. Cardinality(p[k]) < Cardinality(p[k + 1])
      BY <1>3, <2>1, <2>3, FS_Subset
    <3>2. Cardinality(p[k]) >= k
      BY <1>6, <2>1, <2>3
    <3>3. Cardinality(p[k]) \in Nat /\ Cardinality(p[k + 1]) \in Nat
      BY <1>3, <2>1
    <3>4. Cardinality(p[k + 1]) >= k + 1
      BY <3>1, <3>2, <3>3
    <3> QED BY <2>1, <3>4
  <2> QED BY <2>2, <2>3
<1>7. N \in G
  <2> HIDE DEF G
  <2>1. 0..N \subseteq G
    BY <1>1, <1>5, <1>6, Climbing
  <2> QED BY <1>1, <2>1
<1>8. Orderable(reg) = p[N] /\ N \in 0..N
  BY <1>1 DEF Orderable, p, N
<1>9. CASE Step(reg, p[N]) = p[N]
  BY <1>8, <1>9 DEF Step
<1>10. CASE Cardinality(p[N]) >= N
  <2>1. p[N] \subseteq Job /\ Cardinality(p[N]) \in Nat
    BY <1>3, <1>8
  <2>2. Cardinality(p[N]) <= N /\ (N = Cardinality(p[N]) => Job = p[N])
    BY <1>1, <2>1, FS_Subset DEF N
  <2>3. p[N] = Job
    <3>1. N = Cardinality(p[N])
      BY <1>1, <1>10, <2>1, <2>2
    <3> QED BY <2>2, <3>1
  <2> QED BY <1>8, <2>3
<1> QED BY <1>7, <1>9, <1>10

RegistryTyped ==
    registry \in [Job -> [edges : SUBSET [parent : Job, on : {"completed"}]]]

LEMMA RegistryIsTyped == OrderSpec => []RegistryTyped
<1>1. OrderInit => RegistryTyped
  BY DEF OrderInit, RegistryTyped
<1>2. RegistryTyped /\ [OrderNext]_registry => RegistryTyped'
  <2> SUFFICES ASSUME RegistryTyped, NEW j \in Job, NEW parent \in Job, AddEdge(j, parent)
               PROVE  RegistryTyped'
    BY DEF OrderNext, RegistryTyped
  <2> DEFINE row == [registry[j] EXCEPT !.edges = @ \cup {[parent |-> parent, on |-> "completed"]}]
  <2>1. registry' = [registry EXCEPT ![j] = row]
    BY DEF AddEdge
  <2>2. row \in [edges : SUBSET [parent : Job, on : {"completed"}]]
    BY DEF RegistryTyped
  <2> HIDE DEF row
  <2> QED BY <2>1, <2>2 DEF RegistryTyped
<1> QED BY <1>1, <1>2, PTL DEF OrderSpec

(* What is above a job: its parents, and all that is above them *)
LEMMA UpstreamClosed ==
    ASSUME RegistryTyped, NEW j \in Job
    PROVE  /\ Parents(j, registry) \subseteq Upstream[j] /\ Upstream[j] \subseteq Job
           /\ \A i \in Upstream[j] : Parents(i, registry) \subseteq Upstream[j]
           /\ \A S \in SUBSET Job :
                 /\ \A i \in S : Parents(i, registry) \subseteq S
                 /\ Parents(j, registry) \subseteq S
                 => Upstream[j] \subseteq S
<1> DEFINE closed == {S \in SUBSET Job : \A i \in S : Parents(i, registry) \subseteq S}
<1>1. Upstream[j] = {up \in Job : \A S \in closed : Parents(j, registry) \subseteq S => up \in S}
  BY DEF Upstream
<1>2. \A i \in Job : Parents(i, registry) \subseteq Job
  BY DEF RegistryTyped, Parents
<1>3. Parents(j, registry) \subseteq Upstream[j] /\ Upstream[j] \subseteq Job
  BY <1>1, <1>2
<1>4. ASSUME NEW i \in Upstream[j] PROVE Parents(i, registry) \subseteq Upstream[j]
  <2> HIDE DEF closed
  <2>1. i \in Job /\ \A S \in closed : Parents(j, registry) \subseteq S => i \in S
    BY <1>1, <1>4
  <2>2. \A S \in closed : i \in S => Parents(i, registry) \subseteq S
    BY DEF closed
  <2> QED BY <1>1, <1>2, <2>1, <2>2
<1>5. ASSUME NEW S \in SUBSET Job, \A i \in S : Parents(i, registry) \subseteq S,
             Parents(j, registry) \subseteq S
      PROVE  Upstream[j] \subseteq S
  <2>1. S \in closed
    BY <1>5
  <2> HIDE DEF closed
  <2> QED BY <1>1, <1>5, <2>1
<1> QED BY <1>3, <1>4, <1>5

(* What is above something above a job is above the job. *)
LEMMA UpstreamNested ==
    ASSUME RegistryTyped, NEW j \in Job, NEW i \in Upstream[j]
    PROVE  Upstream[i] \subseteq Upstream[j]
<1>1. /\ Upstream[j] \in SUBSET Job /\ Parents(i, registry) \subseteq Upstream[j]
      /\ \A k \in Upstream[j] : Parents(k, registry) \subseteq Upstream[j]
  BY UpstreamClosed
<1>2. i \in Job
  BY <1>1
<1> QED BY <1>1, <1>2, UpstreamClosed

(* A tick orders the jobs no cycle is at or above and none of a cycle's     *)
(* members (plan.py, order_jobs).  The proof is of more: what the code      *)
(* leaves out is exactly the cycles and the jobs below them.               *)
THEOREM CycleFreeAreOrdered == OrderSpec => []CycleFreeRuns
<1> DEFINE cyclic == {j \in Job : j \in Upstream[j]}
           ordered == Orderable(registry)
<1>1. ASSUME RegistryTyped, NEW j \in ordered
      PROVE  j \in Job /\ j \notin Upstream[j] /\ Upstream[j] \subseteq ordered
  <2> DEFINE N == Cardinality(Job)
             m == Round(j, registry)
             before == Placed(registry)[m - 1]
  <2>1. N \in Nat
    BY PlanAssumption, FS_CardinalityType
  <2>2. m \in 1..N /\ j \in Placed(registry)[m] /\ j \notin before /\ Parents(j, registry) \subseteq before
    BY RoundPlaced
  <2> HIDE DEF N, m
  <2>3. m \in 0..N /\ m - 1 \in 0..N /\ N \in (m - 1)..N
    BY <2>1, <2>2
  <2>4. j \in Job /\ before \in SUBSET Job /\ before \subseteq ordered
    BY <2>2, <2>3, PlacedGrows DEF N, Orderable
  <2>5. \A i \in before : Parents(i, registry) \subseteq before
    BY <2>3, PlacedIsClosed DEF N
  <2> HIDE DEF before, ordered
  <2>6. Upstream[j] \subseteq before
    BY <1>1, <2>2, <2>4, <2>5, UpstreamClosed
  <2> QED BY <2>2, <2>4, <2>6
<1>2. ASSUME RegistryTyped, NEW j \in Job, j \notin ordered, j \notin cyclic
      PROVE  Upstream[j] \cap cyclic # {}
  <2> DEFINE stuck == {i \in Upstream[j] \cup {j} : i \notin ordered}
             above(i) == Cardinality(Upstream[i])
             T == {above(i) : i \in stuck}
  <2>1. \A i \in Upstream[j] \cup {j} :
           i \in Job /\ Upstream[i] \subseteq Upstream[j] /\ IsFiniteSet(Upstream[i]) /\ above(i) \in Nat
    <3>1. \A i \in Upstream[j] \cup {j} : i \in Job /\ Upstream[i] \subseteq Upstream[j]
      BY <1>2, UpstreamClosed, UpstreamNested
    <3>2. \A i \in Job : IsFiniteSet(Upstream[i]) /\ above(i) \in Nat
      BY <1>2, UpstreamClosed, PlanAssumption, FS_Subset, FS_CardinalityType
    <3> QED BY <3>1, <3>2
  <2>2. PICK x \in stuck : \A i \in stuck : above(x) <= above(i)
    <3>1. T \in SUBSET Nat /\ T # {}
      BY <1>2, <2>1
    <3> HIDE DEF T
    <3>2. PICK t \in T : \A u \in T : t <= u
      BY <3>1, LeastNatural
    <3> QED BY <3>2 DEF T
  <2>3. x \in Job /\ x \notin ordered /\ Upstream[x] \subseteq Upstream[j]
    BY <2>1
  <2>4. PICK parent \in Parents(x, registry) : parent \notin ordered
    <3>1. \A i \in Job : Parents(i, registry) \subseteq Job
      BY <1>2 DEF RegistryTyped, Parents
    <3> HIDE DEF stuck
    <3> QED BY <2>3, <3>1, NothingLeft
  <2>5. parent \in Upstream[x] /\ Upstream[parent] \subseteq Upstream[x]
    BY <1>2, <2>3, UpstreamClosed, UpstreamNested
  <2>6. parent \in stuck /\ parent \in Job
    BY <2>1, <2>3, <2>4, <2>5
  <2>7. above(x) <= above(parent) /\ above(parent) \in Nat /\ above(x) \in Nat
    BY <2>1, <2>2, <2>6
  <2>8. Upstream[parent] = Upstream[x]
    <3>1. IsFiniteSet(Upstream[x]) /\ Upstream[parent] \in SUBSET Upstream[x]
      BY <2>1, <2>5
    <3> QED BY <2>7, <3>1, FS_Subset
  <2> QED BY <2>3, <2>5, <2>6, <2>8
<1>3. ASSUME RegistryTyped
      PROVE  ordered = {j \in Job : Upstream[j] \cap cyclic = {}}
  <2>1. \A j \in ordered : j \in Job /\ j \notin cyclic
    BY <1>1, <1>3
  <2>2. \A j \in ordered : Upstream[j] \cap cyclic = {}
    BY <1>1, <1>3, <2>1
  <2>3. \A j \in cyclic : j \in Upstream[j] \cap cyclic
    OBVIOUS
  <2> HIDE DEF ordered, cyclic
  <2> QED BY <1>2, <1>3, <2>1, <2>2, <2>3
<1>4. RegistryTyped => CycleFreeRuns
  <2> SUFFICES ASSUME RegistryTyped
               PROVE  /\ ordered \cap cyclic = {}
                      /\ {j \in Job : Upstream[j] \cap cyclic = {}} \subseteq ordered
    BY DEF CycleFreeRuns
  <2>1. \A j \in cyclic : j \in Upstream[j] \cap cyclic
    OBVIOUS
  <2> HIDE DEF ordered, cyclic
  <2> QED BY <1>3, <2>1
<1> QED BY <1>4, RegistryIsTyped, PTL

-----------------------------------------------------------------------------
(* The plan is well typed.                                                 *)

LEMMA HourTyped ==
    ASSUME NEW t \in Nat
    PROVE  HourOf(t) \in Nat
<1>1. HourLen \in Nat /\ HourLen > 0
  BY PlanAssumption
<1>2. t \div HourLen \in Nat
  BY <1>1
<1> QED BY <1>1, <1>2 DEF HourOf

LEMMA MonthTyped ==
    ASSUME NEW t \in Nat
    PROVE  MonthlyOccurrence(t) \in Nat
<1>1. MonthLen \in Nat /\ MonthLen > 0
  BY PlanAssumption
<1>2. t \div MonthLen \in Nat
  BY <1>1
<1> QED BY <1>1, <1>2 DEF MonthlyOccurrence

TypedEvidence(ev) ==
    /\ \A s \in Source : ev.expected[s] \in Nat /\ ev.newAt[s] \in Nat
    /\ \A j \in Job : ev.ranAt[j] \in Nat /\ ev.derivedAt[j] \in Nat

LEMMA CadenceTyped ==
    ASSUME NEW ev, TypedEvidence(ev), NEW now \in Nat, NEW j \in DOMAIN Registry
    PROVE  CadenceDue(j, ev, now) \subseteq Nat
<1>1. /\ j \in Job /\ Registry[j].interval \in Nat
      /\ Registry[j].sources \subseteq Source
  BY PlanAssumption DEF JobRow
<1>2. HourOf(now) \in Nat /\ MonthlyOccurrence(now) \in Nat
  BY HourTyped, MonthTyped
<1>3. ev.ranAt[j] \in Nat /\ \A s \in Registry[j].sources : ev.expected[s] \in Nat
  BY <1>1 DEF TypedEvidence
<1>4. IntervalDue(j, ev, now) \subseteq Nat
  <2> DEFINE expected == {ev.expected[s] : s \in Registry[j].sources} \ {Never}
             own == {t \in {ev.ranAt[j] + Registry[j].interval} : now >= t}
  <2>1. expected \subseteq Nat /\ own \subseteq Nat
    BY <1>1, <1>3
  <2>2. \/ IntervalDue(j, ev, now) \subseteq {HourOf(now)}
        \/ IntervalDue(j, ev, now) = own
        \/ IntervalDue(j, ev, now) \subseteq expected
    BY DEF IntervalDue
  <2> QED BY <2>1, <2>2, <1>2
<1> QED BY <1>2, <1>4 DEF CadenceDue

LEMMA EventsTyped ==
    ASSUME NEW ev, TypedEvidence(ev), NEW j \in DOMAIN Registry
    PROVE  DependencyEvents(j, ev) \subseteq Nat
<1>1. ASSUME NEW e \in Known(j)
      PROVE  EdgeEvents(e, ev) \subseteq Nat
  <2>1. e.parent \in Job /\ Registry[e.parent].sources \subseteq Source
    BY PlanAssumption DEF Known, JobRow
  <2> QED BY <2>1 DEF EdgeEvents, TypedEvidence
<1> QED BY <1>1 DEF DependencyEvents

LEMMA DueTyped ==
    ASSUME NEW ev, TypedEvidence(ev), NEW now \in Nat, NEW j \in DOMAIN Registry
    PROVE  DueFor(j, ev, now) \subseteq PlanEntry
<1>1. j \in Job /\ HourOf(now) \in Nat
  BY PlanAssumption, HourTyped
<1>2. ASSUME NEW t \in Nat
      PROVE  Due(j, t) \in PlanEntry
  BY <1>1 DEF Due, PlanEntry, RefusalCode
<1>3. /\ Refused(j, HourOf(now), "dependency_failed") \in PlanEntry
      /\ Refused(j, HourOf(now), "dependency_never_ran") \in PlanEntry
  BY <1>1 DEF Refused, PlanEntry, RefusalCode
<1>4. AfterDependency(j, ev, now) \subseteq PlanEntry
  <2>1. DependencyEvents(j, ev) \subseteq Nat
    BY EventsTyped
  <2> QED BY <2>1, <1>2, <1>3 DEF AfterDependency
<1>5. {Due(j, t) : t \in CadenceDue(j, ev, now)} \subseteq PlanEntry
  BY <1>2, CadenceTyped
<1> QED BY <1>4, <1>5 DEF DueFor

LEMMA PlanTyped ==
    ASSUME NEW ev, TypedEvidence(ev), NEW now \in Nat, NEW inFlight
    PROVE  PlanTick(ev, now, inFlight) \subseteq PlanEntry
<1>1. HourOf(now) \in Nat
  BY HourTyped
<1>2. ASSUME NEW j \in Job, NEW code \in RefusalCode
      PROVE  Refused(j, HourOf(now), code) \in PlanEntry
  BY <1>1 DEF Refused, PlanEntry
<1>3. Proposed(ev, now, inFlight) \subseteq PlanEntry
  <2>1. ASSUME NEW j \in Resolvable
        PROVE  (IF j \in inFlight THEN {Refused(j, HourOf(now), "run_in_flight")}
                ELSE DueFor(j, ev, now)) \subseteq PlanEntry
    <3>1. j \in DOMAIN Registry /\ j \in Job
      BY PlanAssumption DEF Resolvable
    <3>2. "run_in_flight" \in RefusalCode
      BY DEF RefusalCode
    <3> QED BY <3>1, <3>2, <1>2, DueTyped
  <2> QED BY <2>1 DEF Proposed
<1>4. ASSUME NEW e \in PlanEntry
      PROVE  Settle(e, now) \in PlanEntry
  <2>1. e.job \in Job /\ "dependency_cycle" \in RefusalCode
    BY DEF PlanEntry, RefusalCode
  <2>2. [e EXCEPT !.action = "run"] \in PlanEntry
    BY DEF PlanEntry
  <2> QED BY <2>1, <2>2, <1>2 DEF Settle
<1> QED BY <1>3, <1>4 DEF PlanTick

-----------------------------------------------------------------------------
(* The inductive invariant.  The ledger can only be truthful if a row that  *)
(* launch or reconcile is about to close is still open and its unit is the *)
(* one the closer looked at, so the invariant ties processes to rows and   *)
(* rows to units.                                                          *)

Active(p) == proc[p].pc \in {"opened", "wait"}

(* a live process that still has its connection holds the session lock *)
SessionInv ==
    \A p \in Proc :
        /\ proc[p].pc # "idle" /\ proc[p].connected => session = p
        /\ ~Active(p) => proc[p].connected
        /\ proc[p].open # {} => proc[p].pc = "reconcile"

(* what a process means to reconcile is still open, what it runs exists *)
RowInv ==
    \A p \in Proc :
        /\ \A r \in proc[p].open : r \in DOMAIN job_runs /\ job_runs[r].outcome = "open"
        /\ Active(p) => proc[p].run \in DOMAIN job_runs

RunInv ==
    /\ \A p \in Proc :
          /\ proc[p].pc = "opened" => unit[proc[p].run].state = "none"
          /\ proc[p].pc = "wait"   => unit[proc[p].run].state # "none"
    /\ \A p, q \in Proc : Active(p) /\ Active(q) /\ p # q => proc[p].run # proc[q].run

UnitInv ==
    \A r \in RunId :
        /\ unit[r].result = "none" <=> unit[r].state \in {"none", "active"}
        /\ r \notin DOMAIN job_runs => unit[r].state = "none"

TruthInv ==
    \A r \in DOMAIN job_runs :
        /\ job_runs[r].outcome = "ran"    => unit[r].result = "ok"
        /\ job_runs[r].outcome = "failed" => unit[r].result = "bad"

IInv == TypeOK /\ SessionInv /\ RowInv /\ RunInv /\ UnitInv /\ TruthInv

LEMMA RowFacts ==
    ASSUME TypeOK
    PROVE  /\ Len(job_runs) \in Nat /\ DOMAIN job_runs = 1..Len(job_runs)
           /\ DOMAIN job_runs \subseteq RunId
           /\ \A r \in DOMAIN job_runs : job_runs[r] \in RunRow
<1>1. /\ Len(job_runs) \in Nat /\ DOMAIN job_runs = 1..Len(job_runs)
      /\ \A r \in 1..Len(job_runs) : job_runs[r] \in RunRow
  BY LenProperties, ElementOfSeq DEF TypeOK
<1> QED BY <1>1, SchedulerAssumption DEF TypeOK, RunId

LEMMA ClosedFacts ==
    ASSUME TypeOK, NEW r \in DOMAIN job_runs, NEW outcome \in Outcome, NEW at \in Time
    PROVE  /\ Closed(r, outcome, at) \in Seq(RunRow)
           /\ Len(Closed(r, outcome, at)) = Len(job_runs)
           /\ DOMAIN Closed(r, outcome, at) = DOMAIN job_runs
           /\ Closed(r, outcome, at)[r].outcome = outcome
           /\ \A q \in DOMAIN job_runs \ {r} : Closed(r, outcome, at)[q] = job_runs[q]
<1> DEFINE row == [job_runs[r] EXCEPT !.outcome = outcome, !.completed = at]
<1>1. r \in 1..Len(job_runs) /\ DOMAIN job_runs = 1..Len(job_runs)
      /\ job_runs \in Seq(RunRow) /\ job_runs[r] \in RunRow
  BY RowFacts DEF TypeOK
<1>2. row \in RunRow /\ row.outcome = outcome
  BY <1>1 DEF RunRow
<1>3. Closed(r, outcome, at) = [job_runs EXCEPT ![r] = row]
  BY DEF Closed
<1> HIDE DEF row
<1>4. /\ [job_runs EXCEPT ![r] = row] \in Seq(RunRow)
      /\ Len([job_runs EXCEPT ![r] = row]) = Len(job_runs)
      /\ \A q \in 1..Len(job_runs) :
            [job_runs EXCEPT ![r] = row][q] = IF q = r THEN row ELSE job_runs[q]
  BY <1>1, <1>2, ExceptSeq
<1> QED BY <1>1, <1>2, <1>3, <1>4

LEMMA AppendFacts ==
    ASSUME TypeOK, NEW row \in RunRow
    PROVE  /\ Append(job_runs, row) \in Seq(RunRow)
           /\ Len(Append(job_runs, row)) = Len(job_runs) + 1
           /\ DOMAIN Append(job_runs, row) = DOMAIN job_runs \cup {Len(job_runs) + 1}
           /\ Len(job_runs) + 1 \notin DOMAIN job_runs
           /\ Append(job_runs, row)[Len(job_runs) + 1] = row
           /\ \A q \in DOMAIN job_runs : Append(job_runs, row)[q] = job_runs[q]
<1>1. job_runs \in Seq(RunRow) /\ Len(job_runs) \in Nat /\ DOMAIN job_runs = 1..Len(job_runs)
  BY RowFacts DEF TypeOK
<1>2. /\ Append(job_runs, row) \in Seq(RunRow)
      /\ Len(Append(job_runs, row)) = Len(job_runs) + 1
      /\ DOMAIN Append(job_runs, row) = 1..(Len(job_runs) + 1)
      /\ \A i \in 1..Len(job_runs) : Append(job_runs, row)[i] = job_runs[i]
      /\ Append(job_runs, row)[Len(job_runs) + 1] = row
  BY <1>1, AppendProperties, LenProperties
<1>3. 1..(Len(job_runs) + 1) = 1..Len(job_runs) \cup {Len(job_runs) + 1}
  BY <1>1
<1> QED BY <1>1, <1>2, <1>3

LEMMA EvidenceTyped ==
    ASSUME TypeOK
    PROVE  TypedEvidence(Evidence)
<1>1. MaxTime \in Nat
  BY SchedulerAssumption
<1>2. ASSUME NEW rows \in SUBSET DOMAIN job_runs
      PROVE  Max({job_runs[r].completed : r \in rows} \cup {Never}) \in Nat
  <2> DEFINE S == {job_runs[r].completed : r \in rows} \cup {Never}
  <2>1. S \in SUBSET (0..MaxTime) /\ S # {}
    BY RowFacts, <1>1 DEF RunRow, Time
  <2> HIDE DEF S
  <2>2. Max(S) \in S
    BY <2>1, <1>1, MaxMember
  <2>3. S \subseteq Nat
    BY <2>1, <1>1
  <2>4. Max(S) \in Nat
    BY <2>2, <2>3
  <2> QED BY <2>4 DEF S
<1>3. ASSUME NEW j \in Job
      PROVE  RanAt(j) \in Nat /\ DerivedAt(j) \in Nat
  BY <1>2 DEF RanAt, DerivedAt, RanRows, RowsOf
<1>4. ASSUME NEW s \in Source
      PROVE  NextExpected(s) \in Nat /\ newAt[s] \in Nat
  BY <1>1, PlanAssumption DEF NextExpected, TypeOK, Time
<1> QED BY <1>3, <1>4 DEF TypedEvidence, Evidence

-----------------------------------------------------------------------------
(* What a step does to one process, and to the locks.                      *)

LEMMA IdleTyped == Idle \in Process /\ Idle.open = {} /\ Idle.connected
<1>1. 0 \in Time
  BY SchedulerAssumption DEF Time
<1> QED BY <1>1 DEF Idle, Process, Never

LEMMA ProcFacts ==
    ASSUME TypeOK, NEW p \in Proc, NEW x \in Process, proc' = [proc EXCEPT ![p] = x]
    PROVE  /\ proc' \in [Proc -> Process]
           /\ proc'[p] = x
           /\ \A q \in Proc \ {p} : proc'[q] = proc[q]
BY DEF TypeOK

LEMMA ReleaseFacts ==
    ASSUME TypeOK, SessionInv, NEW p \in Proc, Release(p)
    PROVE  /\ session' \in Proc \cup {NoProc}
           /\ jobLock' \in [Job -> Proc \cup {NoProc}]
           /\ \A q \in Proc \ {p} : session = q => session' = q
BY SchedulerAssumption DEF TypeOK, Release

LEMMA RecordedTyped ==
    ASSUME TypeOK, NEW e \in PlanEntry
    PROVE  Recorded(e) \subseteq PlanRow
BY DEF TypeOK, PlanEntry, PlanRow, Recorded

LEMMA EntryTyped ==
    ASSUME TypeOK, NEW p \in Proc, NEW e \in Foremost(proc[p].entries)
    PROVE  /\ e \in PlanEntry /\ e.job \in Job /\ e.planned \in Nat
           /\ proc[p].now \in Time /\ proc[p].now \in Nat /\ HourOf(proc[p].now) \in Nat
           /\ Guarded(p, e) \in PlanEntry
<1>1. e \in PlanEntry /\ e.job \in Job /\ e.planned \in Nat /\ proc[p].now \in Time
  BY DEF TypeOK, Process, Foremost, PlanEntry
<1>2. proc[p].now \in Nat /\ HourOf(proc[p].now) \in Nat
  BY <1>1, SchedulerAssumption, HourTyped DEF Time
<1>3. ASSUME NEW at \in Nat, NEW code \in RefusalCode
      PROVE  Refused(e.job, at, code) \in PlanEntry
  BY <1>1 DEF Refused, PlanEntry
<1>4. {"entry_point_missing", "requires_superuser", "deferred"} \subseteq RefusalCode
  BY DEF RefusalCode
<1>5. Guarded(p, e) \in PlanEntry
  BY <1>1, <1>2, <1>3, <1>4 DEF Guarded
<1> QED BY <1>1, <1>2, <1>5

(* a fault is counted under its kind *)
LEMMA FaultFacts ==
    ASSUME TypeOK, NEW kind \in FaultKind, Fault(kind)
    PROVE  /\ faults' \in [FaultKind -> Nat]
           /\ ~NoFault'
           /\ Trusted' => Trusted /\ kind \notin {"connection", "silence"}
<1>1. /\ faults \in [FaultKind -> Nat] /\ faults[kind] \in Nat
      /\ faults' = [faults EXCEPT ![kind] = faults[kind] + 1]
  BY DEF TypeOK, Fault
<1>2. /\ faults'[kind] = faults[kind] + 1 /\ faults'[kind] \in Nat /\ faults'[kind] # 0
      /\ \A k \in FaultKind \ {kind} : faults'[k] = faults[k]
      /\ faults' \in [FaultKind -> Nat]
  BY <1>1
<1>3. ~NoFault'
  BY <1>2 DEF NoFault
<1>4. Trusted' => Trusted /\ kind \notin {"connection", "silence"}
  BY <1>2 DEF Trusted, FaultKind
<1> QED BY <1>2, <1>3, <1>4

LEMMA InitInv == Init => IInv
<1> SUFFICES ASSUME Init PROVE IInv
  OBVIOUS
<1>1. MonthLen \in Time /\ 0 \in Time /\ MaxRuns \in Nat
  BY PlanAssumption, SchedulerAssumption DEF Time
<1>2. job_runs \in Seq(RunRow) /\ Len(job_runs) = 0 /\ DOMAIN job_runs = {}
  BY DEF Init
<1>3. \A p \in Proc : proc[p] = Idle
  BY DEF Init
<1>4. TypeOK
  BY <1>1, <1>2, IdleTyped DEF Init, TypeOK, Unit
<1>5. SessionInv /\ RowInv /\ RunInv
  BY <1>3 DEF SessionInv, RowInv, RunInv, Active, Idle
<1>6. UnitInv /\ TruthInv
  BY <1>2 DEF Init, UnitInv, TruthInv
<1> QED BY <1>4, <1>5, <1>6 DEF IInv

-----------------------------------------------------------------------------
(* Every action preserves the invariant.                                   *)

LEMMA StartTickInv ==
    ASSUME IInv, NEW p \in Proc, StartTick(p)
    PROVE  IInv'
<1> DEFINE x == [Idle EXCEPT !.pc = "reconcile", !.now = clock,
                     !.open = {r \in DOMAIN job_runs : job_runs[r].outcome = "open"}]
<1> USE DEF IInv
<1>1. x \in Process /\ x.pc = "reconcile" /\ x.connected
      /\ x.open = {r \in DOMAIN job_runs : job_runs[r].outcome = "open"}
  BY RowFacts, IdleTyped DEF TypeOK, Process, Idle
<1>2. proc' = [proc EXCEPT ![p] = x]
  BY DEF StartTick
<1> HIDE DEF x
<1>3. proc' \in [Proc -> Process] /\ proc'[p] = x /\ \A q \in Proc \ {p} : proc'[q] = proc[q]
  BY <1>1, <1>2, ProcFacts
<1>4. UNCHANGED <<clock, jobLock, job_runs, plan_rows, unit, poll, newAt, faults>> /\ session' = p
  BY DEF StartTick, ledger, attempts
<1>5. TypeOK'
  BY <1>3, <1>4 DEF TypeOK
<1>6. SessionInv'
  <2>1. \A q \in Proc : session # q
    BY SchedulerAssumption DEF StartTick
  <2> QED BY <2>1, <1>1, <1>3, <1>4 DEF SessionInv, Active
<1>7. RowInv' /\ RunInv'
  BY <1>1, <1>3, <1>4 DEF RowInv, RunInv, Active
<1>8. UnitInv' /\ TruthInv'
  BY <1>4 DEF UnitInv, TruthInv
<1> QED BY <1>5, <1>6, <1>7, <1>8

(* no other process has a row to reconcile while one closes a row *)
LEMMA SoleCloser ==
    ASSUME IInv, NEW p \in Proc, proc[p].pc # "idle", proc[p].connected,
           NEW q \in Proc \ {p}
    PROVE  proc[q].open = {}
BY DEF IInv, SessionInv, Active

Answer == {"active", "stopped", "not-found", Silent}

(* a reconcile reads one row and one answer about its unit *)
LEMMA AnswerTaken ==
    ASSUME NEW p \in Proc, ReconcileRow(p)
    PROVE  \E r \in Oldest(proc[p].open), answer \in Answer :
               /\ Reconciled(p, r, answer)
               /\ \/ answer = Shown(r) /\ UNCHANGED faults
                  \/ answer = Silent /\ Fault("silence")
<1>1. PICK r \in Oldest(proc[p].open) :
          \/ Reconciled(p, r, Shown(r)) /\ UNCHANGED faults
          \/ Reconciled(p, r, Silent) /\ Fault("silence")
  BY DEF ReconcileRow
<1>2. Shown(r) \in Answer /\ Silent \in Answer
  BY DEF Answer
<1> QED BY <1>1, <1>2

LEMMA ReconcileRowInv ==
    ASSUME IInv, NEW p \in Proc, ReconcileRow(p)
    PROVE  IInv'
<1> USE DEF IInv
<1>1. PICK r \in Oldest(proc[p].open), answer \in Answer :
          /\ Reconciled(p, r, answer)
          /\ \/ answer = Shown(r) /\ UNCHANGED faults
             \/ answer = Silent /\ Fault("silence")
  BY AnswerTaken
<1>2. /\ proc[p].pc = "reconcile" /\ proc[p].connected
      /\ UNCHANGED <<clock, session, jobLock, plan_rows, poll, newAt>>
      /\ faults' \in [FaultKind -> Nat]
  BY <1>1, FaultFacts DEF ReconcileRow, attempts, TypeOK, FaultKind
<1>3. r \in proc[p].open /\ r \in DOMAIN job_runs /\ job_runs[r].outcome = "open"
      /\ r \in RunId /\ job_runs[r] \in RunRow /\ proc[p].now \in Time
  BY RowFacts DEF Oldest, RowInv, TypeOK, Process
<1>4. CASE Running(answer)
  <2> DEFINE x == [proc[p] EXCEPT !.open = @ \ {r}, !.inFlight = @ \cup {job_runs[r].job}]
  <2>1. x \in Process /\ x.pc = "reconcile" /\ x.connected /\ x.open \subseteq proc[p].open
        /\ proc' = [proc EXCEPT ![p] = x]
    BY <1>1, <1>2, <1>3, <1>4 DEF Reconciled, TypeOK, Process, RunRow
  <2> HIDE DEF x
  <2>2. proc' \in [Proc -> Process] /\ proc'[p] = x /\ \A q \in Proc \ {p} : proc'[q] = proc[q]
    BY <2>1, ProcFacts
  <2>3. UNCHANGED <<job_runs, unit>>
    BY <1>1, <1>4 DEF Reconciled
  <2>4. TypeOK'
    BY <1>2, <2>2, <2>3 DEF TypeOK
  <2>5. SessionInv' /\ RowInv' /\ RunInv'
    BY <1>2, <2>1, <2>2, <2>3 DEF SessionInv, RowInv, RunInv, Active
  <2> QED BY <2>3, <2>4, <2>5 DEF UnitInv, TruthInv
<1>5. CASE ~Running(answer)
  <2> DEFINE x == [proc[p] EXCEPT !.open = @ \ {r}]
             u == [unit[r] EXCEPT !.state = IF answer = "stopped" THEN "gone"
                                            ELSE unit[r].state]
  <2>1. x \in Process /\ x.pc = "reconcile" /\ x.connected /\ x.open = proc[p].open \ {r}
        /\ proc' = [proc EXCEPT ![p] = x]
    BY <1>1, <1>2, <1>5 DEF Reconciled, TypeOK, Process
  <2>2. u \in Unit /\ u.result = unit[r].result
        /\ (u.state = unit[r].state \/ (u.state = "gone" /\ unit[r].state = "loaded"))
        /\ unit' = [unit EXCEPT ![r] = u]
    <3>1. unit[r] \in Unit /\ unit \in [RunId -> Unit]
      BY <1>3 DEF TypeOK
    <3>2. unit' = [unit EXCEPT ![r].state = IF answer = "stopped" THEN "gone"
                                           ELSE unit[r].state]
      BY <1>1, <1>5 DEF Reconciled
    <3>3. answer = "stopped" => unit[r].state = "loaded"
      BY <1>1
    <3>4. u \in Unit /\ u.result = unit[r].result
          /\ (u.state = unit[r].state \/ (u.state = "gone" /\ unit[r].state = "loaded"))
      BY <3>1, <3>3 DEF Unit
    <3> QED BY <3>2, <3>4
  <2> HIDE DEF x, u
  <2>3. proc' \in [Proc -> Process] /\ proc'[p] = x /\ \A q \in Proc \ {p} : proc'[q] = proc[q]
    BY <2>1, ProcFacts
  <2>4. unit' \in [RunId -> Unit] /\ unit'[r] = u /\ \A q \in RunId \ {r} : unit'[q] = unit[q]
    BY <1>3, <2>2 DEF TypeOK
  <2>5. ShownOutcome(r, answer) \in Outcome /\ job_runs' = Closed(r, ShownOutcome(r, answer), proc[p].now)
    BY <1>1, <1>5 DEF Reconciled, ShownOutcome, Outcome
  <2>6. /\ job_runs' \in Seq(RunRow) /\ Len(job_runs') = Len(job_runs)
        /\ DOMAIN job_runs' = DOMAIN job_runs /\ job_runs'[r].outcome = ShownOutcome(r, answer)
        /\ \A q \in DOMAIN job_runs \ {r} : job_runs'[q] = job_runs[q]
    BY <1>3, <2>5, ClosedFacts
  <2>7. TypeOK'
    BY <1>2, <2>3, <2>4, <2>6 DEF TypeOK
  <2>8. SessionInv'
    BY <1>2, <2>1, <2>3 DEF SessionInv, Active
  <2>9. RowInv'
    BY <1>2, <2>1, <2>3, <2>6, SoleCloser DEF RowInv, Active
  <2>10. RunInv'
    <3>1. \A q \in Proc : Active(q) => proc[q].run \in RunId
      BY RowFacts DEF RowInv
    <3>2. \A i \in RunId : unit'[i].state = "none" <=> unit[i].state = "none"
      BY <2>2, <2>4
    <3> QED BY <1>2, <2>1, <2>3, <3>1, <3>2 DEF RunInv, Active
  <2>11. UnitInv'
    BY <1>3, <1>5, <2>2, <2>4, <2>6 DEF UnitInv
  <2>12. TruthInv'
    <3>1. unit'[r].result = unit[r].result /\ unit[r].result \in {"none", "ok", "bad"}
      BY <1>3, <2>2, <2>4 DEF TypeOK, Unit
    <3>2. /\ ShownOutcome(r, answer) = "ran" => unit[r].result = "ok"
          /\ ShownOutcome(r, answer) = "failed" => unit[r].result = "bad"
      <4>1. answer \notin {Silent, "not-found"} => unit[r].state = "loaded"
        BY <1>1, <1>5
      <4>2. unit[r].state = "loaded" => unit[r].result # "none"
        BY <1>3 DEF UnitInv
      <4> QED BY <3>1, <4>1, <4>2 DEF ShownOutcome
    <3>3. DOMAIN job_runs \subseteq RunId
      BY RowFacts
    <3> QED BY <2>4, <2>6, <3>1, <3>2, <3>3 DEF TruthInv
  <2> QED BY <2>7, <2>8, <2>9, <2>10, <2>11, <2>12
<1> QED BY <1>4, <1>5

LEMMA MakePlanInv ==
    ASSUME IInv, NEW p \in Proc, MakePlan(p)
    PROVE  IInv'
<1> USE DEF IInv
<1> DEFINE plan == PlanTick(Evidence, proc[p].now, proc[p].inFlight)
           x == [proc[p] EXCEPT !.pc = "act", !.entries = plan]
<1>1. plan \subseteq PlanEntry
  <2>1. proc[p].now \in Nat
    BY SchedulerAssumption DEF TypeOK, Process, Time
  <2> QED BY <2>1, EvidenceTyped, PlanTyped
<1> HIDE DEF plan
<1>2. x \in Process /\ x.pc = "act" /\ x.connected /\ x.open = {}
      /\ proc' = [proc EXCEPT ![p] = x]
  BY <1>1 DEF MakePlan, TypeOK, Process, plan
<1> HIDE DEF x
<1>3. proc' \in [Proc -> Process] /\ proc'[p] = x /\ \A q \in Proc \ {p} : proc'[q] = proc[q]
  BY <1>2, ProcFacts
<1>4. UNCHANGED <<clock, session, jobLock, job_runs, plan_rows, unit, poll, newAt, faults>>
      /\ proc[p].pc = "reconcile" /\ proc[p].connected
  BY DEF MakePlan, ledger, attempts
<1>5. TypeOK'
  BY <1>3, <1>4 DEF TypeOK
<1>6. SessionInv' /\ RowInv' /\ RunInv'
  BY <1>2, <1>3, <1>4 DEF SessionInv, RowInv, RunInv, Active
<1> QED BY <1>4, <1>5, <1>6 DEF UnitInv, TruthInv

(* a process handles an entry without launching it *)
LEMMA ActedInv ==
    ASSUME IInv, NEW p \in Proc, NEW e \in Foremost(proc[p].entries), Acting(p),
           proc' = [proc EXCEPT ![p] = Acted(p, e)],
           plan_rows' \subseteq PlanRow,
           UNCHANGED <<clock, session, jobLock, job_runs, unit, poll, newAt, faults>>
    PROVE  IInv'
<1> USE DEF IInv
<1>1. /\ Acted(p, e) \in Process /\ Acted(p, e).pc = "act" /\ Acted(p, e).connected
      /\ Acted(p, e).open = proc[p].open
  BY DEF Acted, Acting, TypeOK, Process
<1>2. /\ proc' \in [Proc -> Process] /\ proc'[p] = Acted(p, e)
      /\ \A q \in Proc \ {p} : proc'[q] = proc[q]
  BY <1>1, ProcFacts
<1>3. TypeOK'
  BY <1>2 DEF TypeOK
<1>4. SessionInv' /\ RowInv' /\ RunInv'
  BY <1>1, <1>2 DEF SessionInv, RowInv, RunInv, Active, Acting
<1> QED BY <1>3, <1>4 DEF UnitInv, TruthInv

LEMMA RecordEntryInv ==
    ASSUME IInv, NEW p \in Proc, RecordEntry(p)
    PROVE  IInv'
<1>1. PICK e \in Foremost(proc[p].entries) :
          plan_rows' = Recorded(Guarded(p, e)) /\ proc' = [proc EXCEPT ![p] = Acted(p, e)]
  BY DEF RecordEntry
<1>2. plan_rows' \subseteq PlanRow
  BY <1>1, EntryTyped, RecordedTyped DEF IInv
<1>3. UNCHANGED <<clock, session, jobLock, job_runs, unit, poll, newAt, faults>> /\ Acting(p)
  BY DEF RecordEntry, attempts
<1> QED BY <1>1, <1>2, <1>3, ActedInv

LEMMA SkipLaunchInv ==
    ASSUME IInv, NEW p \in Proc, SkipLaunch(p)
    PROVE  IInv'
<1>1. PICK e \in Foremost(proc[p].entries) : proc' = [proc EXCEPT ![p] = Acted(p, e)]
  BY DEF SkipLaunch
<1>2. UNCHANGED <<clock, session, jobLock, job_runs, plan_rows, unit, poll, newAt, faults>>
      /\ Acting(p)
  BY DEF SkipLaunch, attempts, ledger
<1>3. plan_rows' \subseteq PlanRow
  BY <1>2 DEF IInv, TypeOK
<1> QED BY <1>1, <1>2, <1>3, ActedInv

LEMMA LaunchInv ==
    ASSUME IInv, NEW p \in Proc, Launch(p)
    PROVE  IInv'
<1> USE DEF IInv
<1>1. PICK e \in Foremost(proc[p].entries) :
          IF jobLock[e.job] \in {NoProc, p}
          THEN /\ jobLock' = [jobLock EXCEPT ![e.job] = p]
               /\ job_runs' = Append(job_runs, OpenRow(p, e))
               /\ proc' = [proc EXCEPT ![p] = [Acted(p, e) EXCEPT
                              !.pc = "opened", !.run = Len(job_runs) + 1]]
               /\ UNCHANGED plan_rows
          ELSE /\ plan_rows' = Recorded(Refused(e.job, HourOf(proc[p].now), "run_in_flight"))
               /\ proc' = [proc EXCEPT ![p] = Acted(p, e)]
               /\ UNCHANGED <<jobLock, job_runs>>
  BY DEF Launch
<1>2. /\ Acting(p) /\ Len(job_runs) < MaxRuns
      /\ UNCHANGED <<clock, session, unit, poll, newAt, faults>>
  BY DEF Launch, attempts
<1>3. CASE jobLock[e.job] \in {NoProc, p}
  <2> DEFINE new == Len(job_runs) + 1
             x == [Acted(p, e) EXCEPT !.pc = "opened", !.run = new]
  <2>1. new \in RunId /\ new \notin DOMAIN job_runs
    BY <1>2, RowFacts, SchedulerAssumption DEF RunId
  <2>2. x \in Process /\ x.pc = "opened" /\ x.run = new /\ x.open = proc[p].open
        /\ proc' = [proc EXCEPT ![p] = x]
    <3>1. Acted(p, e) \in Process /\ Acted(p, e).open = proc[p].open
      BY DEF Acted, TypeOK, Process
    <3>2. proc' = [proc EXCEPT ![p] = x]
      BY <1>1, <1>3
    <3> HIDE DEF new
    <3> QED BY <2>1, <3>1, <3>2 DEF Process
  <2>3. OpenRow(p, e) \in RunRow /\ OpenRow(p, e).outcome = "open"
    <3>1. e.job \in Job /\ e.planned \in Nat /\ proc[p].now \in Time
          /\ proc[p].by \in {"scheduler", "manual"} /\ 0 \in Time
      BY EntryTyped, SchedulerAssumption DEF TypeOK, Process, Time
    <3> QED BY <3>1 DEF OpenRow, RunRow, Outcome
  <2>4. /\ job_runs' \in Seq(RunRow) /\ Len(job_runs') = new
        /\ DOMAIN job_runs' = DOMAIN job_runs \cup {new}
        /\ job_runs'[new].outcome = "open"
        /\ \A q \in DOMAIN job_runs : job_runs'[q] = job_runs[q]
    BY <1>1, <1>3, <2>3, AppendFacts
  <2> HIDE DEF x, new
  <2>5. proc' \in [Proc -> Process] /\ proc'[p] = x /\ \A q \in Proc \ {p} : proc'[q] = proc[q]
    BY <2>2, ProcFacts
  <2>6. jobLock' \in [Job -> Proc \cup {NoProc}] /\ UNCHANGED plan_rows
    BY <1>1, <1>3, EntryTyped DEF TypeOK
  <2>7. TypeOK'
    <3>1. Len(job_runs') <= MaxRuns
      BY <1>2, <2>4, RowFacts, SchedulerAssumption DEF new
    <3> QED BY <1>2, <2>4, <2>5, <2>6, <3>1 DEF TypeOK
  <2>8. SessionInv'
    BY <1>2, <2>2, <2>5 DEF SessionInv, Active, Acting
  <2>9. RowInv'
    BY <2>2, <2>4, <2>5 DEF RowInv, Active
  <2>10. RunInv'
    BY <1>2, <2>1, <2>2, <2>5 DEF RunInv, UnitInv, RowInv, Active
  <2>11. UnitInv' /\ TruthInv'
    BY <1>2, <2>4 DEF UnitInv, TruthInv
  <2> QED BY <2>7, <2>8, <2>9, <2>10, <2>11
<1>4. CASE jobLock[e.job] \notin {NoProc, p}
  <2>1. Refused(e.job, HourOf(proc[p].now), "run_in_flight") \in PlanEntry
    BY EntryTyped DEF Refused, PlanEntry, RefusalCode
  <2>2. plan_rows' \subseteq PlanRow
    BY <1>1, <1>4, <2>1, RecordedTyped
  <2> QED BY <1>1, <1>2, <1>4, <2>2, ActedInv
<1> QED BY <1>3, <1>4

(* a process moves to its wait over a unit that did not exist *)
LEMMA WaitingInv ==
    ASSUME IInv, NEW p \in Proc, proc[p].pc = "opened",
           NEW u \in Unit, u.state # "none",
           u.result = "none" <=> u.state = "active",
           u.result # "ok",
           proc' = [proc EXCEPT ![p].pc = "wait"],
           unit' = [unit EXCEPT ![proc[p].run] = u],
           poll' \in [Source -> [attempted : Time, completed : Time]],
           UNCHANGED <<clock, session, jobLock, job_runs, plan_rows, newAt, faults>>
    PROVE  IInv'
<1> USE DEF IInv
<1> DEFINE r == proc[p].run
           x == [proc[p] EXCEPT !.pc = "wait"]
<1>1. x \in Process /\ x.pc = "wait" /\ x.run = r /\ x.open = proc[p].open
      /\ x.connected = proc[p].connected /\ proc' = [proc EXCEPT ![p] = x]
  BY DEF TypeOK, Process
<1>2. r \in DOMAIN job_runs /\ r \in RunId /\ unit[r].state = "none" /\ unit[r].result = "none"
  BY RowFacts DEF RowInv, RunInv, UnitInv, Active
<1> HIDE DEF x
<1>3. proc' \in [Proc -> Process] /\ proc'[p] = x /\ \A q \in Proc \ {p} : proc'[q] = proc[q]
  BY <1>1, ProcFacts
<1> HIDE DEF r
<1>4. unit' \in [RunId -> Unit] /\ unit'[r] = u /\ \A q \in RunId \ {r} : unit'[q] = unit[q]
  BY <1>2 DEF TypeOK, r
<1>5. TypeOK'
  BY <1>3, <1>4 DEF TypeOK
<1>6. SessionInv' /\ RowInv'
  BY <1>1, <1>3 DEF SessionInv, RowInv, Active, r
<1>7. RunInv'
  <2>1. \A q \in Proc \ {p} : Active(q) => proc[q].run # r /\ proc[q].run \in RunId
    BY RowFacts DEF RunInv, RowInv, Active, r
  <2> QED BY <1>1, <1>3, <1>4, <2>1 DEF RunInv, Active
<1>8. UnitInv'
  BY <1>2, <1>4 DEF UnitInv
<1>9. TruthInv'
  <2>1. job_runs[r].outcome \notin {"ran", "failed"}
    BY <1>2 DEF TruthInv
  <2> QED BY <1>4, <2>1, RowFacts DEF TruthInv
<1> QED BY <1>5, <1>6, <1>7, <1>8, <1>9

LEMMA StartUnitInv ==
    ASSUME IInv, NEW p \in Proc, StartUnit(p) \/ StartUnitFails(p)
    PROVE  IInv'
<1> USE DEF IInv
<1> DEFINE r == proc[p].run
<1>1. r \in RunId /\ unit[r] \in Unit /\ unit \in [RunId -> Unit] /\ clock \in Time
      /\ proc[p].pc = "opened" /\ unit[r].result = "none" /\ 0 \in Time
  BY RowFacts, SchedulerAssumption
     DEF RowInv, RunInv, UnitInv, Active, TypeOK, StartUnit, StartUnitFails, Time
<1>2. CASE StartUnit(p)
  <2> DEFINE u == [unit[r] EXCEPT !.state = "active", !.began = clock]
  <2>1. u \in Unit /\ u.state = "active" /\ u.result = "none"
    BY <1>1 DEF Unit
  <2>2. unit' = [unit EXCEPT ![r] = u]
    BY <1>1, <1>2 DEF StartUnit
  <2>3. poll' \in [Source -> [attempted : Time, completed : Time]]
    BY <1>1, <1>2 DEF StartUnit, TypeOK
  <2>4. /\ proc' = [proc EXCEPT ![p].pc = "wait"]
        /\ UNCHANGED <<clock, session, jobLock, job_runs, plan_rows, newAt, faults>>
    BY <1>2 DEF StartUnit, ledger
  <2> HIDE DEF u
  <2> QED BY <1>1, <2>1, <2>2, <2>3, <2>4, WaitingInv
<1>3. CASE StartUnitFails(p)
  <2> DEFINE u == [unit[r] EXCEPT !.state = "gone", !.result = "bad", !.began = clock]
  <2>1. u \in Unit /\ u.state = "gone" /\ u.result = "bad"
    BY <1>1 DEF Unit
  <2>2. unit' = [unit EXCEPT ![r] = u]
    BY <1>1, <1>3 DEF StartUnitFails
  <2>3. /\ proc' = [proc EXCEPT ![p].pc = "wait"]
        /\ UNCHANGED <<clock, session, jobLock, job_runs, plan_rows, newAt, faults, poll>>
    BY <1>3 DEF StartUnitFails, ledger, attempts
  <2>4. poll' \in [Source -> [attempted : Time, completed : Time]]
    BY <2>3 DEF TypeOK
  <2> HIDE DEF u
  <2> QED BY <1>1, <2>1, <2>2, <2>3, <2>4, WaitingInv
<1> QED BY <1>2, <1>3

LEMMA CloseRunInv ==
    ASSUME IInv, NEW p \in Proc, CloseRun(p)
    PROVE  IInv'
<1> USE DEF IInv
<1> DEFINE r == proc[p].run
           outcome == IF unit[r].result = "ok" THEN "ran" ELSE "failed"
           x == [proc[p] EXCEPT !.pc = "act", !.run = NoRun]
           u == [unit[r] EXCEPT !.state = "gone"]
<1>1. /\ proc[p].pc = "wait" /\ proc[p].connected /\ unit[r].state # "active"
      /\ job_runs[r].outcome = "open" /\ job_runs' = Closed(r, outcome, clock)
      /\ unit' = [unit EXCEPT ![r].state = "gone"]
      /\ proc' = [proc EXCEPT ![p].pc = "act", ![p].run = NoRun]
      /\ UNCHANGED <<clock, session, jobLock, plan_rows, poll, newAt, faults>>
  BY DEF CloseRun, attempts
<1>2. r \in DOMAIN job_runs /\ r \in RunId /\ unit[r] \in Unit /\ clock \in Time
  BY <1>1, RowFacts DEF RowInv, Active, TypeOK
<1>3. unit[r].state # "none" /\ unit[r].result \in {"ok", "bad"}
  BY <1>1, <1>2 DEF RunInv, UnitInv, Unit
<1>4. x \in Process /\ x.pc = "act" /\ x.connected /\ x.open = proc[p].open
      /\ proc' = [proc EXCEPT ![p] = x]
  BY <1>1 DEF TypeOK, Process
<1>5. u \in Unit /\ u.state = "gone" /\ u.result = unit[r].result
      /\ unit' = [unit EXCEPT ![r] = u]
  BY <1>1, <1>2 DEF Unit, TypeOK
<1>6. outcome \in Outcome /\ (outcome = "ran" => unit[r].result = "ok")
      /\ (outcome = "failed" => unit[r].result = "bad")
  BY <1>3 DEF Outcome
<1>7. p \in Proc /\ proc[p].open = {}
  BY <1>1 DEF SessionInv
<1> HIDE DEF x, u, outcome
<1>8. proc' \in [Proc -> Process] /\ proc'[p] = x /\ \A q \in Proc \ {p} : proc'[q] = proc[q]
  BY <1>4, ProcFacts
<1>9. /\ job_runs' \in Seq(RunRow) /\ Len(job_runs') = Len(job_runs)
      /\ DOMAIN job_runs' = DOMAIN job_runs /\ job_runs'[r].outcome = outcome
      /\ \A q \in DOMAIN job_runs \ {r} : job_runs'[q] = job_runs[q]
  BY <1>1, <1>2, <1>6, ClosedFacts
<1> HIDE DEF r
<1>10. unit' \in [RunId -> Unit] /\ unit'[r] = u /\ \A q \in RunId \ {r} : unit'[q] = unit[q]
  BY <1>2, <1>5 DEF TypeOK
<1>11. TypeOK'
  BY <1>1, <1>8, <1>9, <1>10 DEF TypeOK
<1>12. SessionInv'
  BY <1>1, <1>4, <1>8 DEF SessionInv, Active
<1>13. RowInv'
  BY <1>1, <1>4, <1>7, <1>8, <1>9, SoleCloser DEF RowInv, Active
<1>14. RunInv'
  <2>1. \A q \in Proc \ {p} : Active(q) => proc[q].run # r /\ proc[q].run \in RunId
    BY <1>1, RowFacts DEF RunInv, RowInv, Active, r
  <2> QED BY <1>4, <1>8, <1>10, <2>1 DEF RunInv, Active
<1>15. UnitInv'
  BY <1>2, <1>3, <1>5, <1>9, <1>10 DEF UnitInv
<1>16. TruthInv'
  BY <1>2, <1>5, <1>6, <1>9, <1>10, RowFacts DEF TruthInv
<1> QED BY <1>11, <1>12, <1>13, <1>14, <1>15, <1>16

(* a process loses its locks, and its state with them *)
LEMMA ExitInv ==
    ASSUME IInv, NEW p \in Proc, Exit(p), faults' \in [FaultKind -> Nat],
           UNCHANGED <<clock, job_runs, plan_rows, unit, poll, newAt>>
    PROVE  IInv'
<1> USE DEF IInv
<1>1. Release(p) /\ proc' = [proc EXCEPT ![p] = Idle]
  BY DEF Exit
<1>2. proc' \in [Proc -> Process] /\ proc'[p] = Idle /\ \A q \in Proc \ {p} : proc'[q] = proc[q]
  BY <1>1, IdleTyped, ProcFacts
<1>3. TypeOK'
  BY <1>1, <1>2, ReleaseFacts DEF TypeOK
<1>4. SessionInv' /\ RowInv' /\ RunInv'
  BY <1>1, <1>2, ReleaseFacts DEF SessionInv, RowInv, RunInv, Active, Idle
<1> QED BY <1>3, <1>4 DEF UnitInv, TruthInv

LEMMA LoseConnectionInv ==
    ASSUME IInv, NEW p \in Proc, LoseConnection(p)
    PROVE  IInv'
<1> USE DEF IInv
<1> DEFINE x == [proc[p] EXCEPT !.connected = FALSE]
<1>1. /\ faults' \in [FaultKind -> Nat] /\ Release(p) /\ Active(p)
      /\ UNCHANGED <<clock, job_runs, plan_rows, unit, poll, newAt>>
  BY FaultFacts DEF LoseConnection, FaultKind, Active, ledger, attempts
<1>2. /\ x \in Process /\ x.pc = proc[p].pc /\ x.run = proc[p].run /\ x.open = proc[p].open
      /\ ~x.connected /\ proc' = [proc EXCEPT ![p] = x]
  BY DEF LoseConnection, TypeOK, Process
<1> HIDE DEF x
<1>3. proc' \in [Proc -> Process] /\ proc'[p] = x /\ \A q \in Proc \ {p} : proc'[q] = proc[q]
  BY <1>2, ProcFacts
<1>4. TypeOK'
  BY <1>1, <1>3, ReleaseFacts DEF TypeOK
<1>5. SessionInv' /\ RowInv' /\ RunInv'
  BY <1>1, <1>2, <1>3, ReleaseFacts DEF SessionInv, RowInv, RunInv, Active
<1> QED BY <1>1, <1>4, <1>5 DEF UnitInv, TruthInv

LEMMA ProcessEndsInv ==
    ASSUME IInv, NEW p \in Proc, Finish(p) \/ NoticeLoss(p) \/ Crash(p)
    PROVE  IInv'
<1>1. Exit(p) /\ UNCHANGED <<clock, job_runs, plan_rows, unit, poll, newAt>>
  BY DEF Finish, NoticeLoss, Crash, ledger, attempts
<1>2. faults' \in [FaultKind -> Nat]
  BY FaultFacts DEF IInv, TypeOK, Finish, NoticeLoss, Crash, FaultKind
<1> QED BY <1>1, <1>2, ExitInv

LEMMA RebootInv ==
    ASSUME IInv, Reboot
    PROVE  IInv'
<1> USE DEF IInv
<1>1. /\ faults' \in [FaultKind -> Nat] /\ session' = NoProc
      /\ jobLock' = [j \in Job |-> NoProc] /\ proc' = [p \in Proc |-> Idle]
      /\ UNCHANGED <<clock, job_runs, plan_rows, poll, newAt>>
  BY FaultFacts DEF Reboot, FaultKind, ledger, attempts
<1>2. \A r \in RunId :
        /\ unit'[r] \in Unit
        /\ unit'[r].result = "none" <=> unit'[r].state \in {"none", "active"}
        /\ unit[r].state = "none" => unit'[r].state = "none"
        /\ unit[r].result # "none" => unit'[r].result = unit[r].result
  <2> TAKE r \in RunId
  <2>1. unit[r] \in Unit /\ (unit[r].result = "none" <=> unit[r].state \in {"none", "active"})
    BY DEF TypeOK, UnitInv
  <2>2. unit'[r] = CASE unit[r].state = "active" -> [unit[r] EXCEPT !.state = "gone",
                                                                   !.result = "bad"]
                     [] unit[r].state = "loaded" -> [unit[r] EXCEPT !.state = "gone"]
                     [] OTHER                    -> unit[r]
    BY DEF Reboot
  <2>3. CASE unit[r].state = "active"
    BY <2>1, <2>2, <2>3 DEF Unit
  <2>4. CASE unit[r].state = "loaded"
    BY <2>1, <2>2, <2>4 DEF Unit
  <2>5. CASE unit[r].state \in {"none", "gone"}
    BY <2>1, <2>2, <2>5 DEF Unit
  <2> QED BY <2>1, <2>3, <2>4, <2>5 DEF Unit
<1>3. unit' \in [RunId -> Unit]
  BY <1>2 DEF Reboot
<1>4. TypeOK'
  BY <1>1, <1>3, IdleTyped DEF TypeOK
<1>5. SessionInv' /\ RowInv' /\ RunInv'
  BY <1>1 DEF SessionInv, RowInv, RunInv, Active, Idle
<1>6. UnitInv'
  BY <1>1, <1>2 DEF UnitInv
<1>7. TruthInv'
  BY <1>1, <1>2, RowFacts DEF TruthInv
<1> QED BY <1>4, <1>5, <1>6, <1>7

LEMMA HandRunInv ==
    ASSUME IInv, NEW p \in Proc, NEW j \in HandRun, NEW force \in BOOLEAN,
           StartHandRun(p, j, force) \/ RefuseHandRun(p, j, force)
    PROVE  IInv'
<1> USE DEF IInv
<1>1. j \in Job /\ HourOf(clock) \in Nat
  <2>1. clock \in Nat
    BY SchedulerAssumption DEF TypeOK, Time
  <2> QED BY <2>1, PlanAssumption, SchedulerAssumption, HourTyped
<1>2. CASE StartHandRun(p, j, force)
  <2> DEFINE e == [Due(j, HourOf(clock)) EXCEPT !.action = "run"]
             x == [Idle EXCEPT !.pc = "act", !.by = "manual", !.now = clock, !.entries = {e}]
  <2>1. e \in PlanEntry
    BY <1>1 DEF Due, PlanEntry, RefusalCode
  <2>2. proc' = [proc EXCEPT ![p] = x]
    BY <1>2 DEF StartHandRun
  <2> HIDE DEF e
  <2>3. x \in Process /\ x.pc = "act" /\ x.connected /\ x.open = {}
    BY <2>1, IdleTyped DEF TypeOK, Process, Idle
  <2> HIDE DEF x
  <2>4. proc' \in [Proc -> Process] /\ proc'[p] = x /\ \A q \in Proc \ {p} : proc'[q] = proc[q]
    BY <2>2, <2>3, ProcFacts
  <2>5. /\ UNCHANGED <<clock, jobLock, job_runs, plan_rows, unit, poll, newAt, faults>>
        /\ session' = p /\ \A q \in Proc : session # q
    BY <1>2, SchedulerAssumption DEF StartHandRun, ledger, attempts
  <2>6. TypeOK'
    BY <2>4, <2>5 DEF TypeOK
  <2>7. SessionInv' /\ RowInv' /\ RunInv'
    BY <2>3, <2>4, <2>5 DEF SessionInv, RowInv, RunInv, Active
  <2> QED BY <2>5, <2>6, <2>7 DEF UnitInv, TruthInv
<1>3. CASE RefuseHandRun(p, j, force)
  <2>1. Refused(j, HourOf(clock), HandRefusal(j, force)) \in PlanEntry
    BY <1>1 DEF Refused, PlanEntry, HandRefusal, RefusalCode
  <2>2. plan_rows' \subseteq PlanRow
    BY <1>3, <2>1, RecordedTyped DEF RefuseHandRun
  <2>3. UNCHANGED <<clock, session, jobLock, proc, job_runs, unit, poll, newAt, faults>>
    BY <1>3 DEF RefuseHandRun, attempts
  <2> QED BY <2>2, <2>3
          DEF TypeOK, SessionInv, RowInv, RunInv, UnitInv, TruthInv, Active
<1> QED BY <1>2, <1>3

(* a unit ends, or systemd forgets it *)
LEMMA StoppedInv ==
    ASSUME IInv, NEW r \in RunId, NEW u \in Unit,
           unit[r].state # "none", u.state \in {"loaded", "gone"}, u.result # "none",
           unit[r].result # "none" => u.result = unit[r].result,
           unit' = [unit EXCEPT ![r] = u],
           clock' \in Time, newAt' \in [Source -> Time],
           poll' \in [Source -> [attempted : Time, completed : Time]],
           UNCHANGED <<session, jobLock, proc, job_runs, plan_rows, faults>>
    PROVE  IInv'
<1> USE DEF IInv
<1>1. unit' \in [RunId -> Unit] /\ unit'[r] = u /\ \A q \in RunId \ {r} : unit'[q] = unit[q]
  BY DEF TypeOK
<1>2. TypeOK'
  BY <1>1 DEF TypeOK
<1>3. SessionInv' /\ RowInv'
  BY DEF SessionInv, RowInv, Active
<1>4. RunInv'
  BY <1>1, RowFacts DEF RunInv, RowInv, Active
<1>5. UnitInv'
  BY <1>1 DEF UnitInv
<1>6. TruthInv'
  BY <1>1, RowFacts DEF TruthInv
<1> QED BY <1>2, <1>3, <1>4, <1>5, <1>6

LEMMA UnitEndsInv ==
    ASSUME IInv, NEW r \in RunId, Ending(r) \/ CollectUnit(r)
    PROVE  IInv'
<1> USE DEF IInv
<1>1. unit[r] \in Unit /\ unit \in [RunId -> Unit] /\ clock \in Time /\ Later(clock) \in Time
  BY SchedulerAssumption DEF TypeOK, Later, Time
<1>2. CASE Ending(r)
  <2>1. PICK result \in {"ok", "bad"}, polled \in {"open", "failed", "unchanged", "new"} :
            UnitEnds(r, result, polled)
    BY <1>2 DEF Ending
  <2> DEFINE u == [unit[r] EXCEPT !.state = "loaded", !.result = result]
  <2>2. u \in Unit /\ u.state = "loaded" /\ u.result = result
    BY <1>1 DEF Unit
  <2>3. unit[r].state = "active" /\ unit[r].result = "none" /\ unit' = [unit EXCEPT ![r] = u]
    BY <1>1, <2>1 DEF UnitEnds, UnitInv
  <2>4. clock' \in Time /\ newAt' \in [Source -> Time]
    BY <1>1, <2>1 DEF UnitEnds, TypeOK
  <2>5. poll' \in [Source -> [attempted : Time, completed : Time]]
    BY <1>1, <2>1 DEF UnitEnds, TypeOK
  <2>6. UNCHANGED <<session, jobLock, proc, job_runs, plan_rows, faults>>
    BY <2>1 DEF UnitEnds, ledger
  <2> HIDE DEF u
  <2> QED BY <2>2, <2>3, <2>4, <2>5, <2>6, StoppedInv
<1>3. CASE CollectUnit(r)
  <2> DEFINE u == [unit[r] EXCEPT !.state = "gone"]
  <2>1. u \in Unit /\ u.state = "gone" /\ u.result = "ok" /\ unit[r].result = "ok"
        /\ unit[r].state = "loaded"
    BY <1>1, <1>3 DEF CollectUnit, Unit
  <2>2. /\ unit' = [unit EXCEPT ![r] = u]
        /\ UNCHANGED <<clock, session, jobLock, proc, job_runs, plan_rows, poll, newAt, faults>>
    BY <1>1, <1>3 DEF CollectUnit, ledger, attempts
  <2>3. /\ clock' \in Time /\ newAt' \in [Source -> Time]
        /\ poll' \in [Source -> [attempted : Time, completed : Time]]
    BY <2>2 DEF TypeOK
  <2> HIDE DEF u
  <2> QED BY <2>1, <2>2, <2>3, StoppedInv
<1> QED BY <1>2, <1>3

LEMMA ClockInv ==
    ASSUME IInv, Advance \/ \E s \in Source, new \in BOOLEAN : LegacyPoll(s, new)
    PROVE  IInv'
<1> USE DEF IInv
<1>1. /\ clock' \in Time /\ newAt' \in [Source -> Time]
      /\ poll' \in [Source -> [attempted : Time, completed : Time]]
  <2>1. ASSUME clock < MaxTime PROVE clock + 1 \in Time
    BY <2>1, SchedulerAssumption DEF TypeOK, Time
  <2>2. CASE Advance
    BY <2>1, <2>2 DEF Advance, TypeOK, attempts
  <2>3. CASE \E s \in Source, new \in BOOLEAN : LegacyPoll(s, new)
    BY <2>1, <2>3 DEF LegacyPoll, TypeOK
  <2> QED BY <2>2, <2>3
<1>2. UNCHANGED <<session, jobLock, proc, job_runs, plan_rows, unit, faults>>
  BY DEF Advance, LegacyPoll, ledger
<1> QED BY <1>1, <1>2 DEF TypeOK, SessionInv, RowInv, RunInv, UnitInv, TruthInv, Active

LEMMA NextInv ==
    ASSUME IInv, [Next]_vars
    PROVE  IInv'
<1>1. CASE \E p \in Proc : StartTick(p) \/ Working(p) \/ Crash(p) \/ LoseConnection(p)
  BY <1>1, StartTickInv, ReconcileRowInv, MakePlanInv, RecordEntryInv, LaunchInv, SkipLaunchInv,
     StartUnitInv, CloseRunInv, ProcessEndsInv, LoseConnectionInv DEF Working
<1>2. CASE \E p \in Proc, j \in HandRun, force \in BOOLEAN :
              StartHandRun(p, j, force) \/ RefuseHandRun(p, j, force)
  BY <1>2, HandRunInv
<1>3. CASE \E r \in RunId : Ending(r) \/ CollectUnit(r)
  BY <1>3, UnitEndsInv
<1>4. CASE Advance \/ \E s \in Source, new \in BOOLEAN : LegacyPoll(s, new)
  BY <1>4, ClockInv
<1>5. CASE Reboot
  BY <1>5, RebootInv
<1>6. CASE UNCHANGED vars
  BY <1>6 DEF vars, ledger, attempts, IInv, TypeOK, SessionInv, RowInv, RunInv, UnitInv,
              TruthInv, Active
<1> QED BY <1>1, <1>2, <1>3, <1>4, <1>5, <1>6 DEF Next

-----------------------------------------------------------------------------
(* The theorems.                                                           *)

(* The invariant that carries the others holds of every behaviour of the    *)
(* scheduler (runner.py, cli.py).                                          *)
THEOREM Invariant == Spec => []IInv
<1>1. Init => IInv
  BY InitInv
<1>2. IInv /\ [Next]_vars => IInv'
  BY NextInv
<1> QED BY <1>1, <1>2, PTL DEF Spec

(* The scheduler's state is well typed: the ledger's rows keep their shape  *)
(* (migration 076) and no plan names a job outside the registry.           *)
THEOREM TypeCorrect == Spec => []TypeOK
<1>1. IInv => TypeOK
  BY DEF IInv
<1> QED BY <1>1, Invariant, PTL

(* No interleaving of ticks, hand runs, unit ends, crashes, reboots and     *)
(* lost connections makes the ledger record an outcome the unit did not    *)
(* have (runner.py, reconcile, launch and close_run).                      *)
THEOREM LedgerIsTruthful == Spec => []LedgerTruthful
<1>1. IInv => LedgerTruthful
  BY DEF IInv, TruthInv, LedgerTruthful
<1> QED BY <1>1, Invariant, PTL

(* A closed row is never written again: the rows a reconcile holds are      *)
(* still open when it reaches them, although it read them all at once      *)
(* (runner.py, reconcile; migration 076, guard_job_run_completion).        *)
THEOREM ClosedRowsNeverChange == Spec => ClosedRowsStay
<1> DEFINE Stays == \A r \in DOMAIN job_runs :
                       job_runs[r].outcome # "open" => job_runs'[r] = job_runs[r]
<1>1. ASSUME IInv, [Next]_vars
      PROVE  Stays
  <2> USE DEF IInv
  <2>1. ASSUME NEW p \in Proc, ReconcileRow(p)
        PROVE  Stays
    <3>1. PICK r \in Oldest(proc[p].open), answer \in Answer :
              IF Running(answer) THEN UNCHANGED job_runs
              ELSE job_runs' = Closed(r, ShownOutcome(r, answer), proc[p].now)
      BY <2>1, AnswerTaken DEF Reconciled
    <3>2. r \in DOMAIN job_runs /\ job_runs[r].outcome = "open" /\ proc[p].now \in Time
      BY <1>1, <2>1 DEF Oldest, RowInv, TypeOK, Process
    <3>3. ShownOutcome(r, answer) \in Outcome
      BY DEF ShownOutcome, Outcome
    <3> QED BY <1>1, <3>1, <3>2, <3>3, ClosedFacts
  <2>2. ASSUME NEW p \in Proc, CloseRun(p)
        PROVE  Stays
    <3> DEFINE r == proc[p].run
               outcome == IF unit[r].result = "ok" THEN "ran" ELSE "failed"
    <3>1. job_runs[r].outcome = "open" /\ job_runs' = Closed(r, outcome, clock)
      BY <2>2 DEF CloseRun
    <3>2. r \in DOMAIN job_runs /\ clock \in Time /\ outcome \in Outcome
      BY <1>1, <2>2 DEF CloseRun, RowInv, Active, TypeOK, Outcome
    <3> HIDE DEF r, outcome
    <3> QED BY <1>1, <3>1, <3>2, ClosedFacts
  <2>3. ASSUME NEW p \in Proc, Launch(p)
        PROVE  Stays
    <3>1. PICK e \in Foremost(proc[p].entries) :
              \/ job_runs' = Append(job_runs, OpenRow(p, e))
              \/ UNCHANGED job_runs
      BY <2>3 DEF Launch
    <3>2. e.job \in Job /\ e.planned \in Nat /\ proc[p].now \in Time
          /\ proc[p].by \in {"scheduler", "manual"} /\ 0 \in Time
      BY <1>1, <2>3, EntryTyped, SchedulerAssumption DEF TypeOK, Process, Time
    <3>3. OpenRow(p, e) \in RunRow
      BY <3>2 DEF OpenRow, RunRow, Outcome
    <3> QED BY <1>1, <3>1, <3>3, AppendFacts
  <2>4. CASE UNCHANGED job_runs
    BY <2>4
  <2>5. \/ UNCHANGED job_runs
        \/ \E p \in Proc : ReconcileRow(p) \/ CloseRun(p) \/ Launch(p)
    BY <1>1 DEF Next, Working, vars, ledger, StartTick, MakePlan, RecordEntry, SkipLaunch,
                StartUnit, StartUnitFails, Finish, NoticeLoss, Crash, LoseConnection,
                StartHandRun, RefuseHandRun, Ending, UnitEnds, CollectUnit, LegacyPoll,
                Advance, Reboot
  <2> QED BY <2>1, <2>2, <2>3, <2>4, <2>5
<1>2. [Next]_vars /\ IInv => [Stays]_vars
  BY <1>1
<1> QED BY <1>2, Invariant, PTL DEF Spec, ClosedRowsStay
-----------------------------------------------------------------------------
(* What holds of ticks besides.  IInv leaves three questions open: whether  *)
(* a unit that runs is on an open row, whether its job may start again, and *)
(* whether a mart that closed saw the fetches before it.  The first two     *)
(* need connections that hold and a systemctl that answers (Trusted), the   *)
(* third no fault at all.                                                  *)

Runs(r) == unit[r].state = "active"

USE DEF Runs

(* what a live process runs is open, and so is every row whose unit runs *)
TrustedInv ==
    Trusted =>
        /\ \A p \in Proc : proc[p].connected
        /\ \A p \in Proc : Active(p) => job_runs[proc[p].run].outcome = "open"
        /\ \A r \in DOMAIN job_runs : Runs(r) => job_runs[r].outcome = "open"

NoneRuns(j) == \A r \in DOMAIN job_runs : Runs(r) => job_runs[r].job # j

(* what a tick still means to start does not run: before the plan the       *)
(* running units are open rows to read or jobs found in flight, and a plan  *)
(* proposes none of those                                                  *)
Clear(x) ==
    /\ x.pc = "reconcile" =>
          \A r \in DOMAIN job_runs : Runs(r) => r \in x.open \/ job_runs[r].job \in x.inFlight
    /\ x.pc \in {"act", "opened", "wait"} =>
          \A e \in x.entries : e.action = "run" => NoneRuns(e.job)
    /\ x.pc \in {"opened", "wait"} => \A e \in x.entries : e.job # job_runs[x.run].job
    /\ x.pc = "opened" => NoneRuns(job_runs[x.run].job)

CopyInv ==
    Trusted =>
        \A p \in Proc :
            /\ Active(p) => job_runs[proc[p].run].by = proc[p].by
            /\ proc[p].by = "scheduler" => Clear(proc[p])

(* the sources only other jobs of the schedule poll *)
Foreign(j) == Source \ (Legacy \cup Registry[j].sources)

(* without a fault a row is open, and a unit runs, only under the process   *)
(* that waits for it, so no fetch ends between a mart's begin and its close *)
FetchInv ==
    NoFault =>
        /\ \A r \in DOMAIN job_runs :
              job_runs[r].outcome = "open" => \E p \in Proc : Active(p) /\ proc[p].run = r
        /\ \A r \in RunId : Runs(r) => \E p \in Proc : proc[p].pc = "wait" /\ proc[p].run = r
        /\ \A s \in Source : newAt[s] <= clock
        /\ \A r \in DOMAIN job_runs : job_runs[r].completed <= clock
        /\ \A p \in Proc : proc[p].pc = "wait" =>
              \A s \in Foreign(job_runs[proc[p].run].job) : unit[proc[p].run].began >= newAt[s]
        /\ \A r \in DOMAIN job_runs : job_runs[r].outcome = "ran" =>
              \A s \in Foreign(job_runs[r].job) :
                  \/ unit[r].began >= newAt[s]
                  \/ job_runs[r].completed < newAt[s]
                  \/ newAt[s] = MaxTime

(* the faults so far are among those of Trusted only if there were none *)
LEMMA NoFaultTrusted == NoFault => Trusted
BY DEF NoFault, Trusted, FaultKind

(* a step that meets no fault *)
LEMMA SameFaults ==
    ASSUME UNCHANGED faults
    PROVE  /\ Trusted' <=> Trusted
           /\ NoFault' <=> NoFault
BY DEF Trusted, NoFault

JInv == IInv /\ TrustedInv /\ CopyInv /\ FetchInv

(* while connections hold, no two processes are at work *)
LEMMA Sole ==
    ASSUME JInv, Trusted, NEW p \in Proc, NEW q \in Proc, proc[p].pc # "idle", proc[q].pc # "idle"
    PROVE  p = q
BY DEF JInv, IInv, SessionInv, TrustedInv

LEMMA ClosedFields ==
    ASSUME TypeOK, NEW r \in DOMAIN job_runs, NEW outcome \in Outcome, NEW at \in Time
    PROVE  /\ Closed(r, outcome, at)[r].job = job_runs[r].job
           /\ Closed(r, outcome, at)[r].by = job_runs[r].by
           /\ Closed(r, outcome, at)[r].completed = at
<1> DEFINE row == [job_runs[r] EXCEPT !.outcome = outcome, !.completed = at]
<1>1. job_runs[r] \in RunRow
  BY RowFacts
<1>2. row.job = job_runs[r].job /\ row.by = job_runs[r].by /\ row.completed = at
  BY <1>1 DEF RunRow
<1>3. Closed(r, outcome, at)[r] = row
  BY DEF Closed
<1> QED BY <1>2, <1>3

LEMMA RoundTyped ==
    ASSUME NEW j \in Job
    PROVE  JobRound[j] \in Nat /\ JobRank[j] \in Nat
<1> DEFINE placedBy == {k \in 0..Cardinality(Job) : j \in Placed(Registry)[k]}
<1>1. Cardinality(Job) \in Nat
  BY PlanAssumption, FS_CardinalityType
<1>2. ASSUME j \in Orderable(Registry)
      PROVE  Min(placedBy) \in Nat
  <2>1. Cardinality(Job) \in placedBy /\ placedBy \in SUBSET Nat
    BY <1>1, <1>2 DEF Orderable
  <2> HIDE DEF placedBy
  <2>2. \E x \in placedBy : \A y \in placedBy : x <= y
    BY <2>1, LeastNatural
  <2>3. Min(placedBy) \in placedBy
    BY <2>2 DEF Min
  <2> QED BY <2>1, <2>3
<1>3. Round(j, Registry) \in Nat
  BY <1>1, <1>2 DEF Round
<1> QED BY <1>3, PlanAssumption DEF JobRound

(* the entry a tick takes next is the only one of its job *)
LEMMA ForemostAlone ==
    ASSUME TypeOK, NEW p \in Proc, NEW e \in Foremost(proc[p].entries),
           NEW d \in proc[p].entries \ {e}
    PROVE  d.job # e.job
<1>1. e.job \in Job
  BY EntryTyped
<1>2. JobRound[e.job] \in Nat /\ JobRank[e.job] \in Nat
  BY <1>1, RoundTyped
<1> QED BY <1>2 DEF Foremost

(* a plan runs nothing that reconcile found in flight *)
LEMMA PlanFresh ==
    ASSUME NEW ev, NEW now, NEW inFlight,
           NEW e \in PlanTick(ev, now, inFlight), e.action = "run"
    PROVE  e.job \notin inFlight
<1>1. PICK d \in Proposed(ev, now, inFlight) : e = Settle(d, now)
  BY DEF PlanTick
<1>2. PICK j \in Resolvable :
          d \in IF j \in inFlight THEN {Refused(j, HourOf(now), "run_in_flight")}
                ELSE DueFor(j, ev, now)
  BY DEF Proposed
<1>3. CASE j \in inFlight
  <2>1. d.action = "refused"
    BY <1>2, <1>3 DEF Refused
  <2>2. e.action = "refused"
    BY <1>1, <2>1 DEF Settle, Refused
  <2> QED BY <2>2
<1>4. CASE j \notin inFlight
  <2>1. d.job = j
    BY <1>2, <1>4 DEF DueFor, AfterDependency, Due, Refused
  <2>2. d \in [job : {j}, planned : {d.planned}, action : {d.action}, code : {d.code}]
    BY <1>2, <1>4 DEF DueFor, AfterDependency, Due, Refused
  <2>3. e.job = d.job
    BY <1>1, <2>2 DEF Settle, Refused
  <2> QED BY <1>4, <2>1, <2>3
<1> QED BY <1>3, <1>4

(* the guard only ever turns a run into a refusal *)
LEMMA GuardedRun ==
    ASSUME NEW p \in Proc, NEW e, Guarded(p, e).action = "run"
    PROVE  e.action = "run" /\ Guarded(p, e) = e
BY DEF Guarded, Refused

(* a step that starts, moves or ends one process and touches no run *)
LEMMA ProcStep ==
    ASSUME JInv, NEW p \in Proc, NEW x \in Process, proc' = [proc EXCEPT ![p] = x],
           x.connected, x.pc \notin {"opened", "wait"},
           NoFault' => NoFault /\ ~Active(p),
           Trusted' => Trusted,
           Trusted /\ x.by = "scheduler" => Clear(x),
           UNCHANGED <<clock, job_runs, unit, newAt>>
    PROVE  TrustedInv' /\ CopyInv' /\ FetchInv'
<1>1. TypeOK /\ TrustedInv /\ CopyInv /\ FetchInv
  BY DEF JInv, IInv
<1>2. proc'[p] = x /\ \A q \in Proc \ {p} : proc'[q] = proc[q]
  BY <1>1, ProcFacts
<1>3. TrustedInv'
  BY <1>1, <1>2 DEF TrustedInv, Active
<1>4. CopyInv'
  <2> SUFFICES ASSUME Trusted', NEW q \in Proc
               PROVE  /\ Active(q)' => job_runs'[proc'[q].run].by = proc'[q].by
                      /\ proc'[q].by = "scheduler" => Clear(proc[q])'
    BY DEF CopyInv
  <2>1. CASE q = p
    BY <1>2, <2>1 DEF Clear, NoneRuns, Active
  <2>2. CASE q # p
    BY <1>1, <1>2, <2>2 DEF CopyInv, Clear, NoneRuns, Active
  <2> QED BY <2>1, <2>2
<1>5. FetchInv'
  <2> SUFFICES ASSUME NoFault'
               PROVE  FetchInv'
    BY DEF FetchInv
  <2>1. /\ \A q \in Proc : Active(q) => q # p /\ proc'[q] = proc[q]
        /\ \A q \in Proc : proc'[q].pc = "wait" => q # p /\ proc'[q] = proc[q]
    BY <1>2 DEF Active
  <2> QED BY <1>1, <2>1 DEF FetchInv, Active, Foreign
<1> QED BY <1>3, <1>4, <1>5

LEMMA StartTickJ ==
    ASSUME JInv, NEW p \in Proc, StartTick(p)
    PROVE  TrustedInv' /\ CopyInv' /\ FetchInv'
<1> DEFINE open == {r \in DOMAIN job_runs : job_runs[r].outcome = "open"}
           x == [Idle EXCEPT !.pc = "reconcile", !.now = clock, !.open = open]
<1>1. x \in Process /\ x.pc = "reconcile" /\ x.connected /\ x.open = open
  BY RowFacts, IdleTyped DEF JInv, IInv, TypeOK, Process, Idle
<1>2. /\ proc' = [proc EXCEPT ![p] = x] /\ ~Active(p)
      /\ UNCHANGED <<clock, job_runs, unit, newAt, faults>>
  BY DEF StartTick, ledger, attempts, Active
<1>3. Trusted => Clear(x)
  BY <1>1 DEF JInv, TrustedInv, Clear
<1> HIDE DEF x, open
<1> QED BY <1>1, <1>2, <1>3, SameFaults, ProcStep

LEMMA MakePlanJ ==
    ASSUME JInv, NEW p \in Proc, MakePlan(p)
    PROVE  TrustedInv' /\ CopyInv' /\ FetchInv'
<1> DEFINE plan == PlanTick(Evidence, proc[p].now, proc[p].inFlight)
           x == [proc[p] EXCEPT !.pc = "act", !.entries = plan]
<1>1. plan \subseteq PlanEntry
  <2>1. TypeOK /\ proc[p].now \in Nat
    BY SchedulerAssumption DEF JInv, IInv, TypeOK, Process, Time
  <2> QED BY <2>1, EvidenceTyped, PlanTyped
<1>2. \A e \in plan : e.action = "run" => e.job \notin proc[p].inFlight
  BY PlanFresh
<1> HIDE DEF plan
<1>3. x \in Process /\ x.pc = "act" /\ x.connected /\ x.entries = plan
      /\ x.by = proc[p].by
      /\ proc' = [proc EXCEPT ![p] = x]
  BY <1>1 DEF MakePlan, JInv, IInv, TypeOK, Process, plan
<1>4. /\ proc[p].pc = "reconcile" /\ proc[p].open = {} /\ ~Active(p)
      /\ UNCHANGED <<clock, job_runs, unit, newAt, faults>>
  BY DEF MakePlan, ledger, attempts, Active
<1>5. Trusted /\ x.by = "scheduler" => Clear(x)
  <2>1. Trusted /\ proc[p].by = "scheduler" => Clear(proc[p])
    BY DEF JInv, CopyInv
  <2> QED BY <1>2, <1>3, <1>4, <2>1 DEF Clear, NoneRuns
<1> HIDE DEF x
<1> QED BY <1>3, <1>4, <1>5, SameFaults, ProcStep

LEMMA ActedJ ==
    ASSUME JInv, NEW p \in Proc, NEW e \in Foremost(proc[p].entries), Acting(p),
           proc' = [proc EXCEPT ![p] = Acted(p, e)],
           UNCHANGED <<clock, job_runs, unit, newAt, faults>>
    PROVE  TrustedInv' /\ CopyInv' /\ FetchInv'
<1> DEFINE x == Acted(p, e)
<1>1. /\ x \in Process /\ x.pc = "act" /\ x.connected /\ x.entries \subseteq proc[p].entries
      /\ proc[p].pc = "act" /\ ~Active(p) /\ x.by = proc[p].by
  BY DEF Acted, Acting, Active, JInv, IInv, TypeOK, Process
<1>2. Trusted /\ x.by = "scheduler" => Clear(x)
  <2>1. Trusted /\ proc[p].by = "scheduler" => Clear(proc[p])
    BY DEF JInv, CopyInv
  <2> QED BY <1>1, <2>1 DEF Clear
<1> HIDE DEF x
<1>3. proc' = [proc EXCEPT ![p] = x]
  BY DEF x
<1> QED BY <1>1, <1>2, <1>3, SameFaults, ProcStep

LEMMA RecordJ ==
    ASSUME JInv, NEW p \in Proc, RecordEntry(p) \/ SkipLaunch(p)
    PROVE  TrustedInv' /\ CopyInv' /\ FetchInv'
<1>1. PICK e \in Foremost(proc[p].entries) : proc' = [proc EXCEPT ![p] = Acted(p, e)]
  BY DEF RecordEntry, SkipLaunch
<1>2. Acting(p) /\ UNCHANGED <<clock, job_runs, unit, newAt, faults>>
  BY DEF RecordEntry, SkipLaunch, ledger, attempts
<1> QED BY <1>1, <1>2, ActedJ

LEMMA ProcessEndsJ ==
    ASSUME JInv, NEW p \in Proc, Finish(p) \/ NoticeLoss(p) \/ Crash(p)
    PROVE  TrustedInv' /\ CopyInv' /\ FetchInv'
<1>1. proc' = [proc EXCEPT ![p] = Idle] /\ UNCHANGED <<clock, job_runs, unit, newAt>>
  BY DEF Finish, NoticeLoss, Crash, Exit, ledger, attempts
<1>2. /\ NoFault' => NoFault /\ ~Active(p)
      /\ Trusted' => Trusted
  <2>1. TypeOK
    BY DEF JInv, IInv
  <2>2. CASE Finish(p)
    BY <2>2, SameFaults DEF Finish, Active
  <2>3. CASE NoticeLoss(p)
    <3>1. UNCHANGED faults /\ ~proc[p].connected
      BY <2>3 DEF NoticeLoss
    <3>2. ~NoFault
      BY <3>1, NoFaultTrusted DEF JInv, TrustedInv
    <3> QED BY <3>1, <3>2, SameFaults
  <2>4. CASE Crash(p)
    BY <2>1, <2>4, FaultFacts DEF Crash, FaultKind
  <2> QED BY <2>2, <2>3, <2>4
<1>3. Idle \in Process /\ Idle.connected /\ Idle.pc = "idle"
  BY IdleTyped DEF Idle
<1>4. Clear(Idle)
  BY <1>3 DEF Clear
<1> QED BY <1>1, <1>2, <1>3, <1>4, ProcStep

LEMMA HandRunJ ==
    ASSUME JInv, NEW p \in Proc, NEW j \in HandRun, NEW force \in BOOLEAN,
           StartHandRun(p, j, force) \/ RefuseHandRun(p, j, force)
    PROVE  TrustedInv' /\ CopyInv' /\ FetchInv'
<1>1. CASE StartHandRun(p, j, force)
  <2> DEFINE e == [Due(j, HourOf(clock)) EXCEPT !.action = "run"]
             x == [Idle EXCEPT !.pc = "act", !.by = "manual", !.now = clock, !.entries = {e}]
  <2>1. clock \in Time /\ j \in Job /\ HourOf(clock) \in Nat
    <3>1. clock \in Time /\ clock \in Nat
      BY SchedulerAssumption DEF JInv, IInv, TypeOK, Time
    <3> QED BY <3>1, PlanAssumption, SchedulerAssumption, HourTyped
  <2>2. e \in PlanEntry
    BY <2>1 DEF Due, PlanEntry, RefusalCode
  <2>3. proc' = [proc EXCEPT ![p] = x] /\ ~Active(p)
        /\ UNCHANGED <<clock, job_runs, unit, newAt, faults>>
    BY <1>1 DEF StartHandRun, ledger, attempts, Active
  <2> HIDE DEF e
  <2>4. x \in Process /\ x.pc = "act" /\ x.connected /\ x.by = "manual"
    BY <2>1, <2>2, IdleTyped DEF Process, Idle
  <2> HIDE DEF x
  <2> QED BY <2>3, <2>4, SameFaults, ProcStep
<1>2. CASE RefuseHandRun(p, j, force)
  <2>1. UNCHANGED <<clock, proc, job_runs, unit, newAt, faults>>
    BY <1>2 DEF RefuseHandRun, attempts
  <2> QED BY <2>1, SameFaults DEF JInv, TrustedInv, CopyInv, FetchInv, Clear, NoneRuns,
                      Foreign, Active
<1> QED BY <1>1, <1>2

LEMMA ReconcileRowJ ==
    ASSUME JInv, NEW p \in Proc, ReconcileRow(p)
    PROVE  TrustedInv' /\ CopyInv' /\ FetchInv'
<1>0. TypeOK /\ RowInv /\ TrustedInv /\ CopyInv /\ FetchInv
  BY DEF JInv, IInv
<1>1. PICK r \in Oldest(proc[p].open), answer \in Answer :
          /\ Reconciled(p, r, answer)
          /\ \/ answer = Shown(r) /\ UNCHANGED faults
             \/ answer = Silent /\ Fault("silence")
  BY AnswerTaken
<1>2. /\ proc[p].pc = "reconcile" /\ proc[p].connected /\ ~Active(p)
      /\ UNCHANGED <<clock, newAt>>
  BY DEF ReconcileRow, attempts, Active
<1>3. r \in proc[p].open /\ r \in DOMAIN job_runs /\ job_runs[r].outcome = "open"
      /\ r \in RunId /\ job_runs[r] \in RunRow /\ proc[p].now \in Time
  BY <1>0, RowFacts DEF Oldest, RowInv, TypeOK, Process
<1>4. ~NoFault
  <2> SUFFICES ASSUME NoFault
               PROVE  FALSE
    OBVIOUS
  <2>1. PICK q \in Proc : Active(q)
    BY <1>0, <1>3 DEF FetchInv
  <2> QED BY <1>2, <2>1, Sole, NoFaultTrusted DEF Active
<1>5. /\ ~NoFault'
      /\ Trusted' => Trusted /\ answer = Shown(r)
  BY <1>0, <1>1, <1>4, SameFaults, FaultFacts DEF FaultKind
<1>6. FetchInv'
  BY <1>5 DEF FetchInv
<1>7. CASE Running(answer)
  <2> DEFINE x == [proc[p] EXCEPT !.open = @ \ {r}, !.inFlight = @ \cup {job_runs[r].job}]
  <2>1. /\ x \in Process /\ x.pc = "reconcile" /\ x.connected /\ x.open = proc[p].open \ {r}
        /\ x.inFlight = proc[p].inFlight \cup {job_runs[r].job} /\ proc' = [proc EXCEPT ![p] = x]
        /\ x.by = proc[p].by
    BY <1>0, <1>1, <1>2, <1>3, <1>7 DEF Reconciled, TypeOK, Process, RunRow
  <2>2. Trusted /\ x.by = "scheduler" => Clear(x)
    <3>1. Trusted /\ proc[p].by = "scheduler" => Clear(proc[p])
      BY <1>0 DEF CopyInv
    <3> QED BY <1>2, <2>1, <3>1 DEF Clear
  <2>3. UNCHANGED <<job_runs, unit>>
    BY <1>1, <1>7 DEF Reconciled
  <2> HIDE DEF x
  <2> QED BY <1>2, <1>5, <2>1, <2>2, <2>3, ProcStep
<1>8. CASE ~Running(answer)
  <2> DEFINE x == [proc[p] EXCEPT !.open = @ \ {r}]
  <2>1. /\ x \in Process /\ x.pc = "reconcile" /\ x.connected /\ x.open = proc[p].open \ {r}
        /\ x.inFlight = proc[p].inFlight /\ proc' = [proc EXCEPT ![p] = x]
        /\ x.by = proc[p].by
    BY <1>0, <1>1, <1>2, <1>3, <1>8 DEF Reconciled, TypeOK, Process
  <2> HIDE DEF x
  <2>2. proc'[p] = x /\ \A q \in Proc \ {p} : proc'[q] = proc[q]
    BY <1>0, <2>1, ProcFacts
  <2>3. /\ \A q \in RunId \ {r} : unit'[q] = unit[q]
        /\ answer = Shown(r) => unit[r].state # "active" /\ unit'[r].state # "active"
    BY <1>0, <1>1, <1>3, <1>8 DEF Reconciled, TypeOK, Unit
  <2>4. ShownOutcome(r, answer) \in Outcome /\ ShownOutcome(r, answer) # "open"
        /\ job_runs' = Closed(r, ShownOutcome(r, answer), proc[p].now)
    BY <1>1, <1>8 DEF Reconciled, ShownOutcome, Outcome
  <2>5. /\ DOMAIN job_runs' = DOMAIN job_runs /\ DOMAIN job_runs \subseteq RunId
        /\ \A q \in DOMAIN job_runs \ {r} : job_runs'[q] = job_runs[q]
        /\ \A q \in DOMAIN job_runs : job_runs'[q].job = job_runs[q].job
    BY <1>0, <1>3, <2>4, ClosedFacts, ClosedFields, RowFacts
  <2>6. Trusted' => \A q \in DOMAIN job_runs : Runs(q)' => q # r /\ Runs(q)
    BY <1>5, <2>3, <2>5 DEF Runs
  <2>7. Trusted' => \A q \in Proc \ {p} : proc[q].pc = "idle" /\ proc'[q].pc = "idle"
    BY <1>2, <1>5, <2>2, Sole
  <2>8. TrustedInv'
    <3> SUFFICES ASSUME Trusted'
                 PROVE  TrustedInv'
      BY DEF TrustedInv
    <3> QED BY <1>0, <1>5, <2>1, <2>2, <2>5, <2>6, <2>7 DEF TrustedInv, Active
  <2>9. CopyInv'
    <3> SUFFICES ASSUME Trusted'
                 PROVE  CopyInv'
      BY DEF CopyInv
    <3>1. proc'[p].by = "scheduler" => Clear(proc[p])'
      <4>1. proc[p].by = "scheduler" => Clear(proc[p])
        BY <1>0, <1>5 DEF CopyInv
      <4> QED BY <1>2, <2>1, <2>2, <2>5, <2>6, <4>1 DEF Clear
    <3>2. \A q \in Proc : ~Active(q)'
      BY <2>1, <2>2, <2>7 DEF Active
    <3>3. \A q \in Proc \ {p} : Clear(proc[q])'
      BY <2>7 DEF Clear
    <3> QED BY <3>1, <3>2, <3>3 DEF CopyInv
  <2> QED BY <1>6, <2>8, <2>9
<1> QED BY <1>7, <1>8

LEMMA LaunchJ ==
    ASSUME JInv, NEW p \in Proc, Launch(p)
    PROVE  TrustedInv' /\ CopyInv' /\ FetchInv'
<1>0. TypeOK /\ RowInv /\ UnitInv /\ TrustedInv /\ CopyInv /\ FetchInv
  BY DEF JInv, IInv
<1>1. PICK e \in Foremost(proc[p].entries) :
          /\ Guarded(p, e).action = "run"
          /\ IF jobLock[e.job] \in {NoProc, p}
             THEN /\ job_runs' = Append(job_runs, OpenRow(p, e))
                  /\ proc' = [proc EXCEPT ![p] = [Acted(p, e) EXCEPT
                                 !.pc = "opened", !.run = Len(job_runs) + 1]]
             ELSE /\ proc' = [proc EXCEPT ![p] = Acted(p, e)]
                  /\ UNCHANGED job_runs
  BY DEF Launch
<1>2. /\ Acting(p) /\ proc[p].pc = "act" /\ proc[p].connected /\ Len(job_runs) < MaxRuns
      /\ UNCHANGED <<clock, unit, newAt, faults>>
  BY DEF Launch, Acting, attempts
<1>3. CASE jobLock[e.job] \notin {NoProc, p}
  BY <1>1, <1>2, <1>3, ActedJ
<1>4. CASE jobLock[e.job] \in {NoProc, p}
  <2> DEFINE new == Len(job_runs) + 1
             x == [Acted(p, e) EXCEPT !.pc = "opened", !.run = new]
  <2>1. new \in RunId
    BY <1>0, <1>2, RowFacts, SchedulerAssumption DEF RunId
  <2>2. /\ x \in Process /\ x.pc = "opened" /\ x.run = new /\ x.connected
        /\ x.entries = proc[p].entries \ {e} /\ proc' = [proc EXCEPT ![p] = x]
        /\ x.by = proc[p].by
    <3>1. /\ Acted(p, e) \in Process /\ Acted(p, e).entries = proc[p].entries \ {e}
          /\ Acted(p, e).connected /\ Acted(p, e).by = proc[p].by
      BY <1>0, <1>2 DEF Acted, TypeOK, Process
    <3>2. proc' = [proc EXCEPT ![p] = x]
      BY <1>1, <1>4
    <3> HIDE DEF new
    <3> QED BY <2>1, <3>1, <3>2 DEF Process
  <2>3. OpenRow(p, e) \in RunRow /\ OpenRow(p, e).outcome = "open"
        /\ OpenRow(p, e).job = e.job /\ OpenRow(p, e).completed = 0
        /\ OpenRow(p, e).by = proc[p].by
    <3>1. e.job \in Job /\ e.planned \in Nat /\ proc[p].now \in Time
          /\ proc[p].by \in {"scheduler", "manual"} /\ 0 \in Time
      BY <1>0, EntryTyped, SchedulerAssumption DEF TypeOK, Process, Time
    <3> QED BY <3>1 DEF OpenRow, RunRow, Outcome
  <2>4. /\ DOMAIN job_runs' = DOMAIN job_runs \cup {new} /\ new \notin DOMAIN job_runs
        /\ job_runs'[new] = OpenRow(p, e)
        /\ \A q \in DOMAIN job_runs : job_runs'[q] = job_runs[q]
    BY <1>0, <1>1, <1>4, <2>3, AppendFacts
  <2> HIDE DEF x, new
  <2>5. proc'[p] = x /\ \A q \in Proc \ {p} : proc'[q] = proc[q]
    BY <1>0, <2>2, ProcFacts
  <2>6. unit[new].state = "none"
    BY <1>0, <2>1, <2>4 DEF UnitInv
  <2>7. Trusted => \A q \in Proc \ {p} : proc[q].pc = "idle"
    BY <1>2, Sole
  <2>8. \A q \in DOMAIN job_runs' : Runs(q)' => q \in DOMAIN job_runs /\ Runs(q)
    BY <1>2, <2>4, <2>6 DEF Runs
  <2>9. TrustedInv'
    <3> SUFFICES ASSUME Trusted
                 PROVE  TrustedInv'
      BY <1>2, SameFaults DEF TrustedInv
    <3> QED BY <1>0, <2>2, <2>3, <2>4, <2>5, <2>7, <2>8 DEF TrustedInv, Active
  <2>10. CopyInv'
    <3> SUFFICES ASSUME Trusted
                 PROVE  CopyInv'
      BY <1>2, SameFaults DEF CopyInv
    <3>1. \A q \in Proc \ {p} : proc'[q].pc = "idle"
      BY <2>5, <2>7
    <3>2. e \in proc[p].entries /\ e.action = "run"
      BY <1>1, GuardedRun DEF Foremost
    <3>3. \A d \in proc[p].entries \ {e} : d.job # e.job
      BY <1>0, ForemostAlone
    <3>4. \A j : NoneRuns(j) => NoneRuns(j)'
      BY <2>4, <2>8 DEF NoneRuns
    <3>5. proc[p].by = "scheduler" =>
             \A d \in proc[p].entries : d.action = "run" => NoneRuns(d.job)
      BY <1>0, <1>2 DEF CopyInv, Clear
    <3>6. job_runs'[proc'[p].run].job = e.job
      BY <2>2, <2>3, <2>4, <2>5
    <3>7. proc'[p].by = "scheduler" => Clear(proc[p])'
      BY <2>2, <2>5, <3>2, <3>3, <3>4, <3>5, <3>6 DEF Clear
    <3>8. \A q \in Proc \ {p} : Clear(proc[q])' /\ ~Active(q)'
      BY <3>1 DEF Clear, Active
    <3>9. job_runs'[proc'[p].run].by = proc'[p].by
      BY <2>2, <2>3, <2>4, <2>5
    <3> QED BY <3>7, <3>8, <3>9 DEF CopyInv
  <2>11. FetchInv'
    <3> SUFFICES ASSUME NoFault
                 PROVE  FetchInv'
      BY <1>2, SameFaults DEF FetchInv
    <3>1. \A q \in Proc \ {p} : proc[q].pc = "idle"
      BY <2>7, NoFaultTrusted
    <3>2. \A q \in Proc : proc'[q].pc # "wait" /\ proc[q].pc # "wait" /\ ~Active(q)
      BY <1>2, <2>2, <2>5, <3>1 DEF Active
    <3>3. clock \in Nat
      BY <1>0, SchedulerAssumption DEF TypeOK, Time
    <3>4. Active(p)' /\ proc'[p].run = new
      BY <2>2, <2>5 DEF Active
    <3>5. \A r \in DOMAIN job_runs : job_runs[r].outcome # "open"
      BY <1>0, <3>2 DEF FetchInv
    <3>6. \A r \in RunId : ~Runs(r)
      BY <1>0, <3>2 DEF FetchInv
    <3>7. \A r \in DOMAIN job_runs' :
             /\ job_runs'[r].outcome = "open" => r = new
             /\ job_runs'[r].outcome # "open" => r \in DOMAIN job_runs
             /\ job_runs'[r].completed <= clock
      BY <1>0, <2>3, <2>4, <3>3, <3>5 DEF FetchInv
    <3> QED BY <1>0, <1>2, <2>4, <3>2, <3>4, <3>6, <3>7 DEF FetchInv, Foreign, Runs
  <2> QED BY <2>9, <2>10, <2>11
<1> QED BY <1>3, <1>4

LEMMA StartUnitJ ==
    ASSUME JInv, NEW p \in Proc, StartUnit(p) \/ StartUnitFails(p)
    PROVE  TrustedInv' /\ CopyInv' /\ FetchInv'
<1> DEFINE r == proc[p].run
           x == [proc[p] EXCEPT !.pc = "wait"]
<1>0. TypeOK /\ RowInv /\ TrustedInv /\ CopyInv /\ FetchInv
  BY DEF JInv, IInv
<1>1. /\ proc[p].pc = "opened" /\ Active(p) /\ proc' = [proc EXCEPT ![p] = x]
      /\ UNCHANGED <<clock, job_runs, newAt, faults>>
  BY DEF StartUnit, StartUnitFails, ledger, attempts, Active
<1>2. r \in DOMAIN job_runs /\ r \in RunId /\ unit[r] \in Unit
  BY <1>0, <1>1, RowFacts DEF RowInv, TypeOK
<1>3. /\ \A q \in RunId \ {r} : unit'[q] = unit[q]
      /\ unit'[r].began = clock
  BY <1>0, <1>2 DEF StartUnit, StartUnitFails, TypeOK, Unit
<1>4. /\ x \in Process /\ x.pc = "wait" /\ x.run = r /\ x.entries = proc[p].entries
      /\ x.connected = proc[p].connected /\ x.by = proc[p].by
  BY <1>0 DEF TypeOK, Process
<1> HIDE DEF x
<1>5. proc'[p] = x /\ \A q \in Proc \ {p} : proc'[q] = proc[q]
  BY <1>0, <1>1, <1>4, ProcFacts
<1>6. Trusted => \A q \in Proc \ {p} : proc[q].pc = "idle"
  BY <1>1, Sole
<1>7. \A q \in DOMAIN job_runs : Runs(q)' => q = r \/ Runs(q)
  BY <1>0, <1>3, RowFacts DEF Runs
<1> HIDE DEF r
<1>8. TrustedInv'
  <2> SUFFICES ASSUME Trusted
               PROVE  TrustedInv'
    BY <1>1, SameFaults DEF TrustedInv
  <2>1. job_runs[r].outcome = "open"
    BY <1>0, <1>1 DEF TrustedInv, r
  <2> QED BY <1>0, <1>1, <1>4, <1>5, <1>6, <1>7, <2>1 DEF TrustedInv, Active
<1>9. CopyInv'
  <2> SUFFICES ASSUME Trusted
               PROVE  CopyInv'
    BY <1>1, SameFaults DEF CopyInv
  <2>1. /\ job_runs[r].by = proc[p].by
        /\ proc[p].by = "scheduler" => Clear(proc[p])
    BY <1>0, <1>1 DEF CopyInv, r
  <2>2. proc[p].by = "scheduler" =>
           /\ \A e \in proc[p].entries : e.job # job_runs[r].job
           /\ \A e \in proc[p].entries : e.action = "run" => NoneRuns(e.job)
    BY <1>1, <2>1 DEF Clear, r
  <2>3. proc'[p].by = "scheduler" => Clear(proc[p])'
    BY <1>1, <1>4, <1>5, <1>7, <2>2 DEF Clear, NoneRuns
  <2>4. \A q \in Proc \ {p} : Clear(proc[q])' /\ ~Active(q)'
    BY <1>5, <1>6 DEF Clear, Active
  <2>5. job_runs'[proc'[p].run].by = proc'[p].by
    BY <1>1, <1>4, <1>5, <2>1
  <2> QED BY <2>3, <2>4, <2>5 DEF CopyInv
<1>10. FetchInv'
  <2> SUFFICES ASSUME NoFault
               PROVE  FetchInv'
    BY <1>1, SameFaults DEF FetchInv
  <2>1. /\ \A q \in Proc \ {p} : proc[q].pc = "idle" /\ proc'[q].pc = "idle"
        /\ proc'[p].pc = "wait" /\ proc'[p].run = r /\ proc[p].run = r
    BY <1>4, <1>5, <1>6, NoFaultTrusted DEF r
  <2>2. \A q \in RunId : q # r => ~Runs(q)'
    BY <1>0, <1>1, <1>3, <2>1 DEF FetchInv, Runs
  <2>3. /\ \A q \in DOMAIN job_runs : job_runs[q].outcome = "open" => q = r
        /\ \A q \in DOMAIN job_runs : job_runs[q].outcome # "open" => q # r /\ q \in RunId
    <3>1. job_runs[r].outcome = "open"
      BY <1>0, <1>1, NoFaultTrusted DEF TrustedInv, r
    <3>2. \A q \in DOMAIN job_runs : job_runs[q].outcome = "open" => q = r
      BY <1>0, <2>1 DEF FetchInv, Active
    <3> QED BY <1>0, <3>1, <3>2, RowFacts
  <2>4. \A s \in Source : newAt[s] <= clock
    BY <1>0 DEF FetchInv
  <2>5. \A q \in DOMAIN job_runs : job_runs[q].outcome = "ran" => unit'[q] = unit[q]
    BY <1>3, <2>3
  <2> QED BY <1>0, <1>1, <1>3, <2>1, <2>2, <2>3, <2>4, <2>5 DEF FetchInv, Foreign, Active, Runs
<1> QED BY <1>8, <1>9, <1>10

LEMMA CloseRunJ ==
    ASSUME JInv, NEW p \in Proc, CloseRun(p)
    PROVE  TrustedInv' /\ CopyInv' /\ FetchInv'
<1> DEFINE r == proc[p].run
           outcome == IF unit[r].result = "ok" THEN "ran" ELSE "failed"
           x == [proc[p] EXCEPT !.pc = "act", !.run = NoRun]
<1>0. TypeOK /\ RowInv /\ RunInv /\ TrustedInv /\ CopyInv /\ FetchInv
  BY DEF JInv, IInv
<1>1. /\ proc[p].pc = "wait" /\ proc[p].connected /\ Active(p) /\ unit[r].state # "active"
      /\ job_runs' = Closed(r, outcome, clock)
      /\ unit' = [unit EXCEPT ![r].state = "gone"]
      /\ proc' = [proc EXCEPT ![p] = x]
      /\ UNCHANGED <<clock, newAt, faults>>
  BY DEF CloseRun, attempts, Active
<1>2. r \in DOMAIN job_runs /\ r \in RunId /\ unit[r] \in Unit /\ clock \in Time
  BY <1>0, <1>1, RowFacts DEF RowInv, TypeOK
<1>3. /\ x \in Process /\ x.pc = "act" /\ x.connected /\ x.entries = proc[p].entries
      /\ x.by = proc[p].by
  BY <1>0, <1>1 DEF TypeOK, Process
<1>4. outcome \in Outcome /\ outcome # "open"
  BY DEF Outcome
<1>5. /\ \A q \in RunId \ {r} : unit'[q] = unit[q]
      /\ unit'[r].state = "gone" /\ unit'[r].began = unit[r].began
  BY <1>0, <1>1, <1>2 DEF TypeOK, Unit
<1> HIDE DEF x, outcome
<1>6. proc'[p] = x /\ \A q \in Proc \ {p} : proc'[q] = proc[q]
  BY <1>0, <1>1, <1>3, ProcFacts
<1>7. /\ DOMAIN job_runs' = DOMAIN job_runs /\ DOMAIN job_runs \subseteq RunId
      /\ job_runs'[r].outcome = outcome /\ job_runs'[r].completed = clock
      /\ \A q \in DOMAIN job_runs \ {r} : job_runs'[q] = job_runs[q]
      /\ \A q \in DOMAIN job_runs : job_runs'[q].job = job_runs[q].job
  BY <1>0, <1>1, <1>2, <1>4, ClosedFacts, ClosedFields, RowFacts
<1>8. /\ Trusted => \A q \in Proc \ {p} : proc[q].pc = "idle"
      /\ proc[p].run = r
  BY <1>1, Sole
<1> HIDE DEF r
<1>9. \A q \in DOMAIN job_runs : Runs(q)' => q # r /\ Runs(q)
  BY <1>5, <1>7 DEF Runs
<1>10. TrustedInv'
  <2> SUFFICES ASSUME Trusted
               PROVE  TrustedInv'
    BY <1>1, SameFaults DEF TrustedInv
  <2> QED BY <1>0, <1>1, <1>3, <1>6, <1>7, <1>8, <1>9 DEF TrustedInv, Active
<1>11. CopyInv'
  <2> SUFFICES ASSUME Trusted
               PROVE  CopyInv'
    BY <1>1, SameFaults DEF CopyInv
  <2>1. proc[p].by = "scheduler" =>
           \A e \in proc[p].entries : e.action = "run" => NoneRuns(e.job)
    BY <1>0, <1>1 DEF CopyInv, Clear
  <2>2. proc'[p].by = "scheduler" => Clear(proc[p])'
    BY <1>3, <1>6, <1>7, <1>9, <2>1 DEF Clear, NoneRuns
  <2>3. \A q \in Proc \ {p} : Clear(proc[q])'
    BY <1>6, <1>8 DEF Clear
  <2>4. \A q \in Proc : ~Active(q)'
    BY <1>3, <1>6, <1>8 DEF Active
  <2> QED BY <2>2, <2>3, <2>4 DEF CopyInv
<1>12. FetchInv'
  <2> SUFFICES ASSUME NoFault
               PROVE  FetchInv'
    BY <1>1, SameFaults DEF FetchInv
  <2>1. \A q \in Proc : ~Active(q)'
    BY <1>3, <1>6, <1>8, NoFaultTrusted DEF Active
  <2>2. \A q \in DOMAIN job_runs : job_runs[q].outcome = "open" => q = r
    BY <1>0, <1>8, NoFaultTrusted DEF FetchInv, Active
  <2>3. \A q \in RunId : ~Runs(q)'
    <3>1. \A q \in RunId : Runs(q) => q = r
      BY <1>0, <1>8, NoFaultTrusted DEF FetchInv
    <3> QED BY <1>5, <3>1 DEF Runs
  <2>4. \A q \in DOMAIN job_runs : job_runs'[q].completed <= clock
    BY <1>0, <1>2, <1>7, SchedulerAssumption DEF FetchInv, Time
  <2>5. \A s \in Foreign(job_runs[r].job) : unit'[r].began >= newAt[s]
    BY <1>0, <1>1, <1>5, <1>8 DEF FetchInv
  <2>6. \A q \in DOMAIN job_runs \ {r} : job_runs'[q] = job_runs[q] /\ unit'[q] = unit[q]
    BY <1>5, <1>7
  <2>7. \A q \in DOMAIN job_runs : job_runs'[q].outcome = "ran" =>
           \A s \in Foreign(job_runs[q].job) :
               \/ unit'[q].began >= newAt[s]
               \/ job_runs'[q].completed < newAt[s]
               \/ newAt[s] = MaxTime
    BY <1>0, <2>5, <2>6 DEF FetchInv
  <2>8. \A q \in DOMAIN job_runs : job_runs'[q].outcome # "open"
    BY <1>4, <1>7, <2>2, <2>6
  <2> QED BY <1>0, <1>1, <1>7, <2>1, <2>3, <2>4, <2>7, <2>8 DEF FetchInv, Foreign, Active
<1> QED BY <1>10, <1>11, <1>12

LEMMA LoseConnectionJ ==
    ASSUME JInv, NEW p \in Proc, LoseConnection(p)
    PROVE  TrustedInv' /\ CopyInv' /\ FetchInv'
<1>1. ~NoFault' /\ ~Trusted'
  BY FaultFacts DEF JInv, IInv, LoseConnection, FaultKind
<1> QED BY <1>1 DEF TrustedInv, CopyInv, FetchInv

LEMMA RebootJ ==
    ASSUME JInv, Reboot
    PROVE  TrustedInv' /\ CopyInv' /\ FetchInv'
<1>1. /\ ~NoFault'
      /\ Trusted' => Trusted
      /\ proc' = [p \in Proc |-> Idle] /\ UNCHANGED job_runs
      /\ Idle.connected /\ Idle.pc = "idle"
  <2>1. /\ ~NoFault'
        /\ Trusted' => Trusted
    BY FaultFacts DEF JInv, IInv, Reboot, FaultKind
  <2>2. Idle.connected /\ Idle.pc = "idle"
    BY DEF Idle
  <2> QED BY <2>1, <2>2 DEF Reboot, ledger
<1>2. \A r \in RunId : ~Runs(r)'
  <2> TAKE r \in RunId
  <2>1. unit[r] \in Unit
    BY DEF JInv, IInv, TypeOK
  <2>2. unit'[r] = CASE unit[r].state = "active" -> [unit[r] EXCEPT !.state = "gone",
                                                                   !.result = "bad"]
                     [] unit[r].state = "loaded" -> [unit[r] EXCEPT !.state = "gone"]
                     [] OTHER                    -> unit[r]
    BY DEF Reboot
  <2> QED BY <2>1, <2>2 DEF Unit, Runs
<1>3. DOMAIN job_runs \subseteq RunId
  BY RowFacts DEF JInv, IInv
<1>4. \A p \in Proc : proc'[p] = Idle
  BY <1>1
<1>5. TrustedInv'
  BY <1>1, <1>2, <1>3, <1>4 DEF TrustedInv, Active
<1>6. CopyInv'
  BY <1>1, <1>4 DEF CopyInv, Clear, Active
<1>7. FetchInv'
  <2> SUFFICES ASSUME NoFault'
               PROVE  FALSE
    BY DEF FetchInv
  <2> QED BY <1>1
<1> QED BY <1>5, <1>6, <1>7

(* a unit ends, or is forgotten, or time passes *)
LEMMA UnitEndsJ ==
    ASSUME JInv, NEW r \in RunId, Ending(r) \/ CollectUnit(r)
    PROVE  TrustedInv' /\ CopyInv' /\ FetchInv'
<1>0. TypeOK /\ RowInv /\ TrustedInv /\ CopyInv /\ FetchInv
  BY DEF JInv, IInv
<1>1. UNCHANGED <<proc, job_runs, faults>>
  BY DEF Ending, UnitEnds, CollectUnit, ledger
<1>2. unit[r] \in Unit /\ clock \in Nat /\ MaxTime \in Nat /\ clock <= MaxTime
      /\ newAt \in [Source -> Time] /\ DOMAIN job_runs \subseteq RunId
  BY <1>0, RowFacts, SchedulerAssumption DEF TypeOK, Time
<1>3. /\ \A q \in RunId \ {r} : unit'[q] = unit[q]
      /\ unit'[r].state # "active" /\ unit'[r].began = unit[r].began
  <2>1. unit \in [RunId -> Unit]
    BY <1>0 DEF TypeOK
  <2>2. CASE Ending(r)
    <3>1. PICK result \in {"ok", "bad"} :
              unit' = [unit EXCEPT ![r].state = "loaded", ![r].result = result]
      BY <2>2 DEF Ending, UnitEnds
    <3> QED BY <1>2, <2>1, <3>1 DEF Unit
  <2>3. CASE CollectUnit(r)
    BY <1>2, <2>1, <2>3 DEF CollectUnit, Unit
  <2> QED BY <2>2, <2>3
<1>4. /\ \A q \in RunId : Runs(q)' => Runs(q)
      /\ \A q \in RunId : unit'[q].began = unit[q].began
  BY <1>3 DEF Runs
<1>5. TrustedInv' /\ CopyInv'
  <2>1. \A j : NoneRuns(j) => NoneRuns(j)'
    BY <1>1, <1>2, <1>4 DEF NoneRuns
  <2>2. TrustedInv'
    BY <1>0, <1>1, <1>2, <1>4, SameFaults DEF TrustedInv, Active
  <2>3. ASSUME NEW p \in Proc, Clear(proc[p])
        PROVE  Clear(proc[p])'
    BY <1>1, <1>2, <1>4, <2>1, <2>3 DEF Clear
  <2> QED BY <1>0, <1>1, <2>2, <2>3, SameFaults DEF CopyInv, Active
<1>6. FetchInv'
  <2> SUFFICES ASSUME NoFault
               PROVE  FetchInv'
    BY <1>1, SameFaults DEF FetchInv
  <2>1. CASE CollectUnit(r)
    <3>1. UNCHANGED <<clock, newAt>>
      BY <2>1 DEF CollectUnit, attempts
    <3>2. \A p \in Proc : proc[p].pc = "wait" => proc[p].run \in RunId
      BY <1>0, <1>2 DEF RowInv, Active
    <3> QED BY <1>0, <1>1, <1>2, <1>4, <3>1, <3>2 DEF FetchInv, Foreign, Active
  <2>2. CASE Ending(r)
    <3>1. /\ Runs(r) /\ clock' = Later(clock)
          /\ \A s \in Source :
                \/ newAt'[s] = newAt[s]
                \/ s \in Registry[job_runs[r].job].sources /\ newAt'[s] = clock'
      <4>1. PICK result \in {"ok", "bad"}, polled \in {"open", "failed", "unchanged", "new"} :
                UnitEnds(r, result, polled)
        BY <2>2 DEF Ending
      <4>2. newAt' = [s \in Source |->
                         IF s \in Registry[job_runs[r].job].sources /\ polled = "new"
                         THEN Later(clock) ELSE newAt[s]]
        BY <4>1 DEF UnitEnds
      <4>3. Runs(r) /\ clock' = Later(clock)
        BY <4>1 DEF UnitEnds, Runs
      <4>4. ASSUME NEW s \in Source
            PROVE  \/ newAt'[s] = newAt[s]
                   \/ s \in Registry[job_runs[r].job].sources /\ newAt'[s] = clock'
        BY <4>2, <4>3
      <4> QED BY <4>3, <4>4
    <3>2. clock' \in Nat /\ clock' >= clock /\ (clock' > clock \/ clock' = MaxTime)
      BY <1>2, <3>1 DEF Later
    <3>3. PICK p \in Proc : proc[p].pc = "wait" /\ proc[p].run = r
      BY <1>0, <3>1 DEF FetchInv
    <3>4. \A q \in Proc : proc[q].pc = "wait" => q = p
      BY <3>3, Sole, NoFaultTrusted
    <3>5. \A s \in Foreign(job_runs[r].job) : newAt'[s] = newAt[s]
      BY <3>1 DEF Foreign
    <3>6. \A s \in Source : newAt[s] \in Nat /\ newAt'[s] \in Nat /\ newAt'[s] <= clock'
      BY <1>0, <1>2, <3>1, <3>2, SchedulerAssumption DEF FetchInv, Time
    <3>7. \A q \in DOMAIN job_runs :
             job_runs[q].completed \in Nat /\ job_runs[q].completed <= clock
                 /\ job_runs[q].completed <= clock'
      BY <1>0, <1>2, <3>2, RowFacts, SchedulerAssumption DEF FetchInv, RunRow, Time
    <3>8. \A q \in DOMAIN job_runs : job_runs[q].outcome = "ran" =>
             \A s \in Foreign(job_runs[q].job) :
                 \/ unit[q].began >= newAt'[s]
                 \/ job_runs[q].completed < newAt'[s]
                 \/ newAt'[s] = MaxTime
      <4> SUFFICES ASSUME NEW q \in DOMAIN job_runs, job_runs[q].outcome = "ran",
                          NEW s \in Foreign(job_runs[q].job)
                   PROVE  \/ unit[q].began >= newAt'[s]
                          \/ job_runs[q].completed < newAt'[s]
                          \/ newAt'[s] = MaxTime
        OBVIOUS
      <4>1. s \in Source
        BY DEF Foreign
      <4>2. CASE newAt'[s] = newAt[s]
        BY <1>0, <4>2 DEF FetchInv
      <4>3. CASE newAt'[s] = clock'
        BY <1>2, <3>2, <3>7, <4>3
      <4> QED BY <3>1, <4>1, <4>2, <4>3
    <3>9. \A s \in Foreign(job_runs[r].job) : unit[r].began >= newAt'[s]
      BY <1>0, <3>3, <3>5 DEF FetchInv
    <3>10. \A q \in Proc : proc[q].pc = "wait" =>
              \A s \in Foreign(job_runs[proc[q].run].job) : unit'[proc[q].run].began >= newAt'[s]
      BY <1>4, <3>3, <3>4, <3>9
    <3> QED BY <1>0, <1>1, <1>2, <1>4, <3>6, <3>7, <3>8, <3>10 DEF FetchInv, Foreign, Active
  <2> QED BY <2>1, <2>2
<1> QED BY <1>5, <1>6

LEMMA ClockJ ==
    ASSUME JInv, Advance \/ \E s \in Source, new \in BOOLEAN : LegacyPoll(s, new)
    PROVE  TrustedInv' /\ CopyInv' /\ FetchInv'
<1>0. TypeOK /\ TrustedInv /\ CopyInv /\ FetchInv
  BY DEF JInv, IInv
<1>1. UNCHANGED <<proc, job_runs, unit, faults>> /\ clock' = clock + 1
  BY DEF Advance, LegacyPoll, ledger
<1>2. TrustedInv' /\ CopyInv'
  BY <1>0, <1>1, SameFaults DEF TrustedInv, CopyInv, Clear, NoneRuns, Active, Runs
<1>3. FetchInv'
  <2> SUFFICES ASSUME NoFault
               PROVE  FetchInv'
    BY <1>1, SameFaults DEF FetchInv
  <2>1. /\ clock \in Nat /\ MaxTime \in Nat
        /\ \A s \in Source : newAt[s] \in Nat
        /\ \A q \in DOMAIN job_runs : job_runs[q].completed \in Nat
    BY <1>0, RowFacts, SchedulerAssumption DEF TypeOK, RunRow, Time
  <2>2. /\ \A s \in Source : newAt'[s] = newAt[s] \/ newAt'[s] = clock'
        /\ \A s \in Source \ Legacy : newAt'[s] = newAt[s]
    BY <1>0 DEF Advance, LegacyPoll, TypeOK, attempts
  <2>3. /\ \A s \in Source : newAt'[s] <= clock'
        /\ \A q \in DOMAIN job_runs : job_runs[q].completed <= clock'
    BY <1>0, <1>1, <2>1, <2>2 DEF FetchInv
  <2>4. \A j : \A s \in Foreign(j) : newAt'[s] = newAt[s]
    BY <2>2 DEF Foreign
  <2> QED BY <1>0, <1>1, <2>3, <2>4 DEF FetchInv, Active, Runs
<1> QED BY <1>2, <1>3

LEMMA InitJ == Init => JInv
<1> SUFFICES ASSUME Init PROVE JInv
  OBVIOUS
<1>1. IInv
  BY InitInv
<1>2. job_runs = <<>> /\ DOMAIN job_runs = {} /\ \A p \in Proc : proc[p] = Idle
  BY DEF Init
<1>3. Idle.connected /\ Idle.pc = "idle"
  BY DEF Idle
<1>4. \A r \in RunId : ~Runs(r)
  BY DEF Init, Runs
<1>5. clock \in Nat /\ \A s \in Source : newAt[s] <= clock
  BY PlanAssumption DEF Init
<1>6. TrustedInv /\ CopyInv /\ FetchInv
  BY <1>2, <1>3, <1>4, <1>5 DEF TrustedInv, CopyInv, FetchInv, Clear, Active
<1> QED BY <1>1, <1>6 DEF JInv

LEMMA NextJ ==
    ASSUME JInv, [Next]_vars
    PROVE  JInv'
<1>0. IInv'
  BY NextInv DEF JInv
<1> SUFFICES TrustedInv' /\ CopyInv' /\ FetchInv'
  BY <1>0 DEF JInv
<1>1. CASE \E p \in Proc : StartTick(p) \/ Working(p) \/ Crash(p) \/ LoseConnection(p)
  BY <1>1, StartTickJ, ReconcileRowJ, MakePlanJ, RecordJ, LaunchJ, StartUnitJ, CloseRunJ,
     ProcessEndsJ, LoseConnectionJ DEF Working
<1>2. CASE \E p \in Proc, j \in HandRun, force \in BOOLEAN :
              StartHandRun(p, j, force) \/ RefuseHandRun(p, j, force)
  BY <1>2, HandRunJ
<1>3. CASE \E r \in RunId : Ending(r) \/ CollectUnit(r)
  BY <1>3, UnitEndsJ
<1>4. CASE Advance \/ \E s \in Source, new \in BOOLEAN : LegacyPoll(s, new)
  BY <1>4, ClockJ
<1>5. CASE Reboot
  BY <1>5, RebootJ
<1>6. CASE UNCHANGED vars
  <2>1. UNCHANGED <<clock, proc, job_runs, unit, newAt, faults>>
    BY <1>6 DEF vars, ledger, attempts
  <2> QED BY <2>1, SameFaults DEF JInv, TrustedInv, CopyInv, FetchInv, Clear, NoneRuns,
                                  Foreign, Active, Runs
<1> QED BY <1>1, <1>2, <1>3, <1>4, <1>5, <1>6 DEF Next

(* The invariant of ticks holds of every behaviour; what it says depends on *)
(* the faults the behaviour had (runner.py, cli.py).                       *)
THEOREM TickInvariant == Spec => []JInv
<1>1. Init => JInv
  BY InitJ
<1>2. JInv /\ [Next]_vars => JInv'
  BY NextJ
<1> QED BY <1>1, <1>2, PTL DEF Spec

(* A unit that runs is on an open row, where the next reconcile finds it,   *)
(* as long as no connection dropped under its process and systemctl         *)
(* answered; crashes, reboots and hand runs are in (runner.py, reconcile).  *)
THEOREM RunningIsOnAnOpenRow == Spec => []ActiveIsOpen
<1>1. JInv => ActiveIsOpen
  BY DEF JInv, TrustedInv, ActiveIsOpen, Runs
<1> QED BY <1>1, TickInvariant, PTL

(* Under the same premise a tick never starts a second copy of a job: a     *)
(* unit that outlived its scheduler or its hand run is found in flight      *)
(* before the plan, and nobody starts one between (runner.py, reconcile).   *)
THEOREM NoSecondCopy == Spec => OneCopy
<1> DEFINE OneMore ==
        Trusted =>
            \A r \in RunId :
                unit[r].state # "active" /\ unit'[r].state = "active" =>
                    job_runs[r].by = "manual" \/ ActiveUnits(job_runs[r].job) = {}
<1>1. ASSUME JInv, [Next]_vars
      PROVE  OneMore
  <2>1. ASSUME Trusted, NEW p \in Proc, StartUnit(p), NEW r \in RunId,
               unit[r].state # "active", unit'[r].state = "active", job_runs[r].by # "manual"
        PROVE  ActiveUnits(job_runs[r].job) = {}
    <3>1. TypeOK /\ CopyInv /\ RowInv /\ Active(p) /\ proc[p].pc = "opened"
      BY <1>1, <2>1 DEF JInv, IInv, StartUnit, Active
    <3>2. r = proc[p].run /\ r \in DOMAIN job_runs
      BY <2>1, <3>1 DEF StartUnit, TypeOK, RowInv
    <3>3. proc[p].by = "scheduler"
      BY <2>1, <3>1, <3>2 DEF CopyInv, TypeOK, Process
    <3>4. NoneRuns(job_runs[r].job)
      BY <2>1, <3>1, <3>2, <3>3 DEF CopyInv, Clear
    <3> QED BY <3>4 DEF NoneRuns, Runs, ActiveUnits, RowsOf
  <2>2. ASSUME NEW r \in RunId, unit[r].state # "active", unit'[r].state = "active"
        PROVE  \E p \in Proc : StartUnit(p)
    <3>1. unit \in [RunId -> Unit] /\ unit[r] \in Unit
      BY <1>1 DEF JInv, IInv, TypeOK
    <3>2. ASSUME NEW p \in Proc, ReconcileRow(p)
          PROVE  FALSE
      <4>1. PICK q \in Oldest(proc[p].open), answer \in Answer : Reconciled(p, q, answer)
        BY <3>2, AnswerTaken
      <4> QED BY <2>2, <3>1, <4>1 DEF Reconciled, Unit
    <3>3. ASSUME NEW p \in Proc, StartUnitFails(p) \/ CloseRun(p)
          PROVE  FALSE
      BY <2>2, <3>1, <3>3 DEF StartUnitFails, CloseRun, Unit
    <3>4. ASSUME NEW q \in RunId, Ending(q) \/ CollectUnit(q)
          PROVE  FALSE
      BY <2>2, <3>1, <3>4 DEF Ending, UnitEnds, CollectUnit, Unit
    <3>5. CASE Reboot
      BY <2>2, <3>1, <3>5 DEF Reboot, Unit
    <3>6. UNCHANGED unit => FALSE
      BY <2>2
    <3>7. \/ UNCHANGED unit
          \/ \E p \in Proc : ReconcileRow(p) \/ StartUnit(p) \/ StartUnitFails(p) \/ CloseRun(p)
          \/ \E q \in RunId : Ending(q) \/ CollectUnit(q)
          \/ Reboot
      BY <1>1 DEF Next, Working, vars, StartTick, MakePlan, RecordEntry, Launch, SkipLaunch,
                  Finish, NoticeLoss, Crash, LoseConnection, StartHandRun, RefuseHandRun,
                  LegacyPoll, Advance
    <3> QED BY <3>2, <3>3, <3>4, <3>5, <3>6, <3>7
  <2> QED BY <2>1, <2>2
<1>2. JInv /\ [Next]_vars => [OneMore]_vars
  BY <1>1
<1> QED BY <1>2, TickInvariant, PTL DEF Spec, OneCopy

(* While nothing failed, a mart the dependency rule calls up to date ran    *)
(* after the fetch it was waiting for: its runs and its ingest's fetches   *)
(* never overlap, hand runs included (plan.py, due_for).                   *)
THEOREM FetchesAreNotMasked == Spec => []NoFetchMasked
<1>1. ASSUME JInv, NoFault, NEW j \in DOMAIN Registry,
             NEW s \in Source \ (Legacy \cup Registry[j].sources),
             newAt[s] \notin {Never, MaxTime}, RanAt(j) >= newAt[s]
      PROVE  \E r \in RanRows(j) : unit[r].began >= newAt[s]
  <2> DEFINE S == {job_runs[r].completed : r \in RanRows(j)} \cup {Never}
  <2>1. TypeOK /\ MaxTime \in Nat /\ newAt[s] \in 0..MaxTime
    BY <1>1, SchedulerAssumption DEF JInv, IInv, TypeOK, Time
  <2>2. S \in SUBSET (0..MaxTime) /\ S # {}
    BY <2>1, RowFacts DEF RanRows, RowsOf, RunRow, Time
  <2> HIDE DEF S
  <2>3. Max(S) \in S
    BY <2>1, <2>2, MaxMember
  <2>4. RanAt(j) = Max(S)
    BY DEF RanAt, S
  <2>5. RanAt(j) # Never
    BY <1>1, <2>1
  <2>6. PICK r \in RanRows(j) : job_runs[r].completed = RanAt(j)
    BY <2>3, <2>4, <2>5 DEF S
  <2>7. r \in DOMAIN job_runs /\ job_runs[r].job = j /\ job_runs[r].outcome = "ran"
    BY DEF RanRows, RowsOf
  <2>8. s \in Foreign(job_runs[r].job)
    BY <2>7 DEF Foreign
  <2>9. job_runs[r].completed \in Nat /\ job_runs[r].completed >= newAt[s]
    BY <1>1, <2>1, <2>6, <2>7, RowFacts, SchedulerAssumption DEF RunRow, Time
  <2>10. unit[r].began >= newAt[s]
    BY <1>1, <2>1, <2>7, <2>8, <2>9 DEF JInv, FetchInv
  <2> QED BY <2>10
<1>2. JInv => NoFetchMasked
  BY <1>1 DEF NoFetchMasked
<1> QED BY <1>2, TickInvariant, PTL
=============================================================================
