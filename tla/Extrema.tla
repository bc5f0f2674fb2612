------------------------------- MODULE Extrema -------------------------------
(* Facts about Min and Max of FiniteSetsExt over sets of naturals, induction *)
(* over a finite set and the sums of Functions, for the proof modules.     *)
EXTENDS Integers, Functions, FiniteSetsExt, FiniteSetTheorems, WellFoundedInduction, TLAPS

(* Every non-empty set of naturals has a least element. *)
THEOREM LeastNatural ==
    ASSUME NEW S \in SUBSET Nat, S # {}
    PROVE  \E x \in S : \A y \in S : x <= y
<1> DEFINE R == OpToRel(<, Nat)
<1>1. IsWellFoundedOn(R, Nat)
  BY NatLessThanWellFounded
<1>2. PICK x \in S : \A y \in S : ~(<<y, x>> \in R)
  <2> HIDE DEF R
  <2> QED BY <1>1, WFMin
<1>3. ASSUME NEW y \in S, ~(<<y, x>> \in R)
      PROVE  x <= y
  <2>1. ~(y < x)
    BY <1>3 DEF OpToRel
  <2> QED BY <2>1
<1> QED BY <1>2, <1>3

(* Every non-empty set of naturals with a bound has a greatest element. *)
THEOREM GreatestBelow ==
    ASSUME NEW N \in Nat, NEW S \in SUBSET (0..N), S # {}
    PROVE  \E x \in S : \A y \in S : x >= y
<1> DEFINE T == {d \in 0..N : (N - d) \in S}
<1>1. PICK s \in S : TRUE
  OBVIOUS
<1>2. T \in SUBSET Nat /\ (N - s) \in T
  BY <1>1
<1>3. PICK d \in T : \A e \in T : d <= e
  <2> HIDE DEF T
  <2> QED BY <1>2, LeastNatural
<1>4. ASSUME NEW y \in S
      PROVE  (N - d) >= y
  <2>1. (N - y) \in T
    OBVIOUS
  <2>2. d <= N - y
    <3> HIDE DEF T
    <3> QED BY <2>1, <1>3
  <2>3. d \in Nat /\ y \in Nat
    OBVIOUS
  <2> QED BY <2>2, <2>3
<1>5. (N - d) \in S
  OBVIOUS
<1> QED BY <1>4, <1>5

(* So Max of such a set is a member that bounds the others. *)
THEOREM MaxMember ==
    ASSUME NEW N \in Nat, NEW S \in SUBSET (0..N), S # {}
    PROVE  Max(S) \in S /\ \A y \in S : Max(S) >= y
BY GreatestBelow DEF Max

(* Induction along the first naturals *)
THEOREM Climbing ==
    ASSUME NEW N \in Nat, NEW G, 0 \in G, \A k \in 0..(N - 1) : k \in G => k + 1 \in G
    PROVE  0..N \subseteq G
<1> DEFINE Bad == (0..N) \ G
<1> SUFFICES ASSUME Bad # {} PROVE FALSE
  OBVIOUS
<1>1. PICK k \in Bad : \A y \in Bad : k <= y
  <2>1. Bad \in SUBSET Nat
    OBVIOUS
  <2> HIDE DEF Bad
  <2> QED BY <2>1, LeastNatural
<1>2. k # 0 /\ k - 1 \in 0..(N - 1) /\ k - 1 \notin Bad
  BY <1>1
<1> QED BY <1>1, <1>2

(* Induction over the subsets of a finite set, towards the set itself *)
THEOREM SubsetInduction ==
    ASSUME NEW S, IsFiniteSet(S), NEW G, {} \in G,
           \A s \in SUBSET S : s # {} /\ (\A x \in s : s \ {x} \in G) => s \in G
    PROVE  S \in G
<1>1. \A s \in SUBSET S : IsFiniteSet(s) /\ Cardinality(s) \in Nat
  BY FS_Subset, FS_CardinalityType
<1> DEFINE Bad == {s \in SUBSET S : s \notin G}
           B == {Cardinality(s) : s \in Bad}
<1> SUFFICES ASSUME B # {} PROVE FALSE
  OBVIOUS
<1>2. PICK n \in B : \A k \in B : n <= k
  <2>1. B \subseteq Nat
    BY <1>1
  <2> HIDE DEF B
  <2> QED BY <2>1, LeastNatural
<1>3. PICK s \in Bad : Cardinality(s) = n
  OBVIOUS
<1>4. ASSUME NEW x \in s PROVE s \ {x} \in G
  <2>1. Cardinality(s \ {x}) = n - 1 /\ n \in Nat
    BY <1>1, <1>3, FS_RemoveElement
  <2>2. n - 1 \notin B
    <3> HIDE DEF B
    <3> QED BY <1>2, <2>1
  <2>3. s \ {x} \notin Bad
    <3> HIDE DEF Bad
    <3> QED BY <2>1, <2>2
  <2> QED BY <2>3
<1> QED BY <1>3, <1>4

(* A finite set of naturals that is not empty has a greatest element. *)
THEOREM GreatestOfFinite ==
    ASSUME NEW S \in SUBSET Nat, IsFiniteSet(S), S # {}
    PROVE  \E x \in S : \A y \in S : y <= x
<1> DEFINE G == {s \in SUBSET S : s = {} \/ \E x \in s : \A y \in s : y <= x}
<1>1. {} \in G
  OBVIOUS
<1>2. ASSUME NEW s \in SUBSET S, s # {}, \A x \in s : s \ {x} \in G
      PROVE  s \in G
  <2>1. PICK x \in s : TRUE
    BY <1>2
  <2>2. CASE s \ {x} = {}
    BY <2>1, <2>2
  <2>3. CASE s \ {x} # {}
    <3>1. PICK z \in s \ {x} : \A y \in s \ {x} : y <= z
      BY <1>2, <2>3
    <3>2. x <= z \/ z <= x
      OBVIOUS
    <3> QED BY <3>1, <3>2
  <2> QED BY <2>2, <2>3
<1> HIDE DEF G
<1>3. S \in G
  BY <1>1, <1>2, SubsetInduction
<1> QED BY <1>3 DEF G

-----------------------------------------------------------------------------
(* Sums of integers over a finite set                                      *)

SumOver(f, S) == FoldFunctionOnSet(+, 0, f, S)

Chosen(s)        == CHOOSE x \in s : TRUE
SumStep(f, g, s) == IF s = {} THEN 0 ELSE f[Chosen(s)] + g[s \ {Chosen(s)}]
SumTable(f, S)   == CHOOSE g : g = [s \in SUBSET S |-> SumStep(f, g, s)]

(* The fold reads the table it recurses by. *)
LEMMA SumReadsTable == ASSUME NEW f, NEW S PROVE SumOver(f, S) = SumTable(f, S)[S]
BY DEF SumOver, FoldFunctionOnSet, MapThenFoldSet, SumTable, SumStep, Chosen

(* The function the fold recurses by exists: it is built by cardinality. *)
LEMMA TableRecurs ==
    ASSUME NEW f, NEW S, IsFiniteSet(S), \A x \in S : f[x] \in Int
    PROVE  /\ SumTable(f, S) \in [SUBSET S -> Int]
           /\ \A s \in SUBSET S : SumTable(f, S)[s] = SumStep(f, SumTable(f, S), s)
<1> DEFINE Small(n) == {s \in SUBSET S : Cardinality(s) <= n}
           Sums(n) == \E g \in [Small(n) -> Int] : \A s \in Small(n) : g[s] = SumStep(f, g, s)
<1>2. \A s \in SUBSET S : IsFiniteSet(s) /\ Cardinality(s) \in Nat
  BY FS_Subset, FS_CardinalityType
<1>3. \A s \in SUBSET S : s # {} =>
         /\ Chosen(s) \in s /\ s \ {Chosen(s)} \in SUBSET S
         /\ Cardinality(s \ {Chosen(s)}) = Cardinality(s) - 1
  BY <1>2, FS_RemoveElement DEF Chosen
<1>4. Sums(0)
  <2> DEFINE g == [s \in Small(0) |-> 0]
  <2>1. \A s \in Small(0) : s = {}
    BY <1>2, FS_EmptySet
  <2>2. g \in [Small(0) -> Int] /\ \A s \in Small(0) : g[s] = 0
    OBVIOUS
  <2> HIDE DEF g
  <2>3. \A s \in Small(0) : g[s] = SumStep(f, g, s)
    BY <2>1, <2>2 DEF SumStep
  <2> QED BY <2>2, <2>3
<1>5. ASSUME NEW n \in Nat, Sums(n)
      PROVE  Sums(n + 1)
  <2>1. PICK g \in [Small(n) -> Int] : \A s \in Small(n) : g[s] = SumStep(f, g, s)
    BY <1>5
  <2> DEFINE k == [s \in Small(n + 1) |-> SumStep(f, g, s)]
  <2>2. \A s \in Small(n + 1) : s # {} => s \ {Chosen(s)} \in Small(n) /\ f[Chosen(s)] \in Int
    BY <1>2, <1>3
  <2>3. \A s \in Small(n) : s \in Small(n + 1) /\ k[s] = g[s]
    BY <1>2, <2>1
  <2>4. k \in [Small(n + 1) -> Int]
    <3>1. ASSUME NEW s \in Small(n + 1) PROVE SumStep(f, g, s) \in Int
      <4> HIDE DEF Small
      <4> QED BY <2>2 DEF SumStep
    <3> HIDE DEF Small
    <3> QED BY <3>1
  <2>5. ASSUME NEW s \in Small(n + 1) PROVE k[s] = SumStep(f, k, s)
    <3>1. k[s] = SumStep(f, g, s)
      <4> HIDE DEF Small
      <4> QED OBVIOUS
    <3>2. s # {} => k[s \ {Chosen(s)}] = g[s \ {Chosen(s)}]
      <4> HIDE DEF k, Small
      <4> QED BY <2>2, <2>3
    <3> HIDE DEF k, Small
    <3> QED BY <3>1, <3>2 DEF SumStep
  <2> HIDE DEF k
  <2> QED BY <2>4, <2>5
<1>6. \A n \in Nat : Sums(n)
  <2> DEFINE B == {n \in Nat : ~Sums(n)}
  <2> SUFFICES ASSUME B # {} PROVE FALSE
    <3> HIDE DEF Sums
    <3> QED OBVIOUS
  <2>1. PICK n \in B : \A k \in B : n <= k
    <3>1. B \subseteq Nat
      OBVIOUS
    <3> HIDE DEF B
    <3> QED BY <3>1, LeastNatural
  <2> HIDE DEF Sums
  <2>2. n # 0 /\ n \in Nat
    BY <1>4
  <2>3. n - 1 \in Nat /\ n - 1 \notin B
    BY <2>1, <2>2
  <2> QED BY <2>3, <2>2, <1>5
<1>7. PICK g \in [SUBSET S -> Int] : g = [s \in SUBSET S |-> SumStep(f, g, s)]
  <2>1. Small(Cardinality(S)) = SUBSET S /\ Cardinality(S) \in Nat
    BY <1>2, FS_Subset
  <2> HIDE DEF Small
  <2>2. PICK g \in [Small(Cardinality(S)) -> Int] :
           \A s \in Small(Cardinality(S)) : g[s] = SumStep(f, g, s)
    BY <2>1, <1>6
  <2>3. g = [s \in SUBSET S |-> SumStep(f, g, s)]
    BY <2>1, <2>2
  <2> QED BY <2>1, <2>2, <2>3
<1> DEFINE T == SumTable(f, S)
<1>8. T = [s \in SUBSET S |-> SumStep(f, T, s)]
  BY <1>7 DEF SumTable
<1>9. \A s \in SUBSET S : T[s] = SumStep(f, T, s)
  <2> HIDE DEF T
  <2> QED BY <1>8
<1>10. \A s \in SUBSET S : T[s] = g[s]
  <2> DEFINE G == {s \in SUBSET S : T[s] = g[s]}
  <2> HIDE DEF T
  <2>1. {} \in G
    BY <1>7, <1>9 DEF SumStep
  <2>2. ASSUME NEW s \in SUBSET S, s # {}, \A x \in s : s \ {x} \in G
        PROVE  s \in G
    <3>1. T[s \ {Chosen(s)}] = g[s \ {Chosen(s)}]
      BY <2>2, <1>3
    <3>2. g[s] = SumStep(f, g, s) /\ T[s] = SumStep(f, T, s)
      BY <1>7, <1>9
    <3> QED BY <2>2, <3>1, <3>2 DEF SumStep
  <2> SUFFICES ASSUME NEW s \in SUBSET S PROVE s \in G
    OBVIOUS
  <2> HIDE DEF G
  <2>3. IsFiniteSet(s) /\ \A t \in SUBSET s : t \in SUBSET S
    BY <1>2
  <2> QED BY <2>1, <2>2, <2>3, SubsetInduction
<1>11. T \in [SUBSET S -> Int]
  <2> HIDE DEF T
  <2>1. DOMAIN T = SUBSET S
    BY <1>8
  <2>2. T = [s \in SUBSET S |-> T[s]]
    BY <1>8
  <2> QED BY <1>7, <1>10, <2>2
<1> QED BY <1>9, <1>11

(* So a sum unfolds at the member the fold chooses. *)
LEMMA SumUnfolds ==
    ASSUME NEW f, NEW S, IsFiniteSet(S), \A x \in S : f[x] \in Int
    PROVE  /\ SumOver(f, S) \in Int
           /\ S = {} => SumOver(f, S) = 0
           /\ S # {} => SumOver(f, S) = f[Chosen(S)] + SumOver(f, S \ {Chosen(S)})
<1> DEFINE T == S \ {Chosen(S)}
<1>1. SumOver(f, S) \in Int /\ SumOver(f, S) = SumStep(f, SumTable(f, S), S)
  <2>1. S \in SUBSET S /\ SumOver(f, S) = SumTable(f, S)[S]
    BY SumReadsTable
  <2>2. /\ SumTable(f, S) \in [SUBSET S -> Int]
        /\ \A s \in SUBSET S : SumTable(f, S)[s] = SumStep(f, SumTable(f, S), s)
    BY TableRecurs
  <2> QED BY <2>1, <2>2
<1>2. S # {} => SumTable(f, S)[T] = SumOver(f, T)
  <2>1. /\ T \in SUBSET S /\ IsFiniteSet(T) /\ \A x \in T : f[x] \in Int
        /\ \A s \in SUBSET T : s \in SUBSET S
    BY FS_Subset
  <2> DEFINE G == {s \in SUBSET T : SumTable(f, T)[s] = SumTable(f, S)[s]}
  <2> HIDE DEF T
  <2>2. \A s \in SUBSET T : /\ SumTable(f, S)[s] = SumStep(f, SumTable(f, S), s)
                            /\ SumTable(f, T)[s] = SumStep(f, SumTable(f, T), s)
    BY <2>1, TableRecurs
  <2>3. {} \in G
    BY <2>2 DEF SumStep
  <2>4. ASSUME NEW s \in SUBSET T, s # {}, \A x \in s : s \ {x} \in G
        PROVE  s \in G
    <3>1. Chosen(s) \in s
      BY <2>4 DEF Chosen
    <3>2. SumTable(f, T)[s \ {Chosen(s)}] = SumTable(f, S)[s \ {Chosen(s)}]
      BY <2>4, <3>1
    <3> QED BY <2>2, <2>4, <3>2 DEF SumStep
  <2> HIDE DEF G
  <2>5. T \in G
    BY <2>1, <2>3, <2>4, SubsetInduction
  <2> QED BY <2>5, SumReadsTable DEF G
<1> QED BY <1>1, <1>2 DEF SumStep

(* The order of a sum does not matter: any member may come first. *)
THEOREM SumRemove ==
    ASSUME NEW f, NEW S, IsFiniteSet(S), \A x \in S : f[x] \in Int, NEW x \in S
    PROVE  SumOver(f, S) = f[x] + SumOver(f, S \ {x})
<1> DEFINE G == {s \in SUBSET S : \A y \in s : SumOver(f, s) = f[y] + SumOver(f, s \ {y})}
<1>1. {} \in G
  OBVIOUS
<1>2. \A s \in SUBSET S : IsFiniteSet(s) /\ (\A y \in s : f[y] \in Int) /\ SumOver(f, s) \in Int
  BY FS_Subset, SumUnfolds
<1>3. ASSUME NEW s \in SUBSET S, s # {}, \A y \in s : s \ {y} \in G
      PROVE  s \in G
  <2> DEFINE c == Chosen(s)
  <2>1. c \in s
    BY <1>3 DEF Chosen
  <2>2. SumOver(f, s) = f[c] + SumOver(f, s \ {c})
    BY <1>2, <1>3, SumUnfolds
  <2> HIDE DEF c
  <2> SUFFICES ASSUME NEW y \in s, y # c PROVE SumOver(f, s) = f[y] + SumOver(f, s \ {y})
    BY <2>2
  <2> DEFINE t == s \ {c, y}
  <2>3. (s \ {c}) \ {y} = t /\ (s \ {y}) \ {c} = t /\ t \in SUBSET S
    OBVIOUS
  <2>4. SumOver(f, s \ {c}) = f[y] + SumOver(f, t)
    BY <1>3, <2>1, <2>3
  <2>5. SumOver(f, s \ {y}) = f[c] + SumOver(f, t)
    BY <1>3, <2>1, <2>3
  <2>6. f[y] \in Int /\ f[c] \in Int /\ SumOver(f, t) \in Int
    BY <1>2, <2>1, <2>3
  <2> QED BY <2>2, <2>4, <2>5, <2>6
<1> HIDE DEF G
<1>4. S \in G
  BY <1>1, <1>3, SubsetInduction
<1> QED BY <1>4 DEF G

(* Nothing sums to zero. *)
THEOREM SumOfNone == ASSUME NEW f PROVE SumOver(f, {}) = 0
BY SumUnfolds, FS_EmptySet

(* The sum of integers is one. *)
THEOREM SumType ==
    ASSUME NEW f, NEW S, IsFiniteSet(S), \A x \in S : f[x] \in Int
    PROVE  SumOver(f, S) \in Int
BY SumUnfolds

(* A new member adds its value. *)
THEOREM SumAdd ==
    ASSUME NEW f, NEW S, IsFiniteSet(S), NEW x, x \notin S, \A y \in S \cup {x} : f[y] \in Int
    PROVE  SumOver(f, S \cup {x}) = f[x] + SumOver(f, S)
<1>1. IsFiniteSet(S \cup {x}) /\ (S \cup {x}) \ {x} = S
  BY FS_AddElement
<1> QED BY <1>1, SumRemove

(* Functions that agree on a set have the same sum over it. *)
THEOREM SumSame ==
    ASSUME NEW S, IsFiniteSet(S), NEW f, NEW g, \A x \in S : f[x] \in Int /\ g[x] = f[x]
    PROVE  SumOver(g, S) = SumOver(f, S)
<1> DEFINE G == {s \in SUBSET S : SumOver(g, s) = SumOver(f, s)}
<1>1. {} \in G
  BY SumOfNone
<1>2. ASSUME NEW s \in SUBSET S, s # {}, \A x \in s : s \ {x} \in G
      PROVE  s \in G
  <2>1. PICK x \in s : TRUE
    BY <1>2
  <2>2. IsFiniteSet(s) /\ \A y \in s : f[y] \in Int /\ g[y] \in Int
    BY FS_Subset
  <2>3. SumOver(f, s) = f[x] + SumOver(f, s \ {x}) /\ SumOver(g, s) = g[x] + SumOver(g, s \ {x})
    BY <2>2, SumRemove
  <2> QED BY <1>2, <2>3
<1> HIDE DEF G
<1>3. S \in G
  BY <1>1, <1>2, SubsetInduction
<1> QED BY <1>3 DEF G

(* A constant sums to its multiple. *)
THEOREM SumOfConstant ==
    ASSUME NEW f, NEW S, IsFiniteSet(S), NEW k \in Int, \A x \in S : f[x] = k
    PROVE  SumOver(f, S) = k * Cardinality(S)
<1> DEFINE G == {s \in SUBSET S : SumOver(f, s) = k * Cardinality(s)}
<1>1. {} \in G
  BY SumOfNone, FS_EmptySet
<1>2. ASSUME NEW s \in SUBSET S, s # {}, \A x \in s : s \ {x} \in G
      PROVE  s \in G
  <2>1. PICK x \in s : TRUE
    BY <1>2
  <2>2. IsFiniteSet(s) /\ \A y \in s : f[y] \in Int
    BY FS_Subset
  <2>3. SumOver(f, s) = f[x] + SumOver(f, s \ {x})
    BY <2>2, SumRemove
  <2> DEFINE n == Cardinality(s)
             m == Cardinality(s \ {x})
  <2>4. n \in Nat /\ m = n - 1
    BY <2>2, FS_RemoveElement, FS_CardinalityType
  <2>5. SumOver(f, s \ {x}) = k * m
    BY <1>2
  <2> HIDE DEF n, m
  <2>6. k * m = k * n - k
    BY <2>4
  <2>7. SumOver(f, s) = k * n
    BY <2>3, <2>4, <2>5, <2>6
  <2> QED BY <2>7 DEF n
<1> HIDE DEF G
<1>3. S \in G
  BY <1>1, <1>2, SubsetInduction
<1> QED BY <1>3 DEF G

(* A sum is that of a part and that of the rest. *)
THEOREM SumSplit ==
    ASSUME NEW f, NEW S, IsFiniteSet(S), \A x \in S : f[x] \in Int, NEW T \in SUBSET S
    PROVE  SumOver(f, S) = SumOver(f, T) + SumOver(f, S \ T)
<1> DEFINE G == {s \in SUBSET S : SumOver(f, s) = SumOver(f, s \cap T) + SumOver(f, s \ T)}
<1>1. {} \in G
  BY SumOfNone
<1>2. \A s \in SUBSET S : IsFiniteSet(s) /\ (\A y \in s : f[y] \in Int) /\ SumOver(f, s) \in Int
  BY FS_Subset, SumUnfolds
<1>3. ASSUME NEW s \in SUBSET S, s # {}, \A x \in s : s \ {x} \in G
      PROVE  s \in G
  <2>1. PICK x \in s : TRUE
    BY <1>3
  <2> DEFINE t == s \ {x}
  <2>2. SumOver(f, t) = SumOver(f, t \cap T) + SumOver(f, t \ T)
    BY <1>3
  <2>3. SumOver(f, s) = f[x] + SumOver(f, t)
    BY <1>2, SumRemove
  <2>4. /\ SumOver(f, t \cap T) \in Int /\ SumOver(f, t \ T) \in Int /\ f[x] \in Int
        /\ s \cap T \in SUBSET S /\ s \ T \in SUBSET S
    BY <1>2
  <2>5. CASE x \in T
    <3>1. s \ T = t \ T /\ (s \cap T) \ {x} = t \cap T /\ x \in s \cap T
      BY <2>5
    <3>2. SumOver(f, s \cap T) = f[x] + SumOver(f, t \cap T)
      BY <1>2, <2>4, <3>1, SumRemove
    <3>3. SumOver(f, s \ T) = SumOver(f, t \ T)
      BY <3>1
    <3> HIDE DEF t
    <3> QED BY <2>2, <2>3, <2>4, <3>2, <3>3
  <2>6. CASE x \notin T
    <3>1. s \cap T = t \cap T /\ (s \ T) \ {x} = t \ T /\ x \in s \ T
      BY <2>6
    <3>2. SumOver(f, s \ T) = f[x] + SumOver(f, t \ T)
      BY <1>2, <2>4, <3>1, SumRemove
    <3>3. SumOver(f, s \cap T) = SumOver(f, t \cap T)
      BY <3>1
    <3> HIDE DEF t
    <3> QED BY <2>2, <2>3, <2>4, <3>2, <3>3
  <2> QED BY <2>5, <2>6
<1> HIDE DEF G
<1>4. S \in G
  BY <1>1, <1>3, SubsetInduction
<1>5. S \cap T = T
  OBVIOUS
<1> QED BY <1>4, <1>5 DEF G

(* The sum of naturals is one, and no part of it is more than the whole. *)
THEOREM SumOfNaturals ==
    ASSUME NEW f, NEW S, IsFiniteSet(S), \A x \in S : f[x] \in Nat
    PROVE  /\ SumOver(f, S) \in Nat
           /\ \A T \in SUBSET S : SumOver(f, T) <= SumOver(f, S)
<1> DEFINE G == {s \in SUBSET S : SumOver(f, s) \in Nat}
<1>1. {} \in G
  BY SumOfNone
<1>2. ASSUME NEW s \in SUBSET S, s # {}, \A x \in s : s \ {x} \in G
      PROVE  s \in G
  <2>1. PICK x \in s : TRUE
    BY <1>2
  <2>2. IsFiniteSet(s) /\ \A y \in s : f[y] \in Int
    BY FS_Subset
  <2>3. SumOver(f, s) = f[x] + SumOver(f, s \ {x}) /\ f[x] \in Nat
    BY <2>2, SumRemove
  <2> QED BY <1>2, <2>3
<1>3. ASSUME NEW T \in SUBSET S PROVE SumOver(f, T) \in Nat
  <2> DEFINE H == {s \in SUBSET T : SumOver(f, s) \in Nat}
  <2>1. IsFiniteSet(T) /\ {} \in H
    BY <1>1, FS_Subset
  <2>2. \A s \in SUBSET T : s # {} /\ (\A x \in s : s \ {x} \in H) => s \in H
    BY <1>2
  <2> HIDE DEF H
  <2>3. T \in H
    BY <2>1, <2>2, SubsetInduction
  <2> QED BY <2>3 DEF H
<1>4. ASSUME NEW T \in SUBSET S PROVE SumOver(f, T) <= SumOver(f, S)
  <2>1. S \ T \in SUBSET S /\ SumOver(f, S) = SumOver(f, T) + SumOver(f, S \ T)
    BY SumSplit
  <2> QED BY <2>1, <1>3
<1> QED BY <1>3, <1>4

(* The same of FoldFunction, over a whole domain *)
THEOREM SumIsNatural ==
    ASSUME NEW fun, IsFiniteSet(DOMAIN fun), \A i \in DOMAIN fun : fun[i] \in Nat
    PROVE  FoldFunction(+, 0, fun) \in Nat
<1>1. FoldFunction(+, 0, fun) = SumOver(fun, DOMAIN fun)
  BY DEF FoldFunction, SumOver
<1> QED BY <1>1, SumOfNaturals

(* Two finite sets with nothing in common count as their sum. *)
THEOREM CardinalityOfBoth ==
    ASSUME NEW S, NEW T, IsFiniteSet(S), IsFiniteSet(T), S \cap T = {}
    PROVE  IsFiniteSet(S \cup T) /\ Cardinality(S \cup T) = Cardinality(S) + Cardinality(T)
<1>1. /\ IsFiniteSet(S \cup T)
      /\ Cardinality(S \cup T) = Cardinality(S) + Cardinality(T) - Cardinality(S \cap T)
  BY FS_Union
<1>2. Cardinality(S \cap T) = 0 /\ Cardinality(S) \in Nat /\ Cardinality(T) \in Nat
  BY FS_EmptySet, FS_CardinalityType
<1> QED BY <1>1, <1>2
=============================================================================
