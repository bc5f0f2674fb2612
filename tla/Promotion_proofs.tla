-------------------------- MODULE Promotion_proofs --------------------------
(* What promotions keep of canonical production, for every number of ingest *)
(* processes, workbooks, filings, pools and days.                          *)
EXTENDS Promotion, Extrema, SequenceTheorems, FunctionTheorems, TLAPS

First(S)         == CHOOSE w \in S : \A v \in S : Rank[MonthOf[w]] <= Rank[MonthOf[v]]
KeyedOn(d)       == d >= KeyedFrom
Said(w, keyed)   == Records(w, keyed) \cup Aggregates(w, keyed)
FigureOf(r)      == [entity |-> r.entity, value |-> r.value]

-----------------------------------------------------------------------------
(* What a workbook says of the well                                        *)

(* One of a set of workbooks comes first in the order of the source keys. *)
LEMMA FirstIsMember ==
    ASSUME NEW S \in SUBSET Workbook, S # {}
    PROVE  First(S) \in S
<1> DEFINE T == {Rank[MonthOf[w]] : w \in S}
<1>1. T \in SUBSET Nat /\ T # {}
  BY PromotionAssumption
<1>2. PICK n \in T : \A k \in T : n <= k
  <2> HIDE DEF T
  <2> QED BY <1>1, LeastNatural
<1> QED BY <1>2 DEF First

(* The filings of a workbook are finitely many, and there is one. *)
LEMMA FilingsTyped ==
    ASSUME NEW w \in Workbook
    PROVE  /\ Filings[w] \in Seq(Filing) /\ 1 \in Filed(w) /\ IsFiniteSet(Filed(w))
           /\ Filed(w) \subseteq Nat \ {0}
           /\ \A i \in Filed(w) : Filings[w][i] \in Filing
<1>1. Filings[w] \in Seq(Filing) /\ Filings[w] # <<>>
  BY PromotionAssumption DEF Filing
<1>2. Filed(w) = 1..Len(Filings[w]) /\ Len(Filings[w]) \in Nat \ {0}
  BY <1>1 DEF Filed
<1>3. IsFiniteSet(Filed(w))
  BY <1>2, FS_Interval
<1>4. \A i \in Filed(w) : Filings[w][i] \in Filing
  BY <1>1, <1>2, ElementOfSeq
<1> QED BY <1>1, <1>2, <1>3, <1>4

LEMMA TotalTyped ==
    ASSUME NEW w \in Workbook
    PROVE  Total(w) \in Nat
<1> DEFINE f == [i \in Filed(w) |-> Filings[w][i].volume]
<1>1. DOMAIN f = Filed(w) /\ \A i \in DOMAIN f : f[i] \in Nat
  BY FilingsTyped DEF Filing
<1>2. IsFiniteSet(DOMAIN f)
  BY <1>1, FilingsTyped
<1> HIDE DEF f
<1>3. FoldFunction(+, 0, f) \in Nat
  BY <1>1, <1>2, SumIsNatural
<1> QED BY <1>3 DEF Total, f

(* A workbook says one thing of each entity; the sum of its pools is the    *)
(* well's and only a decomposed workbook has one, and only one that is not *)
(* decomposed has collisions.                                              *)
LEMMA SaidOnce ==
    ASSUME NEW w \in Workbook, NEW k \in BOOLEAN
    PROVE  /\ Said(w, k) \subseteq Figure /\ IsFiniteSet(Said(w, k))
           /\ \A f, g \in Said(w, k) : f.entity = g.entity => f = g
           /\ \A f \in Aggregates(w, k) : f.entity = Well /\ f.value.summed
           /\ Aggregates(w, k) # {} => Collided(w, k) = {}
           /\ Aggregates(w, k) = {} => \E f \in Records(w, k) : f.entity = Well
           /\ \A f \in Records(w, k) : ~f.value.summed
<1>1. CASE Decomposable(w, k)
  <2> DEFINE fig(i) == [entity |-> Filings[w][i].pool,
                        value |-> [volume |-> Filings[w][i].volume, level |-> "pool", summed |-> FALSE]]
             sum == [entity |-> Well, value |-> [volume |-> Total(w), level |-> "pool", summed |-> TRUE]]
  <2>1. Records(w, k) = {fig(i) : i \in Filed(w)} /\ Aggregates(w, k) = {sum} /\ Collided(w, k) = {}
    BY <1>1 DEF Records, Aggregates, Collided, Figures
  <2>2. \A i \in Filed(w) : /\ Filings[w][i].pool \in Pool /\ Filings[w][i].volume \in Nat
                            /\ Filings[w][i].pool # Well
    BY <1>1, FilingsTyped, PromotionAssumption DEF Decomposable, Filing
  <2>3. \A i, j \in Filed(w) : Filings[w][i].pool = Filings[w][j].pool => fig(i) = fig(j)
    BY <1>1 DEF Decomposable
  <2>4. IsFiniteSet(Records(w, k))
    <3> DEFINE g == [i \in Filed(w) |-> fig(i)]
    <3>1. g \in Surjection(Filed(w), Records(w, k))
      <4> HIDE DEF fig
      <4> QED BY <2>1 DEF Surjection
    <3> HIDE DEF g
    <3> QED BY <3>1, FilingsTyped, FS_Surjection
  <2>5. IsFiniteSet(Said(w, k))
    BY <2>4, <2>1, FS_AddElement DEF Said
  <2>6. sum \in Figure /\ \A i \in Filed(w) : fig(i) \in Figure
    BY <2>2, TotalTyped DEF Figure, Value, Entity
  <2>7. \A f, g \in Said(w, k) : f.entity = g.entity => f = g
    <3> SUFFICES ASSUME NEW f \in Records(w, k) \cup {sum}, NEW g \in Records(w, k) \cup {sum},
                        f.entity = g.entity
                 PROVE  f = g
      BY <2>1 DEF Said
    <3>1. \A h \in Records(w, k) : h.entity # Well
      BY <2>1, <2>2
    <3>2. CASE f \in Records(w, k) /\ g \in Records(w, k)
      <4>1. PICK i \in Filed(w), j \in Filed(w) : f = fig(i) /\ g = fig(j)
        BY <2>1, <3>2
      <4>2. Filings[w][i].pool = Filings[w][j].pool
        BY <4>1
      <4> HIDE DEF fig
      <4> QED BY <2>3, <4>1, <4>2
    <3>3. sum.entity = Well
      OBVIOUS
    <3> HIDE DEF sum
    <3> QED BY <3>1, <3>2, <3>3
  <2>8. Said(w, k) \subseteq Figure
    BY <2>1, <2>6 DEF Said
  <2>9. /\ \A f \in Aggregates(w, k) : f.entity = Well /\ f.value.summed
        /\ \A f \in Records(w, k) : ~f.value.summed
        /\ Aggregates(w, k) # {} /\ Collided(w, k) = {}
    BY <2>1
  <2> HIDE DEF fig, sum
  <2> QED BY <2>5, <2>7, <2>8, <2>9
<1>2. CASE ~Decomposable(w, k)
  <2> DEFINE one == [entity |-> Well, value |-> [volume |-> Filings[w][1].volume, level |-> "well", summed |-> FALSE]]
  <2>1. Records(w, k) = {one} /\ Aggregates(w, k) = {}
    BY <1>2 DEF Records, Aggregates, Figures
  <2>2. one \in Figure
    BY FilingsTyped DEF Figure, Value, Entity, Filing
  <2>3. Said(w, k) = {one} /\ one.entity = Well /\ ~one.value.summed
    BY <2>1 DEF Said
  <2> HIDE DEF one
  <2> QED BY <2>1, <2>2, <2>3, FS_Singleton
<1> QED BY <1>1, <1>2

LEMMA SetAsideTyped ==
    ASSUME NEW w \in Workbook, NEW k \in BOOLEAN
    PROVE  /\ Collided(w, k) \subseteq Collision /\ Completed(w, k) \subseteq Pool
           /\ \A c \in Collided(w, k) : c.month = MonthOf[w]
<1>1. Collided(w, k) \subseteq Collision
  BY FilingsTyped, PromotionAssumption DEF Collided, Collision, Filing
<1>2. Completed(w, k) \subseteq Pool
  BY FilingsTyped DEF Completed, Filing
<1> QED BY <1>1, <1>2 DEF Collided

-----------------------------------------------------------------------------
(* What holds of any interleaving                                          *)

Promoting == {"stage", "check", "append"}

(* The workbooks a transaction has staged *)
Subjects(s) == s.promoted \cup (IF s.pc \in {"check", "append"} THEN {First(s.todo)} ELSE {})

(* A transaction was opened on a day that has come; while it promotes, a    *)
(* workbook is left, and no two of its workbooks report one month          *)
Running(s) ==
    /\ s.pc = "idle" => s = Idle
    /\ s.pc # "idle" => s.day \in 1..today
    /\ s.pc = "fetch" => s.promoted = {} /\ s.rows = {} /\ s.seen = {}
    /\ s.pc \in Promoting => s.todo # {}
    /\ s.todo \cap s.promoted = {}
    /\ \A v, w \in s.todo \cup s.promoted : MonthOf[v] = MonthOf[w] => v = w

(* A derivation holds the hash of all its workbook says *)
Hashed(d) ==
    d.hash = IF d.part = "records" THEN Records(d.of, d.keyed) ELSE Aggregates(d.of, d.keyed)

(* What a transaction wrote is what its workbooks say, at its own day *)
Wrote(s) ==
    /\ \A d \in s.derived : Hashed(d)
    /\ s.pc = "append" => s.land \subseteq Said(First(s.todo), KeyedOn(s.day)) \ s.heads
    /\ \A r \in s.rows :
          /\ r.vintage = s.day /\ r.workbook \in s.promoted /\ r.month = MonthOf[r.workbook]
          /\ FigureOf(r) \in Said(r.workbook, KeyedOn(s.day))
    /\ \A c \in s.seen : \E w \in Subjects(s) : c \in Collided(w, KeyedOn(s.day))

Base ==
    /\ TypeOK
    /\ \A p \in Run : Running(proc[p]) /\ Wrote(proc[p])
    /\ \A d \in derivations : Hashed(d)
    /\ \A r \in canonical : r.vintage <= today

Store == <<today, canonical, completions, held, staged, derivations, vintages>>

LEMMA IdleTyped == Idle \in Process /\ Running(Idle) /\ Wrote(Idle)
BY DEF Idle, Process, Unopened, Vintage, Running, Wrote, Promoting

LEMMA InitBase == Init => Base
<1> SUFFICES ASSUME Init PROVE Base
  OBVIOUS
<1>1. TypeOK
  <2>1. today \in Day /\ Unopened \in Vintage
    BY PromotionAssumption DEF Init, Day, Unopened, Vintage
  <2>2. vintages \in [Day -> Vintage] /\ proc \in [Run -> Process]
    BY <2>1, IdleTyped DEF Init
  <2> QED BY <2>1, <2>2 DEF Init, TypeOK
<1> QED BY <1>1, IdleTyped DEF Base, Init

(* A step of one transaction that leaves the store alone *)
LEMMA ProcKeeps ==
    ASSUME Base, NEW p \in Run, NEW x \in Process, Running(x), Wrote(x),
           proc' = [proc EXCEPT ![p] = x], UNCHANGED Store, overlapped' \in BOOLEAN
    PROVE  Base'
<1>1. TypeOK'
  BY DEF Base, TypeOK, Store
<1>2. \A q \in Run : proc'[q] = IF q = p THEN x ELSE proc[q]
  BY DEF Base, TypeOK
<1>3. \A q \in Run : Running(proc[q])' /\ Wrote(proc[q])'
  BY <1>2 DEF Base, Running, Wrote, Store
<1> QED BY <1>1, <1>3 DEF Base, Store

(* What a transaction in flight works on *)
LEMMA DoingTyped ==
    ASSUME Base, NEW p \in Run, proc[p].pc \in Promoting
    PROVE  /\ proc[p] \in Process /\ proc[p].todo \subseteq Workbook /\ proc[p].day \in Day
           /\ Doing(p) \in proc[p].todo /\ Doing(p) \in Workbook /\ Doing(p) = First(proc[p].todo)
           /\ Keyed(p) \in BOOLEAN /\ Keyed(p) = KeyedOn(proc[p].day)
           /\ Computed(p) = Said(Doing(p), Keyed(p))
           /\ MonthOf[Doing(p)] \in Month
<1>1. /\ proc[p] \in Process /\ proc[p].todo \subseteq Workbook /\ proc[p].todo # {}
      /\ proc[p].day \in 1..today /\ today \in Day /\ proc[p].day \in Day \cup {0}
  BY DEF Base, TypeOK, Process, Running, Promoting
<1>2. proc[p].day \in Day
  BY <1>1, PromotionAssumption DEF Day
<1>3. Doing(p) = First(proc[p].todo) /\ Doing(p) \in proc[p].todo
  BY <1>1, FirstIsMember DEF Doing, First
<1>4. Keyed(p) \in BOOLEAN /\ Keyed(p) = KeyedOn(proc[p].day) /\ Computed(p) = Said(Doing(p), Keyed(p))
  BY DEF Keyed, KeyedOn, Computed, Said
<1> QED BY <1>1, <1>2, <1>3, <1>4, PromotionAssumption

LEMMA OpenedBase ==
    ASSUME Base, NEW p \in Run, NEW step \in {"fetch", "stage"}, NEW again \in BOOLEAN,
           NEW todo \in SUBSET Workbook, step = "stage" => todo # {},
           \A v, w \in todo : MonthOf[v] = MonthOf[w] => v = w, Opened(p, step, again, todo)
    PROVE  Base'
<1> DEFINE x == [Idle EXCEPT !.pc = step, !.day = today, !.again = again, !.todo = todo]
<1>1. today \in Day /\ overlapped \in BOOLEAN
  BY DEF Base, TypeOK
<1>2. /\ x.pc = step /\ x.day = today /\ x.todo = todo /\ x.promoted = {} /\ x.rows = {} /\ x.seen = {}
      /\ x.derived = {} /\ x \in Process
  BY <1>1 DEF Idle, Process, Unopened, Vintage
<1>3. proc' = [proc EXCEPT ![p] = x] /\ UNCHANGED Store /\ overlapped' \in BOOLEAN
  BY <1>1 DEF Opened, Store
<1> HIDE DEF x
<1>4. Running(x) /\ Wrote(x)
  BY <1>1, <1>2, PromotionAssumption DEF Running, Wrote, Promoting, Day, Subjects
<1> QED BY <1>2, <1>3, <1>4, ProcKeeps

LEMMA FetchBase ==
    ASSUME Base, NEW p \in Run, Fetch(p)
    PROVE  Base'
<1>1. /\ proc[p] \in Process /\ proc[p].pc = "fetch" /\ UNCHANGED Store /\ overlapped' \in BOOLEAN
      /\ Running(proc[p]) /\ Wrote(proc[p])
  BY DEF Fetch, Base, TypeOK, Store
<1>2. PICK w \in Workbook :
         proc' = [proc EXCEPT ![p] = IF w \in staged THEN Idle
                                     ELSE [@ EXCEPT !.pc = "stage", !.todo = {w}, !.loaded = {w}]]
  BY DEF Fetch
<1>3. CASE w \in staged
  <2>1. proc' = [proc EXCEPT ![p] = Idle]
    BY <1>2, <1>3
  <2> QED BY <2>1, <1>1, IdleTyped, ProcKeeps
<1>4. CASE w \notin staged
  <2> DEFINE x == [proc[p] EXCEPT !.pc = "stage", !.todo = {w}, !.loaded = {w}]
  <2>1. proc' = [proc EXCEPT ![p] = x]
    BY <1>2, <1>4
  <2>2. /\ x.pc = "stage" /\ x.day = proc[p].day /\ x.todo = {w} /\ x.promoted = proc[p].promoted
        /\ x.rows = proc[p].rows /\ x.seen = proc[p].seen /\ x.derived = proc[p].derived /\ x \in Process
    BY <1>1 DEF Process
  <2> HIDE DEF x
  <2>3. Running(x) /\ Wrote(x)
    BY <1>1, <2>2 DEF Running, Wrote, Promoting, Subjects
  <2> QED BY <2>1, <2>2, <2>3, <1>1, ProcKeeps
<1> QED BY <1>3, <1>4

LEMMA StageBase ==
    ASSUME Base, NEW p \in Run, Stage(p)
    PROVE  Base'
<1> DEFINE w == Doing(p)
           heads == Heads(p, MonthOf[w])
           x == [proc[p] EXCEPT !.pc = "check", !.seen = @ \cup Collided(w, Keyed(p)), !.heads = heads]
<1>1. /\ proc[p].pc = "stage" /\ UNCHANGED Store /\ overlapped' \in BOOLEAN
      /\ Running(proc[p]) /\ Wrote(proc[p]) /\ canonical \subseteq Row
  BY DEF Stage, Base, TypeOK, Store
<1>2. /\ proc[p] \in Process /\ w \in Workbook /\ w = First(proc[p].todo) /\ Keyed(p) \in BOOLEAN
      /\ Keyed(p) = KeyedOn(proc[p].day)
  BY <1>1, DoingTyped DEF Promoting
<1>3. proc' = [proc EXCEPT ![p] = x]
  BY <1>2 DEF Stage, Process
<1>4. heads \subseteq Figure
  <2>1. proc[p].rows \subseteq Row
    BY <1>2 DEF Process
  <2> QED BY <1>1, <2>1 DEF Heads, FiguresOf, Latest, Visible, Row, Figure
<1>5. Collided(w, Keyed(p)) \subseteq Collision
  BY <1>2, SetAsideTyped
<1> HIDE DEF heads, w
<1>6. /\ x.pc = "check" /\ x.day = proc[p].day /\ x.todo = proc[p].todo /\ x.promoted = proc[p].promoted
      /\ x.rows = proc[p].rows /\ x.seen = proc[p].seen \cup Collided(w, Keyed(p))
      /\ x.derived = proc[p].derived /\ x \in Process
  BY <1>2, <1>4, <1>5 DEF Process
<1> HIDE DEF x
<1>7. Running(x)
  BY <1>1, <1>6 DEF Running, Promoting
<1>8. Wrote(x)
  <2>1. proc[p].promoted \subseteq Subjects(x) /\ w \in Subjects(x) /\ Subjects(proc[p]) = proc[p].promoted
    BY <1>6, <1>1, <1>2 DEF Subjects
  <2> QED BY <1>1, <1>2, <1>6, <2>1 DEF Wrote
<1> QED BY <1>1, <1>3, <1>6, <1>7, <1>8, ProcKeeps

(* What a transaction may land is finite, and none of it is in the heads *)
LEMMA LandableTyped ==
    ASSUME Base, NEW p \in Run, proc[p].pc \in Promoting
    PROVE  /\ Landable(p) \subseteq Said(Doing(p), Keyed(p)) \ proc[p].heads
           /\ Landable(p) \subseteq Figure /\ IsFiniteSet(Landable(p))
<1>1. Landable(p) \subseteq Said(Doing(p), Keyed(p)) \ proc[p].heads
  BY DoingTyped DEF Landable, Changed
<1> QED BY <1>1, DoingTyped, SaidOnce, FS_Subset

LEMMA CheckBase ==
    ASSUME Base, NEW p \in Run, Check(p)
    PROVE  Base'
<1> DEFINE land == Landable(p)
           more == Cardinality({f \in land : Holds(proc[p].heads, f.entity)})
           restated == proc[p].restated + more
           x == [proc[p] EXCEPT !.pc = "append", !.land = land, !.restated = restated]
<1>1. /\ proc[p].pc = "check" /\ UNCHANGED Store /\ overlapped' \in BOOLEAN
      /\ Running(proc[p]) /\ Wrote(proc[p])
  BY DEF Check, Base, TypeOK, Store
<1>2. /\ proc[p] \in Process /\ Doing(p) = First(proc[p].todo) /\ Keyed(p) = KeyedOn(proc[p].day)
      /\ land \subseteq Said(Doing(p), Keyed(p)) \ proc[p].heads /\ land \subseteq Figure /\ IsFiniteSet(land)
  BY <1>1, DoingTyped, LandableTyped DEF Promoting
<1>3. proc' = [proc EXCEPT ![p] = x]
  BY <1>2 DEF Check, Process
<1> HIDE DEF land
<1>4. restated \in Nat
  <2>1. more \in Nat
    BY <1>2, FS_Subset, FS_CardinalityType
  <2> HIDE DEF more
  <2> QED BY <1>2, <2>1 DEF Process
<1> HIDE DEF restated
<1>5. /\ x.pc = "append" /\ x.day = proc[p].day /\ x.todo = proc[p].todo /\ x.promoted = proc[p].promoted
      /\ x.rows = proc[p].rows /\ x.seen = proc[p].seen /\ x.heads = proc[p].heads /\ x.land = land
      /\ x.derived = proc[p].derived /\ x \in Process
  BY <1>2, <1>4 DEF Process
<1> HIDE DEF x
<1>6. Running(x)
  BY <1>1, <1>5 DEF Running, Promoting
<1>7. Wrote(x)
  <2>1. Subjects(proc[p]) = Subjects(x)
    BY <1>5, <1>1 DEF Subjects
  <2>2. x.land \subseteq Said(First(x.todo), KeyedOn(x.day)) \ x.heads
    BY <1>2, <1>5
  <2> QED BY <1>1, <1>5, <2>1, <2>2 DEF Wrote
<1> QED BY <1>1, <1>3, <1>5, <1>6, <1>7, ProcKeeps

(* What an append records of the workbook it promotes *)
LEMMA AppendedTyped ==
    ASSUME Base, NEW p \in Run, proc[p].pc = "append"
    PROVE  /\ DerivationsOf(p) \subseteq Derivation /\ \A d \in DerivationsOf(p) : Hashed(d)
           /\ RowsOf(p) \subseteq Row
           /\ \A r \in RowsOf(p) : /\ r.vintage = proc[p].day /\ r.workbook = Doing(p)
                                   /\ r.month = MonthOf[Doing(p)] /\ FigureOf(r) \in proc[p].land
           /\ proc[p].land \subseteq Said(Doing(p), Keyed(p)) \ proc[p].heads
           /\ IsFiniteSet(proc[p].land)
           /\ Superseded(p) \subseteq Collision /\ New(p) \subseteq Collision
           /\ \A x \in Completed(Doing(p), Keyed(p)) :
                 [pool |-> x, month |-> MonthOf[Doing(p)], vintage |-> proc[p].day] \in Completion
<1> DEFINE w == Doing(p)
<1>1. /\ proc[p] \in Process /\ w \in Workbook /\ w = First(proc[p].todo) /\ proc[p].day \in Day
      /\ Keyed(p) \in BOOLEAN /\ Keyed(p) = KeyedOn(proc[p].day) /\ MonthOf[w] \in Month
  BY DoingTyped DEF Promoting
<1>2. /\ Said(w, Keyed(p)) \subseteq Figure /\ IsFiniteSet(Said(w, Keyed(p)))
      /\ Collided(w, Keyed(p)) \subseteq Collision /\ Completed(w, Keyed(p)) \subseteq Pool
  BY <1>1, SaidOnce, SetAsideTyped
<1>3. proc[p].land \subseteq Said(w, Keyed(p)) \ proc[p].heads
  BY <1>1 DEF Base, Wrote
<1>4. IsFiniteSet(proc[p].land) /\ proc[p].land \subseteq Figure
  BY <1>2, <1>3, FS_Subset
<1> HIDE DEF w
<1>5. DerivationsOf(p) \subseteq Derivation /\ \A d \in DerivationsOf(p) : Hashed(d)
  <2> DEFINE d1 == [of |-> w, again |-> proc[p].again, keyed |-> Keyed(p), part |-> "records",
                    hash |-> Records(w, Keyed(p))]
             d2 == [of |-> w, again |-> proc[p].again, keyed |-> Keyed(p), part |-> "aggregate",
                    hash |-> Aggregates(w, Keyed(p))]
  <2>1. DerivationsOf(p) \subseteq {d1, d2}
    BY DEF DerivationsOf, w
  <2>2. Records(w, Keyed(p)) \subseteq Figure /\ Aggregates(w, Keyed(p)) \subseteq Figure
    BY <1>2 DEF Said
  <2>3. d1 \in Derivation /\ d2 \in Derivation
    BY <1>1, <2>2 DEF Derivation, Process
  <2>4. Hashed(d1) /\ Hashed(d2)
    BY DEF Hashed
  <2> HIDE DEF d1, d2
  <2> QED BY <2>1, <2>3, <2>4
<1>6. /\ RowsOf(p) \subseteq Row
      /\ \A r \in RowsOf(p) : /\ r.vintage = proc[p].day /\ r.workbook = w
                              /\ r.month = MonthOf[w] /\ FigureOf(r) \in proc[p].land
  <2> SUFFICES ASSUME NEW r \in RowsOf(p)
               PROVE  /\ r \in Row /\ r.vintage = proc[p].day /\ r.workbook = w
                      /\ r.month = MonthOf[w] /\ FigureOf(r) \in proc[p].land
    OBVIOUS
  <2>1. PICK f \in proc[p].land : r = [entity |-> f.entity, month |-> MonthOf[w], vintage |-> proc[p].day,
                                       value |-> f.value, workbook |-> w]
    BY DEF RowsOf, w
  <2>2. f \in Figure
    BY <1>4
  <2>3. FigureOf(r) = f
    BY <2>1, <2>2 DEF FigureOf, Figure
  <2> QED BY <1>1, <2>1, <2>2, <2>3 DEF Row, Figure
<1>7. Superseded(p) \subseteq Collision /\ New(p) \subseteq Collision
  BY <1>1 DEF Superseded, Open, New, Base, TypeOK, Held, Process
<1>8. \A x \in Completed(w, Keyed(p)) :
         [pool |-> x, month |-> MonthOf[w], vintage |-> proc[p].day] \in Completion
  BY <1>1, <1>2 DEF Completion
<1> QED BY <1>3, <1>4, <1>5, <1>6, <1>7, <1>8 DEF w

LEMMA AppendBase ==
    ASSUME Base, NEW p \in Run, AppendCanonical(p)
    PROVE  Base'
<1> DEFINE s == proc[p]
           w == Doing(p)
           pc == IF proc[p].todo = {w} THEN "counters" ELSE "stage"
           appended == proc[p].appended + Cardinality(proc[p].land)
           completed == {[pool |-> x, month |-> MonthOf[w], vintage |-> proc[p].day] :
                           x \in Completed(w, Keyed(p))}
           x == [proc[p] EXCEPT !.pc = pc, !.todo = @ \ {w}, !.promoted = @ \cup {w},
                                !.derived = @ \cup DerivationsOf(p), !.rows = @ \cup RowsOf(p),
                                !.appended = appended, !.completed = @ \cup completed,
                                !.closed = @ \cup Superseded(p), !.heads = {}, !.land = {}]
<1>1. /\ s.pc = "append" /\ UNCHANGED Store /\ overlapped' \in BOOLEAN /\ Running(s) /\ Wrote(s)
  BY DEF AppendCanonical, Base, TypeOK, Store
<1>2. /\ s \in Process /\ w \in Workbook /\ w = First(s.todo) /\ w \in s.todo
      /\ Keyed(p) = KeyedOn(s.day) /\ s.todo \subseteq Workbook
  BY <1>1, DoingTyped DEF Promoting
<1>3. proc' = [proc EXCEPT ![p] = x]
  <2> DEFINE todo == s.todo \ {w}
             promoted == s.promoted \cup {w}
             derived == s.derived \cup DerivationsOf(p)
             rows == s.rows \cup RowsOf(p)
             done == s.completed \cup completed
             closed == s.closed \cup Superseded(p)
  <2>1. proc' = [proc EXCEPT ![p].pc = pc, ![p].todo = todo, ![p].promoted = promoted,
                             ![p].derived = derived, ![p].rows = rows, ![p].appended = appended,
                             ![p].completed = done, ![p].closed = closed,
                             ![p].heads = {}, ![p].land = {}]
    BY DEF AppendCanonical
  <2>2. x = [s EXCEPT !.pc = pc, !.todo = todo, !.promoted = promoted, !.derived = derived,
                      !.rows = rows, !.appended = appended, !.completed = done, !.closed = closed,
                      !.heads = {}, !.land = {}]
    OBVIOUS
  <2> HIDE DEF x, pc, todo, promoted, derived, rows, appended, done, closed
  <2> QED BY <2>1, <2>2
<1>4. appended \in Nat
  <2>1. Cardinality(s.land) \in Nat /\ s.appended \in Nat
    BY <1>1, <1>2, AppendedTyped, FS_CardinalityType DEF Process
  <2> QED BY <2>1
<1>5. completed \subseteq Completion
  BY <1>1, AppendedTyped
<1> HIDE DEF appended, completed, w
<1>6. /\ x.pc = pc /\ x.day = s.day /\ x.todo = s.todo \ {w} /\ x.promoted = s.promoted \cup {w}
      /\ x.derived = s.derived \cup DerivationsOf(p) /\ x.rows = s.rows \cup RowsOf(p) /\ x.seen = s.seen
  <2> HIDE DEF pc
  <2>1. x.pc = pc /\ x.day = s.day /\ x.todo = s.todo \ {w} /\ x.promoted = s.promoted \cup {w}
    BY <1>2 DEF Process
  <2>2. x.derived = s.derived \cup DerivationsOf(p) /\ x.rows = s.rows \cup RowsOf(p) /\ x.seen = s.seen
    BY <1>2 DEF Process
  <2> QED BY <2>1, <2>2
<1>7. x \in Process
  <2>1. /\ DerivationsOf(p) \subseteq Derivation /\ RowsOf(p) \subseteq Row /\ Superseded(p) \subseteq Collision
    BY <1>1, AppendedTyped
  <2>2. /\ s.todo \ {w} \in SUBSET Workbook /\ s.promoted \cup {w} \in SUBSET Workbook
        /\ s.derived \cup DerivationsOf(p) \in SUBSET Derivation /\ s.rows \cup RowsOf(p) \in SUBSET Row
        /\ s.completed \cup completed \in SUBSET Completion
        /\ s.closed \cup Superseded(p) \in SUBSET Collision
    BY <1>2, <1>5, <2>1 DEF Process
  <2>3. pc \in {"counters", "stage"}
    OBVIOUS
  <2> HIDE DEF pc
  <2> QED BY <1>2, <1>4, <2>2, <2>3 DEF Process
<1>8. pc = "stage" => x.todo # {}
  BY <1>2, <1>6
<1>9. pc \in {"counters", "stage"}
  OBVIOUS
<1> HIDE DEF x, pc
<1>10. Running(x)
  BY <1>1, <1>2, <1>6, <1>8, <1>9 DEF Running, Promoting
<1>11. Wrote(x)
  <2>1. Subjects(x) = s.promoted \cup {w} /\ Subjects(s) = s.promoted \cup {w}
    BY <1>1, <1>2, <1>6, <1>9 DEF Subjects
  <2>2. \A d \in x.derived : Hashed(d)
    BY <1>1, <1>6, AppendedTyped DEF Wrote
  <2>3. \A r \in x.rows :
           /\ r.vintage = x.day /\ r.workbook \in x.promoted /\ r.month = MonthOf[r.workbook]
           /\ FigureOf(r) \in Said(r.workbook, KeyedOn(x.day))
    <3>1. ASSUME NEW r \in RowsOf(p)
          PROVE  /\ r.vintage = x.day /\ r.workbook \in x.promoted /\ r.month = MonthOf[r.workbook]
                 /\ FigureOf(r) \in Said(r.workbook, KeyedOn(x.day))
      BY <1>1, <1>2, <1>6, AppendedTyped DEF w
    <3>2. \A r \in s.rows :
           /\ r.vintage = x.day /\ r.workbook \in x.promoted /\ r.month = MonthOf[r.workbook]
           /\ FigureOf(r) \in Said(r.workbook, KeyedOn(x.day))
      BY <1>1, <1>6 DEF Wrote
    <3> QED BY <3>1, <3>2, <1>6
  <2>4. \A c \in x.seen : \E v \in Subjects(x) : c \in Collided(v, KeyedOn(x.day))
    BY <1>1, <1>6, <2>1 DEF Wrote
  <2> QED BY <2>2, <2>3, <2>4, <1>6, <1>9 DEF Wrote
<1> QED BY <1>1, <1>3, <1>7, <1>10, <1>11, ProcKeeps

LEMMA ReadCountersBase ==
    ASSUME Base, NEW p \in Run, ReadCounters(p)
    PROVE  Base'
<1> DEFINE c == vintages[proc[p].day]
           x == [proc[p] EXCEPT !.pc = "vintage", !.counters = c]
<1>1. /\ proc[p] \in Process /\ proc[p].pc = "counters" /\ UNCHANGED Store /\ overlapped' \in BOOLEAN
      /\ Running(proc[p]) /\ Wrote(proc[p]) /\ today \in Day
  BY DEF ReadCounters, Base, TypeOK, Store
<1>2. proc[p].day \in Day
  BY <1>1, PromotionAssumption DEF Running, Day
<1>3. c \in Vintage
  BY <1>2 DEF Base, TypeOK
<1>4. proc' = [proc EXCEPT ![p] = x]
  BY <1>1 DEF ReadCounters, Process
<1> HIDE DEF c
<1>5. /\ x.pc = "vintage" /\ x.day = proc[p].day /\ x.todo = proc[p].todo /\ x.promoted = proc[p].promoted
      /\ x.rows = proc[p].rows /\ x.seen = proc[p].seen /\ x.derived = proc[p].derived /\ x \in Process
  BY <1>1, <1>3 DEF Process
<1> HIDE DEF x
<1>6. Running(x) /\ Wrote(x)
  BY <1>1, <1>5 DEF Running, Wrote, Promoting, Subjects
<1> QED BY <1>1, <1>4, <1>5, <1>6, ProcKeeps

(* What a commit makes of the store *)
LEMMA CommitTyped ==
    ASSUME Base, NEW p \in Run, Commit(p)
    PROVE  /\ proc[p] \in Process /\ proc[p].day \in 1..today /\ today \in Day /\ proc[p].day \in Day
           /\ proc[p].pc = "vintage" /\ proc[p].rows \subseteq Row
           /\ \A h \in held' : \/ \E g \in held : /\ h.row = g.row /\ h.first = g.first
                                                  /\ h.released = IF g.row \in proc[p].closed THEN proc[p].day ELSE g.released
                               \/ /\ h.row \in New(p) /\ h.first = proc[p].day
                                  /\ h.released = IF h.row \in proc[p].closed THEN proc[p].day ELSE 0
           /\ held' \subseteq Held
           /\ \A g \in held : \E h \in held' : /\ h.row = g.row /\ h.first = g.first
                                 /\ h.released = IF g.row \in proc[p].closed THEN proc[p].day ELSE g.released
           /\ New(p) \subseteq Collision
           /\ proc' \in [Run -> Process] /\ \A q \in Run : proc'[q] = IF q = p THEN Idle ELSE proc[q]
<1>1. /\ proc[p] \in Process /\ proc[p].pc = "vintage" /\ Running(proc[p]) /\ today \in Day /\ held \subseteq Held
      /\ held' = Settled(p)
  BY DEF Commit, Base, TypeOK
<1>2. proc[p].day \in 1..today /\ proc[p].day \in Day
  BY <1>1, PromotionAssumption DEF Running, Day
<1>3. New(p) \subseteq Collision /\ proc[p].rows \subseteq Row
  BY <1>1 DEF New, Process
<1> DEFINE New0 == {[row |-> c, first |-> proc[p].day, released |-> 0] : c \in New(p)}
           settled(h) == [h EXCEPT !.released = IF h.row \in proc[p].closed THEN proc[p].day ELSE @]
<1>4. held' = {settled(h) : h \in held \cup New0}
  BY <1>1 DEF Settled
<1>5. New0 \subseteq Held
  BY <1>2, <1>3 DEF Held
<1>6. ASSUME NEW h \in Held
      PROVE  /\ settled(h) \in Held /\ settled(h).row = h.row /\ settled(h).first = h.first
             /\ settled(h).released = IF h.row \in proc[p].closed THEN proc[p].day ELSE h.released
  BY <1>2 DEF Held
<1>7. \A h \in New0 : h.row \in New(p) /\ h.first = proc[p].day /\ h.released = 0
  OBVIOUS
<1> HIDE DEF New0, settled
<1>8. held' \subseteq Held
  BY <1>1, <1>4, <1>5, <1>6
<1>9. ASSUME NEW h \in held'
      PROVE  \/ \E g \in held : /\ h.row = g.row /\ h.first = g.first
                                /\ h.released = IF g.row \in proc[p].closed THEN proc[p].day ELSE g.released
             \/ /\ h.row \in New(p) /\ h.first = proc[p].day
                /\ h.released = IF h.row \in proc[p].closed THEN proc[p].day ELSE 0
  <2>1. PICK g \in held \cup New0 : h = settled(g)
    BY <1>4
  <2>2. g \in Held
    BY <1>1, <1>5
  <2> QED BY <2>1, <2>2, <1>6, <1>7
<1>10. \A g \in held : \E h \in held' : /\ h.row = g.row /\ h.first = g.first
           /\ h.released = IF g.row \in proc[p].closed THEN proc[p].day ELSE g.released
  BY <1>1, <1>4, <1>6
<1>11. proc' \in [Run -> Process] /\ \A q \in Run : proc'[q] = IF q = p THEN Idle ELSE proc[q]
  BY IdleTyped DEF Commit, Base, TypeOK
<1> QED BY <1>1, <1>2, <1>3, <1>8, <1>9, <1>10, <1>11

LEMMA CommitBase ==
    ASSUME Base, NEW p \in Run, Commit(p)
    PROVE  Base'
<1>1. /\ proc[p] \in Process /\ proc[p].day \in 1..today /\ proc[p].day \in Day /\ today \in Day
      /\ held' \subseteq Held /\ proc[p].rows \subseteq Row
      /\ proc' \in [Run -> Process] /\ \A q \in Run : proc'[q] = IF q = p THEN Idle ELSE proc[q]
  BY CommitTyped
<1>2. /\ canonical' = canonical \cup proc[p].rows /\ completions' = completions \cup proc[p].completed
      /\ staged' = staged \cup proc[p].loaded /\ derivations' = derivations \cup proc[p].derived
      /\ vintages' = Counted(p) /\ UNCHANGED <<today, overlapped>>
  BY DEF Commit
<1>3. vintages' \in [Day -> Vintage]
  <2> DEFINE v == [opened |-> TRUE, appended |-> proc[p].counters.appended + proc[p].appended,
                   restated |-> proc[p].counters.restated + proc[p].restated,
                   manifests |-> proc[p].counters.manifests \cup proc[p].promoted]
  <2>1. v \in Vintage
    BY <1>1 DEF Process, Vintage
  <2>2. vintages' = vintages \/ vintages' = [vintages EXCEPT ![proc[p].day] = v]
    BY <1>2 DEF Counted
  <2> HIDE DEF v
  <2> QED BY <2>1, <2>2, <1>1 DEF Base, TypeOK
<1>4. TypeOK'
  <2>1. canonical' \subseteq Row /\ completions' \subseteq Completion /\ staged' \subseteq Workbook
    BY <1>1, <1>2 DEF Base, TypeOK, Process
  <2>2. derivations' \subseteq Derivation
    BY <1>1, <1>2 DEF Base, TypeOK, Process
  <2> QED BY <1>1, <1>2, <1>3, <2>1, <2>2 DEF Base, TypeOK
<1>5. \A q \in Run : Running(proc[q])' /\ Wrote(proc[q])'
  <2>1. \A q \in Run : Running(proc[q]) /\ Wrote(proc[q])
    BY DEF Base
  <2>2. Running(Idle)' /\ Wrote(Idle)'
    BY IdleTyped, <1>2 DEF Running, Wrote
  <2> QED BY <1>1, <1>2, <2>1, <2>2 DEF Running, Wrote
<1>6. \A d \in derivations' : Hashed(d)
  BY <1>2 DEF Base, Wrote
<1>7. \A r \in canonical' : r.vintage <= today'
  BY <1>1, <1>2 DEF Base, Wrote
<1> QED BY <1>4, <1>5, <1>6, <1>7 DEF Base

LEMMA MidnightBase ==
    ASSUME Base, Midnight
    PROVE  Base'
<1>1. today' = today + 1 /\ today' \in Day /\ today \in Day
  BY PromotionAssumption DEF Midnight, Base, TypeOK, Day
<1>2. TypeOK'
  BY <1>1 DEF Midnight, Base, TypeOK
<1>3. \A q \in Run : Running(proc[q])' /\ Wrote(proc[q])'
  <2> SUFFICES ASSUME NEW q \in Run PROVE Running(proc[q])' /\ Wrote(proc[q])'
    OBVIOUS
  <2>1. proc'[q] = proc[q] /\ Running(proc[q]) /\ Wrote(proc[q])
    BY DEF Midnight, Base
  <2>2. 1..today \subseteq 1..today'
    BY <1>1 DEF Day
  <2> QED BY <2>1, <2>2 DEF Running, Wrote
<1>4. \A r \in canonical' : r.vintage <= today'
  BY <1>1 DEF Midnight, Base, TypeOK, Row, Day
<1> QED BY <1>2, <1>3, <1>4 DEF Base, Midnight

LEMMA IdleBase ==
    ASSUME Base, NEW p \in Run, Refuse(p) \/ Fail(p)
    PROVE  Base'
<1>1. proc' = [proc EXCEPT ![p] = Idle] /\ UNCHANGED Store /\ overlapped' \in BOOLEAN
  BY DEF Refuse, Fail, Store, Base, TypeOK
<1> QED BY <1>1, IdleTyped, ProcKeeps

(* The workbooks of a re-promotion report a month each *)
LEMMA Reopened ==
    ASSUME Base, NEW p \in Run, OpenRepromote(p)
    PROVE  \E chosen \in SUBSET staged :
              /\ chosen # {} /\ Opened(p, "stage", TRUE, chosen) /\ chosen \subseteq Workbook
              /\ \A v, w \in chosen : MonthOf[v] = MonthOf[w] => v = w
BY DEF OpenRepromote, Base, TypeOK

LEMMA NextBase == Base /\ [Next]_vars => Base'
<1> SUFFICES ASSUME Base, [Next]_vars PROVE Base'
  OBVIOUS
<1>1. CASE Midnight
  BY <1>1, MidnightBase
<1>2. CASE UNCHANGED vars
  BY <1>2 DEF vars, Base, TypeOK, Running, Wrote
<1>3. ASSUME NEW p \in Run,
             \/ OpenIngest(p) \/ OpenRepromote(p) \/ Fetch(p) \/ Stage(p) \/ Check(p) \/ Refuse(p)
             \/ AppendCanonical(p) \/ ReadCounters(p) \/ Commit(p) \/ Fail(p)
      PROVE  Base'
  <2>1. CASE OpenIngest(p)
    <3>1. Opened(p, "fetch", FALSE, {})
      BY <2>1 DEF OpenIngest
    <3>2. {} \in SUBSET Workbook /\ "fetch" \in {"fetch", "stage"} /\ "fetch" # "stage" /\ FALSE \in BOOLEAN
      OBVIOUS
    <3> QED BY <3>1, <3>2, OpenedBase
  <2>2. CASE OpenRepromote(p)
    BY <2>2, Reopened, OpenedBase
  <2> QED BY <1>3, <2>1, <2>2, FetchBase, StageBase, CheckBase, IdleBase, AppendBase,
            ReadCountersBase, CommitBase
<1> QED BY <1>1, <1>2, <1>3 DEF Next

(* Every transaction works on a day that has come, on workbooks that report *)
(* a month each, and writes what they say at its own day.                  *)
THEOREM Promotions == Spec => []Base
BY InitBase, NextBase, PTL DEF Spec

(* The state of canonical, of the quarantine and of the runs is typed. *)
THEOREM CanonicalTypes == Spec => []TypeOK
<1>1. Base => TypeOK
  BY DEF Base
<1> QED BY <1>1, Promotions, PTL

(* A repeated promotion computes what its derivation recorded, whatever     *)
(* canonical held in between (promote_manifest, reconcile).                *)
THEOREM ReplaysReconcile == Spec => []Deterministic
<1>1. Base => Deterministic
  <2> SUFFICES ASSUME Base, NEW p \in Run, proc[p].pc = "append",
                      NEW d \in DerivationsOf(p), NEW e \in derivations, SameSpec(d, e)
               PROVE  d.hash = e.hash
    BY DEF Deterministic
  <2>1. Hashed(d) /\ Hashed(e)
    BY AppendedTyped DEF Base
  <2> QED BY <2>1 DEF Hashed, SameSpec
<1> QED BY <1>1, Promotions, PTL

-----------------------------------------------------------------------------
(* The past                                                                *)

LEMMA OnlyCommitsStore ==
    ASSUME [Next]_vars, ~ \E p \in Run : Commit(p)
    PROVE  UNCHANGED <<canonical, completions, held, staged, derivations, vintages>>
<1> DEFINE Same == UNCHANGED <<canonical, completions, held, staged, derivations, vintages>>
<1>1. Midnight \/ UNCHANGED vars => Same
  BY DEF Midnight, vars
<1>2. \A p \in Run : OpenIngest(p) \/ OpenRepromote(p) => Same
  BY DEF OpenIngest, OpenRepromote, Opened
<1>3. \A p \in Run : Fetch(p) \/ Stage(p) \/ ReadCounters(p) => Same
  BY DEF Fetch, Stage, ReadCounters
<1>4. \A p \in Run : Check(p) \/ Refuse(p) \/ Fail(p) => Same
  BY DEF Check, Refuse, Fail
<1>5. ASSUME NEW p \in Run, AppendCanonical(p) PROVE Same
  BY <1>5, Zenon DEF AppendCanonical
<1> QED BY <1>1, <1>2, <1>3, <1>4, <1>5 DEF Next

(* An as-of read looks at no other row. *)
ReadAsOf(x, e, m) == {r \in canonical : r.entity = e /\ r.month = m /\ r.vintage <= x}
Answer(rows)      == IF rows = {} THEN NoReport ELSE (CHOOSE r \in Latest(rows) : TRUE).value

LEMMA AsOfReads ==
    ASSUME NEW x, NEW e, NEW m
    PROVE  /\ AsOf(x, e, m) = Answer(ReadAsOf(x, e, m))
           /\ AsOf(x, e, m)' = Answer(ReadAsOf(x, e, m)')
<1>1. AsOf(x, e, m) = Answer(ReadAsOf(x, e, m))
  BY Zenon DEF AsOf, Answer, ReadAsOf
<1>2. AsOf(x, e, m)' = Answer(ReadAsOf(x, e, m)')
  BY Zenon DEF AsOf, Answer, ReadAsOf
<1> QED BY <1>1, <1>2

(* A day that is past comes before the day of every running transaction, so *)
(* no row a commit adds is read as of it.                                  *)
THEOREM PastIsNeverRestated == Spec => PastNeverRestated
<1> DEFINE Kept == \A x \in Day : Past(x) =>
                      \A e \in Entity, m \in Month : AsOf(x, e, m)' = AsOf(x, e, m)
<1>1. ASSUME Base, [Next]_vars
      PROVE  Kept
  <2> SUFFICES ASSUME NEW x \in Day, Past(x), NEW e \in Entity, NEW m \in Month
               PROVE  AsOf(x, e, m)' = AsOf(x, e, m)
    OBVIOUS
  <2>1. ReadAsOf(x, e, m)' = ReadAsOf(x, e, m)
    <3>1. CASE \E p \in Run : Commit(p)
      <4>1. PICK p \in Run : Commit(p)
        BY <3>1
      <4>2. canonical' = canonical \cup proc[p].rows /\ proc[p].day \in Day /\ proc[p].pc = "vintage"
        BY <1>1, <4>1, CommitTyped DEF Commit
      <4>3. \A r \in proc[p].rows : r.vintage = proc[p].day
        BY <1>1 DEF Base, Wrote
      <4>4. x < proc[p].day
        BY <4>2 DEF Past
      <4>5. \A r \in proc[p].rows : ~(r.vintage <= x)
        BY <4>2, <4>3, <4>4 DEF Day
      <4> QED BY <4>2, <4>5 DEF ReadAsOf
    <3>2. CASE ~ \E p \in Run : Commit(p)
      BY <1>1, <3>2, OnlyCommitsStore DEF ReadAsOf
    <3> QED BY <3>1, <3>2
  <2> QED BY <2>1, AsOfReads
<1>2. Base /\ [Next]_vars => Kept
  BY <1>1
<1>3. [][Kept]_vars => PastNeverRestated
  BY DEF PastNeverRestated
<1> QED BY <1>2, <1>3, Promotions, PTL DEF Spec

(* A collision is released on the day of the run that closes it, which no   *)
(* past day reaches.                                                       *)
THEOREM WithholdingIsKept == Spec => WithholdingKept
<1> DEFINE Kept == \A x \in Day, m \in Month : Past(x) /\ Withheld(x, m) => Withheld(x, m)'
<1>1. ASSUME Base, [Next]_vars
      PROVE  Kept
  <2> SUFFICES ASSUME NEW x \in Day, NEW m \in Month, Past(x), Withheld(x, m)
               PROVE  Withheld(x, m)'
    OBVIOUS
  <2>1. PICK g \in held : g.row.month = m /\ (g.released = 0 \/ g.released > x)
    BY DEF Withheld
  <2>2. CASE \E p \in Run : Commit(p)
    <3>1. PICK p \in Run : Commit(p)
      BY <2>2
    <3>2. proc[p].pc = "vintage" /\ proc[p].day \in Day
      BY <3>1, <1>1, CommitTyped
    <3>3. PICK h \in held' : /\ h.row = g.row
                             /\ h.released = IF g.row \in proc[p].closed THEN proc[p].day ELSE g.released
      BY <3>1, <1>1, CommitTyped
    <3>4. proc[p].day > x
      BY <3>2 DEF Past, Day
    <3> QED BY <2>1, <3>3, <3>4 DEF Withheld
  <2>3. CASE ~ \E p \in Run : Commit(p)
    BY <2>1, <2>3, <1>1, OnlyCommitsStore DEF Withheld
  <2> QED BY <2>2, <2>3
<1>2. Base /\ [Next]_vars => Kept
  BY <1>1
<1>3. [][Kept]_vars => WithholdingKept
  BY DEF WithholdingKept
<1> QED BY <1>2, <1>3, Promotions, PTL DEF Spec

-----------------------------------------------------------------------------
(* The primary key, and the heads                                          *)

(* No two rows, committed or not, share an entity, a month and a vintage *)
Keys ==
    /\ \A r, s \in canonical : SameKey(r, s) => r = s
    /\ \A p \in Run : \A r \in proc[p].rows : \A s \in canonical : ~SameKey(r, s)
    /\ \A p, q \in Run : \A r \in proc[p].rows, s \in proc[q].rows : SameKey(r, s) => p = q /\ r = s

(* A step that appends no row and commits none *)
LEMMA KeysQuiet ==
    ASSUME Keys, canonical' = canonical, \A q \in Run : proc'[q].rows \subseteq proc[q].rows
    PROVE  Keys'
BY DEF Keys

LEMMA QuietRows ==
    ASSUME Base, NEW p \in Run,
           \/ OpenIngest(p) \/ OpenRepromote(p) \/ Fetch(p) \/ Stage(p) \/ Check(p) \/ Refuse(p)
           \/ ReadCounters(p) \/ Fail(p)
    PROVE  canonical' = canonical /\ \A q \in Run : proc'[q].rows \subseteq proc[q].rows
<1> DEFINE Quietly == canonical' = canonical /\ \A q \in Run : proc'[q].rows \subseteq proc[q].rows
<1>1. proc \in [Run -> Process] /\ Idle.rows = {}
  BY DEF Base, TypeOK, Idle
<1>2. OpenIngest(p) \/ OpenRepromote(p) => Quietly
  <2>1. ASSUME NEW step, NEW again, NEW todo, Opened(p, step, again, todo) PROVE Quietly
    <3> DEFINE x == [Idle EXCEPT !.pc = step, !.day = today, !.again = again, !.todo = todo]
    <3>1. x.rows = {}
      BY DEF Idle
    <3>2. proc' = [proc EXCEPT ![p] = x] /\ canonical' = canonical
      BY <2>1 DEF Opened
    <3> HIDE DEF x
    <3> QED BY <3>1, <3>2, <1>1
  <2>2. OpenIngest(p) => Quietly
    BY <2>1 DEF OpenIngest
  <2>3. OpenRepromote(p) => Quietly
    <3> HIDE DEF Quietly
    <3> QED BY <2>1 DEF OpenRepromote
  <2> QED BY <2>2, <2>3
<1>3. Refuse(p) \/ Fail(p) => Quietly
  BY <1>1 DEF Refuse, Fail
<1>4. Fetch(p) => Quietly
  <2> SUFFICES ASSUME Fetch(p) PROVE Quietly
    OBVIOUS
  <2>1. PICK w \in Workbook :
           proc' = [proc EXCEPT ![p] = IF w \in staged THEN Idle
                                       ELSE [@ EXCEPT !.pc = "stage", !.todo = {w}, !.loaded = {w}]]
    BY DEF Fetch
  <2>2. canonical' = canonical /\ proc[p] \in Process
    BY <1>1 DEF Fetch
  <2> QED BY <2>1, <2>2, <1>1 DEF Process
<1>5. Stage(p) \/ Check(p) \/ ReadCounters(p) => Quietly
  <2>1. Stage(p) => Quietly
    BY <1>1 DEF Stage, Process
  <2>2. Check(p) => Quietly
    BY <1>1 DEF Check, Process
  <2>3. ReadCounters(p) => Quietly
    BY <1>1 DEF ReadCounters, Process
  <2> QED BY <2>1, <2>2, <2>3
<1> QED BY <1>2, <1>3, <1>4, <1>5

(* What an append makes of the transaction, and what it waited for *)
LEMMA AppendShape ==
    ASSUME Base, NEW p \in Run, AppendCanonical(p)
    PROVE  /\ proc[p].pc = "append" /\ proc[p] \in Process
           /\ \A q \in Run : q # p => proc'[q] = proc[q]
           /\ proc'[p].pc \in {"counters", "stage"} /\ proc'[p].day = proc[p].day
           /\ proc'[p].todo = proc[p].todo \ {Doing(p)} /\ proc'[p].promoted = proc[p].promoted \cup {Doing(p)}
           /\ proc'[p].rows = proc[p].rows \cup RowsOf(p) /\ proc'[p].seen = proc[p].seen
           /\ proc'[p].closed = proc[p].closed \cup Superseded(p)
           /\ proc'[p].appended = proc[p].appended + Cardinality(proc[p].land)
           /\ proc'[p].restated = proc[p].restated
           /\ \A r \in RowsOf(p), s \in canonical : ~SameKey(r, s)
           /\ \A q \in Others(p) : \A r \in RowsOf(p), s \in proc[q].rows : ~SameKey(r, s)
           /\ UNCHANGED Store /\ overlapped' = overlapped
<1> DEFINE s == proc[p]
           w == Doing(p)
           pc == IF proc[p].todo = {w} THEN "counters" ELSE "stage"
           todo == s.todo \ {w}
           promoted == s.promoted \cup {w}
           derived == s.derived \cup DerivationsOf(p)
           rows == s.rows \cup RowsOf(p)
           appended == s.appended + Cardinality(s.land)
           done == s.completed \cup {[pool |-> x, month |-> MonthOf[w], vintage |-> s.day] :
                                       x \in Completed(w, Keyed(p))}
           closed == s.closed \cup Superseded(p)
<1>1. /\ proc \in [Run -> Process] /\ s \in Process /\ s.pc = "append"
      /\ UNCHANGED Store /\ overlapped' = overlapped
  BY DEF AppendCanonical, Base, TypeOK, Store
<1>2. proc' = [proc EXCEPT ![p].pc = pc, ![p].todo = todo, ![p].promoted = promoted,
                           ![p].derived = derived, ![p].rows = rows, ![p].appended = appended,
                           ![p].completed = done, ![p].closed = closed, ![p].heads = {}, ![p].land = {}]
  BY DEF AppendCanonical
<1>3. pc \in {"counters", "stage"}
  OBVIOUS
<1>4. /\ \A r \in RowsOf(p), t \in canonical : ~SameKey(r, t)
      /\ \A q \in Others(p) : \A r \in RowsOf(p), t \in proc[q].rows : ~SameKey(r, t)
  BY Zenon DEF AppendCanonical
<1>5. /\ proc'[p].pc = pc /\ proc'[p].day = s.day /\ proc'[p].todo = todo
      /\ proc'[p].promoted = promoted /\ proc'[p].rows = rows /\ proc'[p].seen = s.seen
      /\ proc'[p].closed = closed /\ proc'[p].appended = appended /\ proc'[p].restated = s.restated
      /\ \A q \in Run : q # p => proc'[q] = proc[q]
  <2> HIDE DEF pc, todo, promoted, derived, rows, appended, done, closed
  <2>1. proc'[p] = [s EXCEPT !.pc = pc, !.todo = todo, !.promoted = promoted, !.derived = derived,
                             !.rows = rows, !.appended = appended, !.completed = done,
                             !.closed = closed, !.heads = {}, !.land = {}]
    BY <1>1, <1>2
  <2>2. \A q \in Run : q # p => proc'[q] = proc[q]
    BY <1>1, <1>2
  <2>3. proc'[p].pc = pc /\ proc'[p].day = s.day /\ proc'[p].todo = todo /\ proc'[p].promoted = promoted
    BY <1>1, <2>1 DEF Process
  <2>4. proc'[p].rows = rows /\ proc'[p].seen = s.seen /\ proc'[p].closed = closed
    BY <1>1, <2>1 DEF Process
  <2>5. proc'[p].appended = appended /\ proc'[p].restated = s.restated
    BY <1>1, <2>1 DEF Process
  <2> QED BY <2>2, <2>3, <2>4, <2>5
<1> HIDE DEF pc
<1> QED BY <1>1, <1>3, <1>4, <1>5

(* The months a transaction still has to promote are not those of its rows *)
LEMMA MonthsApart ==
    ASSUME Base, NEW p \in Run, proc[p].pc \in Promoting
    PROVE  /\ \A v \in proc[p].promoted : MonthOf[v] # MonthOf[Doing(p)]
           /\ \A r \in proc[p].rows : r.month # MonthOf[Doing(p)]
<1>1. Running(proc[p]) /\ Wrote(proc[p]) /\ Doing(p) \in proc[p].todo
  BY DoingTyped DEF Base
<1>2. \A v \in proc[p].promoted : MonthOf[v] # MonthOf[Doing(p)]
  BY <1>1 DEF Running
<1> QED BY <1>1, <1>2 DEF Wrote

LEMMA KeysAppended ==
    ASSUME Base, Keys, NEW p \in Run, AppendCanonical(p)
    PROVE  Keys'
<1>1. /\ \A r \in RowsOf(p), s \in canonical : ~SameKey(r, s)
      /\ \A q \in Run : q # p => proc'[q] = proc[q]
      /\ proc'[p].rows = proc[p].rows \cup RowsOf(p) /\ canonical' = canonical
      /\ \A q \in Others(p) : \A r \in RowsOf(p), s \in proc[q].rows : ~SameKey(r, s)
      /\ proc[p].pc = "append"
  BY AppendShape DEF Store
<1>2. \A q \in Run : q # p => \A r \in RowsOf(p), s \in proc[q].rows : ~SameKey(r, s)
  <2> SUFFICES ASSUME NEW q \in Run, q # p, q \notin Others(p) PROVE proc[q].rows = {}
    BY <1>1
  <2>1. proc[q].pc = "idle" /\ Running(proc[q])
    BY DEF Others, Base
  <2> QED BY <2>1 DEF Running, Idle
<1>3. \A r \in RowsOf(p), s \in proc[p].rows : ~SameKey(r, s)
  <2>1. \A r \in RowsOf(p) : r.month = MonthOf[Doing(p)]
    BY <1>1, AppendedTyped
  <2>2. \A s \in proc[p].rows : s.month # MonthOf[Doing(p)]
    BY <1>1, MonthsApart DEF Promoting
  <2> QED BY <2>1, <2>2 DEF SameKey
<1>4. \A r, s \in RowsOf(p) : SameKey(r, s) => r = s
  <2> SUFFICES ASSUME NEW r \in RowsOf(p), NEW s \in RowsOf(p), SameKey(r, s) PROVE r = s
    OBVIOUS
  <2>1. PICK f \in proc[p].land, g \in proc[p].land :
           /\ r = [entity |-> f.entity, month |-> MonthOf[Doing(p)], vintage |-> proc[p].day,
                   value |-> f.value, workbook |-> Doing(p)]
           /\ s = [entity |-> g.entity, month |-> MonthOf[Doing(p)], vintage |-> proc[p].day,
                   value |-> g.value, workbook |-> Doing(p)]
    BY DEF RowsOf
  <2>2. f.entity = g.entity
    BY <2>1 DEF SameKey
  <2>3. f = g
    BY <2>2, <1>1, AppendedTyped, DoingTyped, SaidOnce DEF Promoting
  <2> QED BY <2>1, <2>3
<1>5. \A r, s : SameKey(r, s) = SameKey(s, r)
  BY DEF SameKey
<1>6. \A q \in Run : \A r \in proc'[q].rows : \A s \in canonical' : ~SameKey(r, s)
  BY <1>1 DEF Keys
<1>7. ASSUME NEW q \in Run, NEW k \in Run, NEW r \in proc'[q].rows, NEW s \in proc'[k].rows, SameKey(r, s)
      PROVE  q = k /\ r = s
  <2> HIDE DEF SameKey
  <2>1. r \in proc[q].rows \/ (q = p /\ r \in RowsOf(p))
    BY <1>1, <1>7
  <2>2. s \in proc[k].rows \/ (k = p /\ s \in RowsOf(p))
    BY <1>1, <1>7
  <2> QED BY <2>1, <2>2, <1>2, <1>3, <1>4, <1>5, <1>7 DEF Keys
<1> HIDE DEF SameKey
<1> QED BY <1>1, <1>6, <1>7 DEF Keys

LEMMA NextKeys == Base /\ Keys /\ [Next]_vars => Keys'
<1> SUFFICES ASSUME Base, Keys, [Next]_vars PROVE Keys'
  OBVIOUS
<1>1. CASE Midnight \/ UNCHANGED vars
  BY <1>1, KeysQuiet DEF Midnight, vars
<1>2. ASSUME NEW p \in Run, Commit(p) PROVE Keys'
  <2>1. /\ canonical' = canonical \cup proc[p].rows
        /\ \A q \in Run : proc'[q] = IF q = p THEN Idle ELSE proc[q]
    BY <1>2, CommitTyped DEF Commit
  <2>2. Idle.rows = {}
    BY DEF Idle
  <2>3. \A r, s : SameKey(r, s) = SameKey(s, r)
    BY DEF SameKey
  <2>4. \A r, s \in canonical' : SameKey(r, s) => r = s
    BY <2>1, <2>3 DEF Keys
  <2>5. \A q \in Run : \A r \in proc'[q].rows : \A s \in canonical' : ~SameKey(r, s)
    BY <2>1, <2>2, <2>3 DEF Keys
  <2>6. \A q, k \in Run : \A r \in proc'[q].rows, s \in proc'[k].rows : SameKey(r, s) => q = k /\ r = s
    BY <2>1, <2>2 DEF Keys
  <2> HIDE DEF SameKey
  <2> QED BY <2>4, <2>5, <2>6 DEF Keys
<1>3. ASSUME NEW p \in Run,
             \/ OpenIngest(p) \/ OpenRepromote(p) \/ Fetch(p) \/ Stage(p) \/ Check(p) \/ Refuse(p)
             \/ ReadCounters(p) \/ Fail(p)
      PROVE  Keys'
  BY <1>3, QuietRows, KeysQuiet
<1> QED BY <1>1, <1>2, <1>3, KeysAppended DEF Next

(* The rows no later vintage of their figure follows, and what they say *)
Newest(r) == \A s \in canonical : s.entity = r.entity /\ s.month = r.month => s.vintage <= r.vintage
Before(m) == FiguresOf(Latest({r \in canonical : r.month = m}))

(* Of the rows of one entity one is the latest. *)
LEMMA LatestExists ==
    ASSUME NEW rows \in SUBSET Row, NEW r \in rows
    PROVE  \E l \in Latest(rows) : l.entity = r.entity /\ r.vintage <= l.vintage
<1> DEFINE T == {s.vintage : s \in {t \in rows : t.entity = r.entity}}
<1>1. MaxDay \in Nat /\ T \in SUBSET (0..MaxDay) /\ T # {}
  BY PromotionAssumption DEF Row, Day
<1>2. PICK n \in T : \A k \in T : n >= k
  <2> HIDE DEF T
  <2> QED BY <1>1, GreatestBelow
<1>3. PICK l \in rows : l.entity = r.entity /\ l.vintage = n
  OBVIOUS
<1>4. \A s \in rows : s.entity = r.entity => s.vintage <= n
  <2> SUFFICES ASSUME NEW s \in rows, s.entity = r.entity PROVE s.vintage <= n
    OBVIOUS
  <2>1. s.vintage \in T /\ r.entity = r.entity
    BY Zenon
  <2>2. n >= s.vintage /\ n \in Nat /\ s.vintage \in Nat
    <3> HIDE DEF T
    <3>1. T \subseteq Nat
      BY <1>1
    <3>2. s.vintage \in Nat /\ n \in Nat
      BY <2>1, <3>1
    <3> QED BY <2>1, <1>2, <3>2
  <2> QED BY <2>2
<1> HIDE DEF T
<1> QED BY <1>3, <1>4 DEF Latest

LEMMA BeforeRows ==
    ASSUME Base, NEW m
    PROVE  /\ \A f \in Before(m) : \E r \in canonical : FigureOf(r) = f /\ r.month = m /\ Newest(r)
           /\ \A r \in canonical : r.month = m /\ Newest(r) => FigureOf(r) \in Before(m)
           /\ \A r \in canonical : r.month = m => \E f \in Before(m) : f.entity = r.entity
           /\ \A f \in Before(m) : f = [entity |-> f.entity, value |-> f.value]
<1> DEFINE rows == {r \in canonical : r.month = m}
<1>1. \A r : r \in Latest(rows) <=> r \in canonical /\ r.month = m /\ Newest(r)
  BY DEF Latest, Newest
<1>2. Before(m) = {FigureOf(r) : r \in Latest(rows)}
  BY DEF Before, FiguresOf, FigureOf
<1>3. rows \in SUBSET Row
  BY DEF Base, TypeOK
<1>4. \A r : FigureOf(r).entity = r.entity
  BY DEF FigureOf
<1> HIDE DEF rows
<1>5. \A r \in canonical : r.month = m => \E f \in Before(m) : f.entity = r.entity
  <2> SUFFICES ASSUME NEW r \in canonical, r.month = m PROVE \E f \in Before(m) : f.entity = r.entity
    OBVIOUS
  <2>1. r \in rows
    BY DEF rows
  <2>2. PICK l \in Latest(rows) : l.entity = r.entity
    BY <2>1, <1>3, LatestExists
  <2> QED BY <2>2, <1>2, <1>4
<1>6. \A f \in Before(m) : f = [entity |-> f.entity, value |-> f.value]
  BY <1>2 DEF FigureOf
<1>7. \A f \in Before(m) : \E r \in canonical : FigureOf(r) = f /\ r.month = m /\ Newest(r)
  BY <1>1, <1>2
<1>8. \A r \in canonical : r.month = m /\ Newest(r) => FigureOf(r) \in Before(m)
  BY <1>1, <1>2
<1> QED BY <1>5, <1>6, <1>7, <1>8

(* The heads say one thing of each entity. *)
LEMMA BeforeOnce ==
    ASSUME Base, Keys, NEW m, NEW f \in Before(m), NEW g \in Before(m), f.entity = g.entity
    PROVE  f = g
<1>1. PICK r \in canonical : FigureOf(r) = f /\ r.month = m /\ Newest(r)
  BY BeforeRows
<1>2. PICK s \in canonical : FigureOf(s) = g /\ s.month = m /\ Newest(s)
  BY BeforeRows
<1>3. r.entity = s.entity
  BY <1>1, <1>2 DEF FigureOf
<1>4. r.vintage <= s.vintage /\ s.vintage <= r.vintage /\ r.vintage \in Nat /\ s.vintage \in Nat
  BY <1>1, <1>2, <1>3 DEF Newest, Base, TypeOK, Row, Day
<1>5. r.vintage = s.vintage
  BY <1>4
<1> QED BY <1>1, <1>2, <1>3, <1>5 DEF Keys, SameKey

-----------------------------------------------------------------------------
(* What holds while no run was opened beside another                       *)

Older(r) == \E s \in canonical : s.entity = r.entity /\ s.month = r.month /\ s.vintage < r.vintage

(* The run read the heads canonical still has, and appended every figure    *)
(* of its workbooks that is not one of them                                *)
Alone(s) ==
    /\ \A r \in canonical : r.vintage <= s.day
    /\ s.pc \in {"check", "append"} => s.heads = Before(MonthOf[First(s.todo)])
    /\ s.pc = "append" => s.land = Said(First(s.todo), KeyedOn(s.day)) \ s.heads
    /\ \A r \in s.rows : FigureOf(r) \notin Before(r.month)
    /\ \A w \in s.promoted : \A f \in Said(w, KeyedOn(s.day)) :
          \/ f \in Before(MonthOf[w])
          \/ \E r \in s.rows : FigureOf(r) = f /\ r.month = MonthOf[w]

(* Its counters are those of its rows, and of the figures about to land *)
Counts(s) ==
    /\ IsFiniteSet(s.rows) /\ s.appended = Cardinality(s.rows)
    /\ s.restated = Cardinality({r \in s.rows : Older(r)})
                    + (IF s.pc = "append" THEN Cardinality({f \in s.land : Holds(s.heads, f.entity)}) ELSE 0)
    /\ s.pc = "vintage" => s.counters = vintages[s.day]

(* It closes the open collisions of the months whose sum it appends *)
Closes(s) ==
    /\ \A c \in s.closed : \E r \in s.rows : r.entity = Well /\ r.month = c.month /\ r.value.summed
    /\ \A h \in held : \A r \in s.rows :
          h.released = 0 /\ r.entity = Well /\ r.month = h.row.month /\ r.value.summed => h.row \in s.closed

(* Of two vintages of a figure that follow each other, both are news *)
Changes ==
    \A r, s \in canonical :
        (r.entity = s.entity /\ r.month = s.month /\ r.vintage < s.vintage /\ r.value = s.value)
        => \E t \in canonical : /\ t.entity = r.entity /\ t.month = r.month
                                /\ r.vintage < t.vintage /\ t.vintage < s.vintage

Booked(d) ==
    /\ vintages[d].appended = Cardinality(AtDay(d))
    /\ vintages[d].restated = Cardinality({r \in AtDay(d) : Older(r)})
    /\ \A r \in AtDay(d) : r.workbook \in vintages[d].manifests

(* A collision is open only while the well's head is no sum, and was closed *)
(* by a sum of the day it was released                                     *)
Collisions ==
    \A h \in held :
        /\ h.released = 0 => \E f \in Before(h.row.month) : f.entity = Well /\ ~f.value.summed
        /\ h.released # 0 => \E r \in canonical : /\ r.entity = Well /\ r.month = h.row.month
                                                  /\ r.vintage = h.released /\ r.value.summed

AtRest == IsFiniteSet(canonical) /\ Changes /\ (\A d \in Day : Booked(d)) /\ Collisions

Solo ==
    ~overlapped =>
        /\ \A p, q \in Run : proc[p].pc # "idle" /\ proc[q].pc # "idle" => p = q
        /\ \A p \in Run : proc[p].pc # "idle" => Alone(proc[p]) /\ Counts(proc[p]) /\ Closes(proc[p])
        /\ AtRest

LEMMA InitSolo == Init => Keys /\ Solo
<1> SUFFICES ASSUME Init PROVE Keys /\ Solo
  OBVIOUS
<1>1. /\ canonical = {} /\ held = {} /\ \A p \in Run : proc[p].pc = "idle" /\ proc[p].rows = {}
  BY DEF Init, Idle
<1>2. Keys
  BY <1>1 DEF Keys
<1>3. \A d \in Day : Booked(d)
  <2> SUFFICES ASSUME NEW d \in Day PROVE Booked(d)
    OBVIOUS
  <2>1. AtDay(d) = {} /\ {r \in AtDay(d) : Older(r)} = {}
    BY <1>1 DEF AtDay
  <2>2. vintages[d].appended = 0 /\ vintages[d].restated = 0
    BY DEF Init, Unopened
  <2> QED BY <2>1, <2>2, FS_EmptySet DEF Booked
<1>4. AtRest
  BY <1>1, <1>3, FS_EmptySet DEF AtRest, Changes, Collisions
<1> QED BY <1>1, <1>2, <1>4 DEF Solo

(* A step of one transaction that leaves the store alone *)
LEMMA SoloStep ==
    ASSUME Base, Solo, NEW p \in Run, UNCHANGED <<canonical, held, vintages>>,
           \A q \in Run : q # p => proc'[q] = proc[q],
           ~overlapped' => ~overlapped,
           proc[p].pc = "idle" /\ ~overlapped' => Others(p) = {},
           ~overlapped' /\ proc'[p].pc # "idle" => Alone(proc'[p]) /\ Counts(proc'[p]) /\ Closes(proc'[p])
    PROVE  Solo'
<1> SUFFICES ASSUME ~overlapped'
             PROVE  /\ \A k, q \in Run : proc'[k].pc # "idle" /\ proc'[q].pc # "idle" => k = q
                    /\ \A q \in Run : proc'[q].pc # "idle" =>
                          Alone(proc[q])' /\ Counts(proc[q])' /\ Closes(proc[q])'
                    /\ AtRest'
  BY DEF Solo
<1>1. \A q \in Run : q # p => proc'[q].pc = "idle"
  <2>1. \A k, q \in Run : proc[k].pc # "idle" /\ proc[q].pc # "idle" => k = q
    BY DEF Solo
  <2> QED BY <2>1 DEF Others
<1>2. ASSUME NEW q \in Run, proc'[q].pc # "idle"
      PROVE  Alone(proc[q])' /\ Counts(proc[q])' /\ Closes(proc[q])'
  <2>1. q = p /\ Alone(proc'[q]) /\ Counts(proc'[q]) /\ Closes(proc'[q])
    BY <1>1, <1>2
  <2>2. \A m : Before(m)' = Before(m)
    BY DEF Before
  <2>3. \A r : Older(r)' = Older(r)
    BY DEF Older
  <2>4. Alone(proc[q])'
    BY <2>1, <2>2 DEF Alone
  <2>5. Counts(proc[q])'
    BY <2>1, <2>3 DEF Counts
  <2>6. Closes(proc[q])'
    BY <2>1 DEF Closes
  <2> QED BY <2>4, <2>5, <2>6
<1>3. AtRest
  BY DEF Solo
<1>4. AtRest'
  <2>1. Changes'
    BY <1>3 DEF AtRest, Changes
  <2>2. \A d \in Day : Booked(d)'
    BY <1>3 DEF AtRest, Booked, AtDay, Older
  <2>3. \A m : Before(m)' = Before(m)
    BY DEF Before
  <2>4. Collisions'
    BY <1>3, <2>3 DEF AtRest, Collisions
  <2> QED BY <1>3, <2>1, <2>2, <2>4 DEF AtRest
<1> QED BY <1>1, <1>2, <1>4

LEMMA OpenedSolo ==
    ASSUME Base, Solo, NEW p \in Run, NEW step \in {"fetch", "stage"}, NEW again, NEW todo,
           Opened(p, step, again, todo)
    PROVE  Solo'
<1> DEFINE x == [Idle EXCEPT !.pc = step, !.day = today, !.again = again, !.todo = todo]
<1>1. /\ x.pc = step /\ x.day = today /\ x.promoted = {} /\ x.rows = {} /\ x.closed = {}
      /\ x.appended = 0 /\ x.restated = 0
  BY DEF Idle
<1>2. proc' = [proc EXCEPT ![p] = x] /\ UNCHANGED <<canonical, held, vintages>>
  BY DEF Opened
<1> HIDE DEF x
<1>3. proc'[p] = x /\ \A q \in Run : q # p => proc'[q] = proc[q]
  BY <1>2 DEF Base, TypeOK
<1>4. ~overlapped' => ~overlapped /\ Others(p) = {}
  BY DEF Opened
<1>5. Alone(x)
  BY <1>1 DEF Alone, Base
<1>6. Counts(x)
  <2>1. {r \in x.rows : Older(r)} = {}
    BY <1>1
  <2> QED BY <1>1, <2>1, FS_EmptySet DEF Counts
<1>7. Closes(x)
  BY <1>1 DEF Closes
<1> QED BY <1>2, <1>3, <1>4, <1>5, <1>6, <1>7, SoloStep

LEMMA IdleSolo ==
    ASSUME Base, Solo, NEW p \in Run, proc[p].pc # "idle", proc' = [proc EXCEPT ![p] = Idle],
           UNCHANGED <<canonical, held, vintages, overlapped>>
    PROVE  Solo'
<1>1. proc'[p].pc = "idle" /\ \A q \in Run : q # p => proc'[q] = proc[q]
  BY DEF Base, TypeOK, Idle
<1> QED BY <1>1, SoloStep

LEMMA FetchSolo ==
    ASSUME Base, Solo, NEW p \in Run, Fetch(p)
    PROVE  Solo'
<1>1. /\ proc \in [Run -> Process] /\ proc[p] \in Process /\ proc[p].pc = "fetch"
      /\ UNCHANGED <<canonical, held, vintages, overlapped>>
  BY DEF Fetch, Base, TypeOK
<1>2. PICK w \in Workbook :
         proc' = [proc EXCEPT ![p] = IF w \in staged THEN Idle
                                     ELSE [@ EXCEPT !.pc = "stage", !.todo = {w}, !.loaded = {w}]]
  BY DEF Fetch
<1>3. CASE w \in staged
  <2>1. proc' = [proc EXCEPT ![p] = Idle]
    BY <1>2, <1>3
  <2> QED BY <2>1, <1>1, IdleSolo
<1>4. CASE w \notin staged
  <2> DEFINE x == [proc[p] EXCEPT !.pc = "stage", !.todo = {w}, !.loaded = {w}]
  <2>1. proc'[p] = x /\ \A q \in Run : q # p => proc'[q] = proc[q]
    BY <1>1, <1>2, <1>4
  <2>2. /\ x.pc = "stage" /\ x.day = proc[p].day /\ x.promoted = proc[p].promoted
        /\ x.rows = proc[p].rows /\ x.closed = proc[p].closed
        /\ x.appended = proc[p].appended /\ x.restated = proc[p].restated
    BY <1>1 DEF Process
  <2> HIDE DEF x
  <2>3. ~overlapped => Alone(proc[p]) /\ Counts(proc[p]) /\ Closes(proc[p])
    BY <1>1 DEF Solo
  <2>4. Alone(proc[p]) => Alone(x)
    BY <2>2 DEF Alone
  <2>5. Counts(proc[p]) => Counts(x)
    BY <1>1, <2>2 DEF Counts
  <2>6. Closes(proc[p]) => Closes(x)
    BY <2>2 DEF Closes
  <2> QED BY <1>1, <2>1, <2>3, <2>4, <2>5, <2>6, SoloStep
<1> QED BY <1>3, <1>4

(* The heads a run reads are those of canonical: its own rows are of other *)
(* months.                                                                 *)
LEMMA ReadsHeads ==
    ASSUME Base, NEW p \in Run, proc[p].pc \in Promoting
    PROVE  /\ Visible(p, MonthOf[Doing(p)]) = {r \in canonical : r.month = MonthOf[Doing(p)]}
           /\ Heads(p, MonthOf[Doing(p)]) = Before(MonthOf[Doing(p)])
<1>1. Visible(p, MonthOf[Doing(p)]) = {r \in canonical : r.month = MonthOf[Doing(p)]}
  BY MonthsApart DEF Visible
<1> QED BY <1>1 DEF Heads, Before

LEMMA StageSolo ==
    ASSUME Base, Solo, NEW p \in Run, Stage(p)
    PROVE  Solo'
<1> DEFINE w == Doing(p)
           seen == proc[p].seen \cup Collided(w, Keyed(p))
           heads == Heads(p, MonthOf[w])
           x == [proc[p] EXCEPT !.pc = "check", !.seen = seen, !.heads = heads]
<1>1. /\ proc \in [Run -> Process] /\ proc[p] \in Process /\ proc[p].pc = "stage"
      /\ UNCHANGED <<canonical, held, vintages, overlapped>>
  BY DEF Stage, Base, TypeOK
<1>2. w = First(proc[p].todo) /\ heads = Before(MonthOf[w])
  BY <1>1, DoingTyped, ReadsHeads DEF Promoting
<1>3. proc' = [proc EXCEPT ![p] = x]
  BY <1>1 DEF Stage, Process
<1> HIDE DEF heads, seen
<1>4. /\ x.pc = "check" /\ x.day = proc[p].day /\ x.todo = proc[p].todo /\ x.promoted = proc[p].promoted
      /\ x.rows = proc[p].rows /\ x.closed = proc[p].closed /\ x.heads = heads
      /\ x.appended = proc[p].appended /\ x.restated = proc[p].restated
  BY <1>1 DEF Process
<1> HIDE DEF x
<1>5. proc'[p] = x /\ \A q \in Run : q # p => proc'[q] = proc[q]
  BY <1>1, <1>3
<1>6. ~overlapped => Alone(proc[p]) /\ Counts(proc[p]) /\ Closes(proc[p])
  BY <1>1 DEF Solo
<1>7. Alone(proc[p]) => Alone(x)
  BY <1>2, <1>4 DEF Alone
<1>8. Counts(proc[p]) => Counts(x)
  BY <1>1, <1>4 DEF Counts
<1>9. Closes(proc[p]) => Closes(x)
  BY <1>4 DEF Closes
<1> QED BY <1>1, <1>5, <1>6, <1>7, <1>8, <1>9, SoloStep

(* Alone, what a workbook says and the heads do not is not in the store of  *)
(* the day either: all of it lands.                                        *)
LEMMA AllOfItLands ==
    ASSUME Base, NEW p \in Run, proc[p].pc = "check", Alone(proc[p]), ~Divergent(p)
    PROVE  Landable(p) = Computed(p) \ proc[p].heads
<1>1. Doing(p) = First(proc[p].todo) /\ proc[p].day \in Day /\ proc[p].pc \in Promoting
  BY DoingTyped DEF Promoting
<1> DEFINE m == MonthOf[Doing(p)]
<1>2. proc[p].heads = Before(m)
  BY <1>1 DEF Alone
<1>3. ASSUME NEW f \in Computed(p) \ proc[p].heads
      PROVE  f \notin AtVintage(p, m)
  <2> SUFFICES ASSUME f \in AtVintage(p, m) PROVE FALSE
    OBVIOUS
  <2>1. PICK r \in canonical : r.month = m /\ r.vintage = proc[p].day /\ f = FigureOf(r)
    BY <1>1, ReadsHeads DEF AtVintage, FiguresOf, FigureOf
  <2>2. Newest(r)
    BY <2>1 DEF Newest, Alone
  <2> QED BY <2>1, <2>2, <1>2, <1>3, BeforeRows
<1> QED BY <1>3 DEF Landable, Divergent, Changed

LEMMA CheckSolo ==
    ASSUME Base, Solo, NEW p \in Run, Check(p)
    PROVE  Solo'
<1> DEFINE land == Landable(p)
           news == Cardinality({f \in land : Holds(proc[p].heads, f.entity)})
           restated == proc[p].restated + news
           x == [proc[p] EXCEPT !.pc = "append", !.land = land, !.restated = restated]
<1>1. /\ proc \in [Run -> Process] /\ proc[p] \in Process /\ proc[p].pc = "check" /\ ~Divergent(p)
      /\ UNCHANGED <<canonical, held, vintages, overlapped>>
  BY DEF Check, Base, TypeOK
<1>2. Doing(p) = First(proc[p].todo) /\ Computed(p) = Said(Doing(p), Keyed(p)) /\ Keyed(p) = KeyedOn(proc[p].day)
  BY <1>1, DoingTyped DEF Promoting
<1>3. proc' = [proc EXCEPT ![p] = x]
  BY <1>1 DEF Check, Process
<1>4. Alone(proc[p]) => land = Said(First(proc[p].todo), KeyedOn(proc[p].day)) \ proc[p].heads
  BY <1>1, <1>2, AllOfItLands
<1>5. IsFiniteSet(land)
  BY <1>1, LandableTyped DEF Promoting
<1> HIDE DEF land, restated
<1>6. /\ x.pc = "append" /\ x.day = proc[p].day /\ x.todo = proc[p].todo /\ x.promoted = proc[p].promoted
      /\ x.rows = proc[p].rows /\ x.closed = proc[p].closed /\ x.heads = proc[p].heads /\ x.land = land
      /\ x.appended = proc[p].appended /\ x.restated = restated
  <2>1. /\ x.pc = "append" /\ x.day = proc[p].day /\ x.todo = proc[p].todo /\ x.promoted = proc[p].promoted
        /\ x.rows = proc[p].rows
    BY <1>1 DEF Process
  <2>2. /\ x.closed = proc[p].closed /\ x.heads = proc[p].heads /\ x.land = land
        /\ x.appended = proc[p].appended /\ x.restated = restated
    BY <1>1 DEF Process
  <2> QED BY <2>1, <2>2
<1> HIDE DEF x
<1>7. proc'[p] = x /\ \A q \in Run : q # p => proc'[q] = proc[q]
  BY <1>1, <1>3
<1>8. ~overlapped => Alone(proc[p]) /\ Counts(proc[p]) /\ Closes(proc[p])
  BY <1>1 DEF Solo
<1>9. Alone(proc[p]) => Alone(x)
  BY <1>1, <1>4, <1>6 DEF Alone
<1>10. Counts(proc[p]) => Counts(x)
  <2> SUFFICES ASSUME Counts(proc[p]) PROVE Counts(x)
    OBVIOUS
  <2>1. /\ IsFiniteSet(x.rows) /\ x.appended = Cardinality(x.rows) /\ x.pc = "append"
        /\ proc[p].restated = Cardinality({r \in x.rows : Older(r)}) + 0
    BY <1>1, <1>6 DEF Counts
  <2>2. news = Cardinality({f \in x.land : Holds(x.heads, f.entity)})
    BY <1>6
  <2>3. proc[p].restated = Cardinality({r \in x.rows : Older(r)})
    <3>1. Cardinality({r \in x.rows : Older(r)}) \in Nat
      BY <2>1, FS_Subset, FS_CardinalityType
    <3> QED BY <2>1, <3>1
  <2>4. x.restated = Cardinality({r \in x.rows : Older(r)}) + Cardinality({f \in x.land : Holds(x.heads, f.entity)})
    BY <1>6, <2>2, <2>3 DEF restated
  <2> QED BY <2>1, <2>4 DEF Counts
<1>11. Closes(proc[p]) => Closes(x)
  BY <1>6 DEF Closes
<1> QED BY <1>1, <1>7, <1>8, <1>9, <1>10, <1>11, SoloStep

LEMMA ReadCountersSolo ==
    ASSUME Base, Solo, NEW p \in Run, ReadCounters(p)
    PROVE  Solo'
<1> DEFINE c == vintages[proc[p].day]
           x == [proc[p] EXCEPT !.pc = "vintage", !.counters = c]
<1>1. /\ proc \in [Run -> Process] /\ proc[p] \in Process /\ proc[p].pc = "counters"
      /\ UNCHANGED <<canonical, held, vintages, overlapped>>
  BY DEF ReadCounters, Base, TypeOK
<1>2. proc'[p] = x /\ \A q \in Run : q # p => proc'[q] = proc[q]
  BY <1>1 DEF ReadCounters
<1>3. /\ x.pc = "vintage" /\ x.day = proc[p].day /\ x.todo = proc[p].todo /\ x.promoted = proc[p].promoted
      /\ x.rows = proc[p].rows /\ x.closed = proc[p].closed /\ x.counters = vintages[x.day]
      /\ x.appended = proc[p].appended /\ x.restated = proc[p].restated
  BY <1>1 DEF Process
<1> HIDE DEF x
<1>4. ~overlapped => Alone(proc[p]) /\ Counts(proc[p]) /\ Closes(proc[p])
  BY <1>1 DEF Solo
<1>5. Alone(proc[p]) => Alone(x)
  BY <1>3 DEF Alone
<1>6. Counts(proc[p]) => Counts(x)
  BY <1>1, <1>3 DEF Counts
<1>7. Closes(proc[p]) => Closes(x)
  BY <1>3 DEF Closes
<1> QED BY <1>1, <1>2, <1>4, <1>5, <1>6, <1>7, SoloStep

(* A figure that lands becomes one row, and a row comes of one figure *)
LEMMA RowsAndFigures ==
    ASSUME Base, NEW p \in Run, proc[p].pc = "append", NEW A \in SUBSET proc[p].land
    PROVE  LET rows == {r \in RowsOf(p) : FigureOf(r) \in A}
           IN  IsFiniteSet(rows) /\ Cardinality(rows) = Cardinality(A)
<1> DEFINE row(f) == [entity |-> f.entity, month |-> MonthOf[Doing(p)], vintage |-> proc[p].day,
                      value |-> f.value, workbook |-> Doing(p)]
           rows == {r \in RowsOf(p) : FigureOf(r) \in A}
           b == [f \in A |-> row(f)]
<1>1. RowsOf(p) = {row(f) : f \in proc[p].land}
  BY DEF RowsOf
<1>2. \A f \in proc[p].land : FigureOf(row(f)) = f
  <2>1. proc[p].land \subseteq Figure
    BY DEF Base, TypeOK, Process
  <2> QED BY <2>1 DEF FigureOf, Figure
<1>3. IsFiniteSet(A)
  BY AppendedTyped, FS_Subset
<1> HIDE DEF row
<1>4. b \in Bijection(A, rows)
  <2>1. b \in [A -> rows] /\ \A f \in A : b[f] = row(f)
    BY <1>1, <1>2
  <2>2. \A f, g \in A : b[f] = b[g] => f = g
    BY <1>2, <2>1
  <2>3. \A r \in rows : \E f \in A : b[f] = r
    BY <1>1, <1>2, <2>1
  <2> HIDE DEF b, rows
  <2> QED BY <2>1, <2>2, <2>3, Fun_IsBij
<1> HIDE DEF rows, b
<1>5. IsFiniteSet(rows) /\ Cardinality(rows) = Cardinality(A)
  BY <1>3, <1>4, FS_Bijection DEF ExistsBijection
<1> QED BY <1>5 DEF rows

LEMMA AppendedCounts ==
    ASSUME Base, Keys, NEW p \in Run, AppendCanonical(p), Alone(proc[p]), Counts(proc[p])
    PROVE  Counts(proc[p])'
<1> DEFINE s == proc[p]
           new == RowsOf(p)
           restating == {f \in s.land : Holds(s.heads, f.entity)}
<1>1. /\ s.pc = "append" /\ proc'[p].pc \in {"counters", "stage"} /\ proc'[p].rows = s.rows \cup new
      /\ proc'[p].appended = s.appended + Cardinality(s.land) /\ proc'[p].restated = s.restated
      /\ UNCHANGED <<canonical, vintages>> /\ \A r \in new, t \in canonical : ~SameKey(r, t)
  BY AppendShape DEF Store
<1>2. /\ IsFiniteSet(new) /\ Cardinality(new) = Cardinality(s.land)
      /\ \A r \in new : /\ r.vintage = s.day /\ r.month = MonthOf[Doing(p)] /\ FigureOf(r) \in s.land
                        /\ r \in Row
  <2>1. \A r \in new : /\ r.vintage = s.day /\ r.month = MonthOf[Doing(p)] /\ FigureOf(r) \in s.land
                       /\ r \in Row
    BY <1>1, AppendedTyped
  <2>2. {r \in new : FigureOf(r) \in s.land} = new
    BY <2>1
  <2> HIDE DEF new
  <2> QED BY <1>1, <2>1, <2>2, RowsAndFigures DEF new
<1>3. s.rows \cap new = {}
  BY <1>1, <1>2, MonthsApart DEF Promoting
<1>4. s.heads = Before(MonthOf[Doing(p)])
  BY <1>1, DoingTyped DEF Alone, Promoting
<1>5. {r \in new : Older(r)} = {r \in new : FigureOf(r) \in restating}
  <2> SUFFICES ASSUME NEW r \in new PROVE Older(r) <=> Holds(s.heads, r.entity)
    BY <1>2 DEF FigureOf
  <2>1. CASE Older(r)
    <3>1. PICK t \in canonical : t.entity = r.entity /\ t.month = r.month
      BY <2>1 DEF Older
    <3>2. PICK f \in Before(r.month) : f.entity = t.entity
      BY <3>1, BeforeRows
    <3> QED BY <2>1, <3>1, <3>2, <1>2, <1>4 DEF Holds
  <2>2. CASE Holds(s.heads, r.entity)
    <3>1. PICK f \in Before(r.month) : f.entity = r.entity
      BY <2>2, <1>2, <1>4 DEF Holds
    <3>2. PICK t \in canonical : FigureOf(t) = f /\ t.month = r.month
      BY <3>1, BeforeRows
    <3>3. t.entity = r.entity /\ t.vintage # r.vintage
      BY <3>1, <3>2, <1>1 DEF FigureOf, SameKey
    <3>4. t.vintage <= r.vintage /\ t.vintage \in Nat /\ r.vintage \in Nat
      BY <1>2 DEF Alone, Base, TypeOK, Row, Day
    <3>5. t.vintage < r.vintage
      BY <3>3, <3>4
    <3> QED BY <2>2, <3>2, <3>3, <3>5 DEF Older
  <2> QED BY <2>1, <2>2
<1>6. IsFiniteSet({r \in new : Older(r)}) /\ Cardinality({r \in new : Older(r)}) = Cardinality(restating)
  <2> HIDE DEF new
  <2> QED BY <1>1, <1>5, RowsAndFigures DEF new
<1>7. /\ IsFiniteSet(s.rows) /\ s.appended = Cardinality(s.rows)
      /\ s.restated = Cardinality({r \in s.rows : Older(r)}) + Cardinality(restating)
  BY <1>1 DEF Counts
<1> HIDE DEF new
<1>8. /\ IsFiniteSet(s.rows \cup new)
      /\ Cardinality(s.rows \cup new) = Cardinality(s.rows) + Cardinality(new)
  BY <1>2, <1>3, <1>7, CardinalityOfBoth
<1>9. Cardinality({r \in s.rows \cup new : Older(r)})
        = Cardinality({r \in s.rows : Older(r)}) + Cardinality({r \in new : Older(r)})
  <2> DEFINE a == {r \in s.rows : Older(r)}
             b == {r \in new : Older(r)}
  <2>1. {r \in s.rows \cup new : Older(r)} = a \cup b /\ a \cap b = {}
    BY <1>3
  <2>2. IsFiniteSet(a) /\ IsFiniteSet(b)
    BY <1>6, <1>7, FS_Subset
  <2> HIDE DEF a, b
  <2>3. Cardinality(a \cup b) = Cardinality(a) + Cardinality(b)
    BY <2>1, <2>2, CardinalityOfBoth
  <2> QED BY <2>1, <2>3 DEF a, b
<1>10. \A r : Older(r)' = Older(r)
  BY <1>1 DEF Older
<1>11. /\ IsFiniteSet(proc'[p].rows) /\ proc'[p].appended = Cardinality(proc'[p].rows)
       /\ proc'[p].restated = Cardinality({r \in proc'[p].rows : Older(r)})
  BY <1>1, <1>2, <1>6, <1>7, <1>8, <1>9
<1>12. Cardinality({r \in proc'[p].rows : Older(r)}) \in Nat
  BY <1>11, FS_Subset, FS_CardinalityType
<1>13. proc'[p].restated = Cardinality({r \in proc'[p].rows : Older(r)}) + 0
  BY <1>11, <1>12
<1> QED BY <1>1, <1>10, <1>11, <1>13 DEF Counts

LEMMA AppendedAlone ==
    ASSUME Base, NEW p \in Run, AppendCanonical(p), Alone(proc[p])
    PROVE  Alone(proc[p])'
<1> DEFINE s == proc[p]
           w == Doing(p)
<1>1. /\ s.pc = "append" /\ proc'[p].pc \in {"counters", "stage"} /\ proc'[p].day = s.day
      /\ proc'[p].rows = s.rows \cup RowsOf(p) /\ proc'[p].promoted = s.promoted \cup {w}
      /\ canonical' = canonical
  BY AppendShape DEF Store
<1>2. /\ w = First(s.todo) /\ Keyed(p) = KeyedOn(s.day)
      /\ s.heads = Before(MonthOf[w]) /\ s.land = Said(w, KeyedOn(s.day)) \ s.heads
  BY <1>1, DoingTyped DEF Alone, Promoting
<1>3. \A r \in RowsOf(p) : r.month = MonthOf[w] /\ FigureOf(r) \in s.land
  BY <1>1, AppendedTyped
<1>4. \A f \in s.land : \E r \in RowsOf(p) : FigureOf(r) = f
  <2> SUFFICES ASSUME NEW f \in s.land PROVE \E r \in RowsOf(p) : FigureOf(r) = f
    OBVIOUS
  <2> DEFINE r == [entity |-> f.entity, month |-> MonthOf[w], vintage |-> s.day,
                   value |-> f.value, workbook |-> w]
  <2>1. f \in Figure
    BY DEF Base, TypeOK, Process
  <2>2. r \in RowsOf(p) /\ FigureOf(r) = f
    BY <2>1 DEF RowsOf, FigureOf, Figure
  <2> QED BY <2>2
<1>5. \A m : Before(m)' = Before(m)
  BY <1>1 DEF Before
<1>6. \A r \in proc'[p].rows : FigureOf(r) \notin Before(r.month)
  <2>1. \A r \in RowsOf(p) : FigureOf(r) \notin Before(r.month)
    BY <1>2, <1>3
  <2> QED BY <2>1, <1>1 DEF Alone
<1>7. \A v \in proc'[p].promoted : \A f \in Said(v, KeyedOn(s.day)) :
         f \in Before(MonthOf[v]) \/ \E r \in proc'[p].rows : FigureOf(r) = f /\ r.month = MonthOf[v]
  <2>1. ASSUME NEW f \in Said(w, KeyedOn(s.day)), f \notin Before(MonthOf[w])
        PROVE  \E r \in proc'[p].rows : FigureOf(r) = f /\ r.month = MonthOf[w]
    <3>1. f \in s.land
      BY <1>2, <2>1
    <3> QED BY <3>1, <1>1, <1>3, <1>4
  <2>2. \A v \in s.promoted : \A f \in Said(v, KeyedOn(s.day)) :
           f \in Before(MonthOf[v]) \/ \E r \in proc'[p].rows : FigureOf(r) = f /\ r.month = MonthOf[v]
    BY <1>1 DEF Alone
  <2> HIDE DEF w
  <2> QED BY <2>1, <2>2, <1>1
<1>8. \A r \in canonical : r.vintage <= s.day
  BY DEF Alone
<1> QED BY <1>1, <1>5, <1>6, <1>7, <1>8 DEF Alone

(* An append closes a collision only by a sum that lands: were the sum one  *)
(* of the heads already, no collision of its month would be open.          *)
LEMMA ClosedByLanding ==
    ASSUME Base, Keys, NEW p \in Run, proc[p].pc = "append", Alone(proc[p]), Collisions,
           NEW c \in Superseded(p)
    PROVE  c.month = MonthOf[Doing(p)] /\ \E r \in RowsOf(p) : r.entity = Well /\ r.value.summed
<1> DEFINE w == Doing(p)
           m == MonthOf[w]
<1>1. /\ w \in proc[p].todo /\ w \in Workbook /\ Keyed(p) \in BOOLEAN /\ Keyed(p) = KeyedOn(proc[p].day)
      /\ w = First(proc[p].todo) /\ proc[p].heads = Before(m) /\ proc[p].land \subseteq Figure
  BY DoingTyped DEF Alone, Promoting, Process
<1>2. Disclosed(p) /\ c \in Open(p, m)
  BY DEF Superseded
<1>3. c.month = m
  BY <1>2 DEF Open
<1>4. PICK f \in Aggregates(w, Keyed(p)) : f \in proc[p].land \/ f \in proc[p].heads
  BY <1>2 DEF Disclosed
<1>5. f.entity = Well /\ f.value.summed /\ Collided(w, Keyed(p)) = {}
  BY <1>1, <1>4, SaidOnce
<1>6. f \notin proc[p].heads
  <2> SUFFICES ASSUME f \in Before(m) PROVE FALSE
    BY <1>1
  <2>1. CASE c \in New(p)
    <3>1. c \in proc[p].seen
      BY <2>1 DEF New
    <3>2. PICK v \in Subjects(proc[p]) : c \in Collided(v, KeyedOn(proc[p].day))
      BY <3>1 DEF Base, Wrote
    <3>3. v \in proc[p].promoted \cup {w} /\ v \in Workbook
      BY <1>1, <3>2 DEF Subjects, Base, TypeOK, Process
    <3>4. MonthOf[v] = m
      BY <1>1, <1>3, <3>2, <3>3, SetAsideTyped
    <3>5. v = w
      BY <3>3, <3>4, MonthsApart DEF Promoting
    <3> QED BY <3>2, <3>5, <1>1, <1>5
  <2>2. CASE c \notin New(p)
    <3>1. PICK h \in held : h.released = 0 /\ c = h.row
      BY <1>2, <2>2 DEF Open
    <3>2. PICK g \in Before(m) : g.entity = Well /\ ~g.value.summed
      BY <3>1, <1>3 DEF Collisions
    <3>3. g = f
      BY <3>2, <1>5, BeforeOnce
    <3> QED BY <3>2, <3>3, <1>5
  <2> QED BY <2>1, <2>2
<1>7. \E r \in RowsOf(p) : r.entity = Well /\ r.value.summed
  <2> DEFINE r == [entity |-> f.entity, month |-> m, vintage |-> proc[p].day, value |-> f.value, workbook |-> w]
  <2>1. r \in RowsOf(p)
    BY <1>4, <1>6 DEF RowsOf
  <2>2. r.entity = Well /\ r.value.summed
    BY <1>5
  <2> QED BY <2>1, <2>2
<1> QED BY <1>3, <1>7

LEMMA AppendedCloses ==
    ASSUME Base, Keys, NEW p \in Run, AppendCanonical(p), Alone(proc[p]), Collisions, Closes(proc[p])
    PROVE  Closes(proc[p])'
<1> DEFINE s == proc[p]
           m == MonthOf[Doing(p)]
<1>1. /\ s.pc = "append" /\ proc'[p].rows = s.rows \cup RowsOf(p)
      /\ proc'[p].closed = s.closed \cup Superseded(p) /\ held' = held
  BY AppendShape DEF Store
<1>2. \A r \in RowsOf(p) : r.month = m /\ FigureOf(r) \in s.land
  BY <1>1, AppendedTyped
<1>3. \A c \in proc'[p].closed : \E r \in proc'[p].rows : r.entity = Well /\ r.month = c.month /\ r.value.summed
  <2>1. \A c \in Superseded(p) : \E r \in RowsOf(p) : r.entity = Well /\ r.month = c.month /\ r.value.summed
    BY <1>1, <1>2, ClosedByLanding
  <2>2. \A c \in s.closed : \E r \in s.rows : r.entity = Well /\ r.month = c.month /\ r.value.summed
    BY DEF Closes
  <2> QED BY <1>1, <2>1, <2>2
<1>4. ASSUME NEW h \in held, NEW r \in proc'[p].rows,
             h.released = 0, r.entity = Well, r.month = h.row.month, r.value.summed
      PROVE  h.row \in proc'[p].closed
  <2>1. CASE r \in s.rows
    BY <1>1, <1>4, <2>1 DEF Closes
  <2>2. CASE r \in RowsOf(p)
    <3> DEFINE f == FigureOf(r)
    <3>1. f \in s.land /\ f.value.summed /\ h.row.month = m
      BY <1>2, <1>4, <2>2 DEF FigureOf
    <3>2. f \in Said(Doing(p), Keyed(p))
      BY <1>1, <3>1, AppendedTyped
    <3>3. f \in Aggregates(Doing(p), Keyed(p))
      <4>1. \A g \in Records(Doing(p), Keyed(p)) : ~g.value.summed
        BY <1>1, DoingTyped, SaidOnce DEF Promoting
      <4> HIDE DEF f
      <4> QED BY <4>1, <3>1, <3>2 DEF Said
    <3>4. Disclosed(p)
      BY <3>1, <3>3 DEF Disclosed
    <3>5. h.row \in Open(p, m)
      BY <1>4, <3>1 DEF Open
    <3> QED BY <1>1, <3>4, <3>5 DEF Superseded
  <2> QED BY <2>1, <2>2, <1>1
<1> QED BY <1>1, <1>3, <1>4 DEF Closes

LEMMA AppendSolo ==
    ASSUME Base, Keys, Solo, NEW p \in Run, AppendCanonical(p)
    PROVE  Solo'
<1>1. /\ proc[p].pc = "append" /\ \A q \in Run : q # p => proc'[q] = proc[q]
      /\ UNCHANGED <<canonical, held, vintages, overlapped>>
  BY AppendShape DEF Store
<1>2. ASSUME ~overlapped
      PROVE  Alone(proc[p])' /\ Counts(proc[p])' /\ Closes(proc[p])'
  <2>1. Alone(proc[p]) /\ Counts(proc[p]) /\ Closes(proc[p]) /\ Collisions
    BY <1>1, <1>2 DEF Solo, AtRest
  <2> QED BY <2>1, AppendedAlone, AppendedCounts, AppendedCloses
<1>3. /\ \A m : Before(m)' = Before(m)
      /\ \A r : Older(r)' = Older(r)
  BY <1>1 DEF Before, Older
<1>4. ASSUME ~overlapped
      PROVE  Alone(proc'[p]) /\ Counts(proc'[p]) /\ Closes(proc'[p])
  <2>1. Alone(proc'[p])
    BY <1>1, <1>2, <1>3, <1>4 DEF Alone
  <2>2. Counts(proc'[p])
    BY <1>1, <1>2, <1>3, <1>4 DEF Counts
  <2>3. Closes(proc'[p])
    BY <1>1, <1>2, <1>4 DEF Closes
  <2> QED BY <2>1, <2>2, <2>3
<1> QED BY <1>1, <1>4, SoloStep

(* What a commit of a run that was alone adds to canonical *)
LEMMA CommitAlone ==
    ASSUME Base, Keys, NEW p \in Run, Commit(p), Alone(proc[p])
    PROVE  /\ canonical' = canonical \cup proc[p].rows /\ proc[p].day \in Day
           /\ \A r \in canonical : r \in Row /\ r.vintage <= proc[p].day
           /\ \A r \in proc[p].rows : /\ r \in Row /\ r.vintage = proc[p].day
                                      /\ \A s \in canonical : s.entity = r.entity /\ s.month = r.month
                                                              => s.vintage < r.vintage
<1>1. /\ canonical' = canonical \cup proc[p].rows /\ proc[p].day \in Day /\ proc[p].rows \subseteq Row
  BY CommitTyped DEF Commit
<1>2. \A r \in canonical : r \in Row /\ r.vintage <= proc[p].day
  BY DEF Alone, Base, TypeOK
<1>3. \A r \in proc[p].rows : r.vintage = proc[p].day /\ \A s \in canonical : ~SameKey(r, s)
  BY DEF Base, Wrote, Keys
<1>4. ASSUME NEW r \in proc[p].rows, NEW s \in canonical, s.entity = r.entity, s.month = r.month
      PROVE  s.vintage < r.vintage
  <2>1. s.vintage # r.vintage
    BY <1>3, <1>4 DEF SameKey
  <2>2. s.vintage \in Nat /\ r.vintage \in Nat /\ s.vintage <= r.vintage
    BY <1>1, <1>2, <1>3 DEF Row, Day
  <2> QED BY <2>1, <2>2
<1> QED BY <1>1, <1>2, <1>3, <1>4

LEMMA CommitChanges ==
    ASSUME Base, Keys, NEW p \in Run, Commit(p), Alone(proc[p]), Changes
    PROVE  Changes'
<1> SUFFICES ASSUME NEW r \in canonical', NEW s \in canonical', r.entity = s.entity, r.month = s.month,
                    r.vintage < s.vintage, r.value = s.value
             PROVE  \E t \in canonical' : /\ t.entity = r.entity /\ t.month = r.month
                                          /\ r.vintage < t.vintage /\ t.vintage < s.vintage
  BY DEF Changes
<1>1. /\ canonical' = canonical \cup proc[p].rows /\ proc[p].day \in Day
      /\ \A t \in canonical : t \in Row /\ t.vintage <= proc[p].day
      /\ \A t \in proc[p].rows : /\ t \in Row /\ t.vintage = proc[p].day
                                 /\ \A k \in canonical : k.entity = t.entity /\ k.month = t.month
                                                         => k.vintage < t.vintage
  BY CommitAlone
<1>2. r \in canonical
  BY <1>1 DEF Row, Day
<1>3. CASE s \in canonical
  BY <1>1, <1>2, <1>3 DEF Changes
<1>4. CASE s \in proc[p].rows
  <2>1. ~Newest(r)
    <3> SUFFICES ASSUME Newest(r) PROVE FALSE
      OBVIOUS
    <3>1. FigureOf(r) \in Before(s.month)
      BY <1>2, BeforeRows
    <3>2. FigureOf(r) = FigureOf(s)
      BY DEF FigureOf
    <3> QED BY <1>4, <3>1, <3>2 DEF Alone
  <2>2. PICK t \in canonical : t.entity = r.entity /\ t.month = r.month /\ ~(t.vintage <= r.vintage)
    BY <2>1 DEF Newest
  <2>3. r.vintage < t.vintage
    BY <1>1, <1>2, <2>2 DEF Row, Day
  <2>4. t.vintage < s.vintage
    BY <1>1, <1>4, <2>2
  <2> QED BY <1>1, <2>2, <2>3, <2>4
<1> QED BY <1>1, <1>3, <1>4

LEMMA CommitBooked ==
    ASSUME Base, Keys, NEW p \in Run, Commit(p), Alone(proc[p]), Counts(proc[p]),
           IsFiniteSet(canonical), \A d \in Day : Booked(d)
    PROVE  IsFiniteSet(canonical') /\ \A d \in Day : Booked(d)'
<1> DEFINE s == proc[p]
<1>1. /\ canonical' = canonical \cup s.rows /\ s.day \in Day
      /\ \A r \in canonical : r \in Row /\ r.vintage <= s.day
      /\ \A r \in s.rows : /\ r \in Row /\ r.vintage = s.day
                           /\ \A t \in canonical : t.entity = r.entity /\ t.month = r.month
                                                   => t.vintage < r.vintage
  BY CommitAlone
<1>2. /\ s.pc = "vintage" /\ s \in Process /\ vintages' = Counted(p) /\ vintages \in [Day -> Vintage]
  BY CommitTyped DEF Commit, Base, TypeOK
<1>3. /\ IsFiniteSet(s.rows) /\ s.appended = Cardinality(s.rows) /\ s.counters = vintages[s.day]
      /\ s.restated = Cardinality({r \in s.rows : Older(r)})
  <2>1. /\ IsFiniteSet(s.rows) /\ s.appended = Cardinality(s.rows) /\ s.counters = vintages[s.day]
        /\ s.restated = Cardinality({r \in s.rows : Older(r)}) + 0
    BY <1>2 DEF Counts
  <2>2. Cardinality({r \in s.rows : Older(r)}) \in Nat
    BY <2>1, FS_Subset, FS_CardinalityType
  <2> QED BY <2>1, <2>2
<1>4. IsFiniteSet(canonical')
  BY <1>1, <1>3, FS_Union
<1>5. \A r \in canonical' : Older(r)' <=> Older(r)
  <2> SUFFICES ASSUME NEW r \in canonical', NEW t \in s.rows, t.entity = r.entity, t.month = r.month,
                      t.vintage < r.vintage
               PROVE  FALSE
    BY <1>1 DEF Older
  <2> QED BY <1>1 DEF Row, Day
<1>6. ASSUME NEW d \in Day, d # s.day PROVE Booked(d)'
  <2>1. AtDay(d)' = AtDay(d)
    BY <1>1, <1>6 DEF AtDay
  <2>2. vintages'[d] = vintages[d]
    BY <1>2, <1>6 DEF Counted
  <2>3. {r \in AtDay(d)' : Older(r)'} = {r \in AtDay(d) : Older(r)}
    BY <1>1, <1>5, <2>1 DEF AtDay
  <2> QED BY <2>1, <2>2, <2>3 DEF Booked
<1>7. ASSUME NEW d \in Day, d = s.day PROVE Booked(d)'
  <2> DEFINE old == AtDay(d)
             older == {r \in old : Older(r)}
             restating == {r \in s.rows : Older(r)}
  <2>1. AtDay(d)' = old \cup s.rows /\ old \cap s.rows = {} /\ old \subseteq canonical
    <3>1. AtDay(d)' = old \cup s.rows /\ old \subseteq canonical
      BY <1>1, <1>7 DEF AtDay
    <3>2. \A r \in s.rows : r \notin canonical
      BY <1>1 DEF Row, Day
    <3> QED BY <3>1, <3>2
  <2>2. {r \in AtDay(d)' : Older(r)'} = older \cup restating /\ older \cap restating = {}
    BY <1>1, <1>5, <2>1
  <2>3. /\ IsFiniteSet(old) /\ IsFiniteSet(older) /\ IsFiniteSet(restating)
    BY <1>3, <2>1, FS_Subset
  <2>4. /\ vintages[d].appended = Cardinality(old) /\ vintages[d].restated = Cardinality(older)
        /\ \A r \in old : r.workbook \in vintages[d].manifests
    BY <1>1 DEF Booked
  <2>5. \A r \in s.rows : r.workbook \in s.promoted
    BY DEF Base, Wrote
  <2> HIDE DEF old, older, restating
  <2>6. /\ Cardinality(AtDay(d)') = Cardinality(old) + Cardinality(s.rows)
        /\ Cardinality({r \in AtDay(d)' : Older(r)'}) = Cardinality(older) + Cardinality(restating)
    BY <1>3, <2>1, <2>2, <2>3, CardinalityOfBoth
  <2>7. Cardinality(old) \in Nat /\ Cardinality(older) \in Nat
    BY <2>3, FS_CardinalityType
  <2>8. CASE s.counters.opened /\ s.appended = 0
    <3>1. s.rows = {} /\ restating = {}
      BY <1>3, <2>8, FS_EmptySet DEF restating
    <3>2. vintages' = vintages
      BY <1>2, <2>8 DEF Counted
    <3>3. Cardinality(s.rows) = 0 /\ Cardinality(restating) = 0
      BY <3>1, FS_EmptySet
    <3>4. vintages'[d].appended = Cardinality(AtDay(d)')
      BY <2>4, <2>6, <2>7, <3>2, <3>3
    <3>5. vintages'[d].restated = Cardinality({r \in AtDay(d)' : Older(r)'})
      BY <2>4, <2>6, <2>7, <3>2, <3>3
    <3>6. \A r \in AtDay(d)' : r.workbook \in vintages'[d].manifests
      BY <2>1, <2>4, <3>1, <3>2
    <3> QED BY <3>4, <3>5, <3>6 DEF Booked
  <2>9. CASE ~(s.counters.opened /\ s.appended = 0)
    <3> DEFINE v == [opened |-> TRUE, appended |-> s.counters.appended + s.appended,
                     restated |-> s.counters.restated + s.restated,
                     manifests |-> s.counters.manifests \cup s.promoted]
    <3>1. vintages' = [vintages EXCEPT ![d] = v]
      BY <1>2, <1>7, <2>9 DEF Counted
    <3>2. vintages'[d] = v
      <4> HIDE DEF v
      <4> QED BY <3>1, <1>1, <1>2
    <3>3. vintages'[d].appended = Cardinality(AtDay(d)')
      BY <1>3, <1>7, <2>4, <2>6, <3>2
    <3>4. vintages'[d].restated = Cardinality({r \in AtDay(d)' : Older(r)'})
      BY <1>3, <1>7, <2>4, <2>6, <3>2 DEF restating
    <3>5. \A r \in AtDay(d)' : r.workbook \in vintages'[d].manifests
      BY <1>3, <1>7, <2>1, <2>4, <2>5, <3>2
    <3> QED BY <3>3, <3>4, <3>5 DEF Booked
  <2> QED BY <2>8, <2>9
<1> QED BY <1>4, <1>6, <1>7

LEMMA CommitCollisions ==
    ASSUME Base, Keys, NEW p \in Run, Commit(p), Alone(proc[p]), Closes(proc[p]), Collisions
    PROVE  Collisions'
<1> DEFINE s == proc[p]
<1>1. /\ canonical' = canonical \cup s.rows /\ s.day \in Day
      /\ \A r \in canonical : r \in Row /\ r.vintage <= s.day
      /\ \A r \in s.rows : /\ r \in Row /\ r.vintage = s.day
                           /\ \A t \in canonical : t.entity = r.entity /\ t.month = r.month
                                                   => t.vintage < r.vintage
  BY CommitAlone
<1>2. Base' /\ s.pc = "vintage" /\ s \in Process
  BY CommitBase, CommitTyped
<1>3. \A m : /\ \A r \in canonical' : r.month = m /\ Newest(r)' => FigureOf(r) \in Before(m)'
             /\ \A f \in Before(m) : \E r \in canonical : FigureOf(r) = f /\ r.month = m /\ Newest(r)
  <2>1. \A m : \A r \in canonical' : r.month = m /\ Newest(r)' => FigureOf(r) \in Before(m)'
    BY DEF Before, FiguresOf, FigureOf, Latest, Newest
  <2> QED BY <2>1, BeforeRows
(* If the run has no summed row of the well in a month, an unsummed head     *)
(* stays or gives way to an unsummed row.                                  *)
<1>4. ASSUME NEW m,
             \/ \E f \in Before(m) : f.entity = Well /\ ~f.value.summed
             \/ \E r \in s.rows : r.entity = Well /\ r.month = m,
             \A r \in s.rows : r.entity = Well /\ r.month = m => ~r.value.summed
      PROVE  \E f \in Before(m)' : f.entity = Well /\ ~f.value.summed
  <2>1. CASE \E r \in s.rows : r.entity = Well /\ r.month = m
    <3>1. PICK r \in s.rows : r.entity = Well /\ r.month = m
      BY <2>1
    <3>2. Newest(r)'
      <4> SUFFICES ASSUME NEW t \in canonical' PROVE t.vintage <= r.vintage
        BY DEF Newest
      <4> QED BY <1>1, <3>1 DEF Row, Day
    <3>3. FigureOf(r) \in Before(m)'
      BY <1>1, <1>3, <3>1, <3>2
    <3>4. FigureOf(r).entity = Well /\ ~FigureOf(r).value.summed
      BY <1>4, <3>1 DEF FigureOf
    <3> QED BY <3>3, <3>4
  <2>2. CASE ~ \E r \in s.rows : r.entity = Well /\ r.month = m
    <3>1. PICK f \in Before(m) : f.entity = Well /\ ~f.value.summed
      BY <1>4, <2>2
    <3>2. PICK r \in canonical : FigureOf(r) = f /\ r.month = m /\ Newest(r)
      BY <1>3
    <3>3. r.entity = Well
      BY <3>1, <3>2 DEF FigureOf
    <3>4. Newest(r)'
      BY <1>1, <2>2, <3>2, <3>3 DEF Newest
    <3>5. f \in Before(m)'
      BY <1>1, <1>3, <3>2, <3>4
    <3> QED BY <3>1, <3>5
  <2> QED BY <2>1, <2>2
(* A filing is set aside by a workbook that gives the well no sum, and what *)
(* that workbook says of the well is a head or was appended.               *)
<1>5. ASSUME NEW c \in New(p)
      PROVE  /\ \/ \E f \in Before(c.month) : f.entity = Well /\ ~f.value.summed
                \/ \E r \in s.rows : r.entity = Well /\ r.month = c.month
             /\ \A r \in s.rows : r.entity = Well /\ r.month = c.month => ~r.value.summed
  <2>1. PICK w \in Subjects(s) : c \in Collided(w, KeyedOn(s.day))
    BY DEF New, Base, Wrote
  <2>2. w \in s.promoted /\ w \in Workbook /\ KeyedOn(s.day) \in BOOLEAN
    BY <2>1, <1>2 DEF Subjects, Process, KeyedOn
  <2>3. c.month = MonthOf[w] /\ Aggregates(w, KeyedOn(s.day)) = {}
    BY <2>1, <2>2, SetAsideTyped, SaidOnce
  <2>4. PICK f \in Records(w, KeyedOn(s.day)) : f.entity = Well /\ ~f.value.summed
    BY <2>2, <2>3, SaidOnce
  <2>5. f \in Before(MonthOf[w]) \/ \E r \in s.rows : FigureOf(r) = f /\ r.month = MonthOf[w]
    BY <2>2, <2>4 DEF Alone, Said
  <2>6. \/ \E g \in Before(c.month) : g.entity = Well /\ ~g.value.summed
        \/ \E r \in s.rows : r.entity = Well /\ r.month = c.month
    <3>1. \A r : FigureOf(r) = f => r.entity = Well
      BY <2>4 DEF FigureOf
    <3> QED BY <3>1, <2>3, <2>4, <2>5
  <2>7. ASSUME NEW r \in s.rows, r.month = c.month
        PROVE  ~r.value.summed
    <3>1. /\ r.workbook \in s.promoted /\ MonthOf[r.workbook] = MonthOf[w]
          /\ FigureOf(r) \in Said(r.workbook, KeyedOn(s.day))
      BY <2>3, <2>7 DEF Base, Wrote
    <3>2. r.workbook = w
      BY <2>2, <3>1 DEF Base, Running
    <3>3. FigureOf(r) \in Records(w, KeyedOn(s.day))
      BY <2>3, <3>1, <3>2 DEF Said
    <3>4. ~FigureOf(r).value.summed
      BY <2>2, <3>3, SaidOnce
    <3> QED BY <3>4 DEF FigureOf
  <2> QED BY <2>6, <2>7
<1>6. ASSUME NEW h \in held', h.released = 0
      PROVE  \E f \in Before(h.row.month)' : f.entity = Well /\ ~f.value.summed
  <2>1. CASE \E g \in held : h.row = g.row /\ h.released = IF g.row \in s.closed THEN s.day ELSE g.released
    <3>1. PICK g \in held : h.row = g.row /\ h.released = IF g.row \in s.closed THEN s.day ELSE g.released
      BY <2>1
    <3>2. s.day # 0
      BY <1>1 DEF Day
    <3>3. g.row \notin s.closed /\ g.released = 0
      BY <1>6, <3>1, <3>2
    <3>4. \A r \in s.rows : r.entity = Well /\ r.month = g.row.month => ~r.value.summed
      BY <3>3 DEF Closes
    <3>5. \E f \in Before(g.row.month) : f.entity = Well /\ ~f.value.summed
      BY <3>3 DEF Collisions
    <3> QED BY <3>1, <3>4, <3>5, <1>4
  <2>2. CASE h.row \in New(p)
    BY <2>2, <1>4, <1>5
  <2> QED BY <2>1, <2>2, CommitTyped
<1>7. ASSUME NEW h \in held', h.released # 0
      PROVE  \E r \in canonical' : /\ r.entity = Well /\ r.month = h.row.month
                                   /\ r.vintage = h.released /\ r.value.summed
  <2>1. CASE h.row \in s.closed /\ h.released = s.day
    <3>1. PICK r \in s.rows : r.entity = Well /\ r.month = h.row.month /\ r.value.summed
      BY <2>1 DEF Closes
    <3> QED BY <1>1, <2>1, <3>1
  <2>2. CASE \E g \in held : h.row = g.row /\ h.released = g.released
    <3>1. PICK r \in canonical : /\ r.entity = Well /\ r.month = h.row.month
                                 /\ r.vintage = h.released /\ r.value.summed
      BY <1>7, <2>2 DEF Collisions
    <3> QED BY <1>1, <3>1
  <2> QED BY <1>7, <2>1, <2>2, CommitTyped
<1> QED BY <1>6, <1>7 DEF Collisions

LEMMA CommitSolo ==
    ASSUME Base, Keys, Solo, NEW p \in Run, Commit(p)
    PROVE  Solo'
<1>1. /\ \A q \in Run : proc'[q] = IF q = p THEN Idle ELSE proc[q]
      /\ proc[p].pc = "vintage" /\ overlapped' = overlapped /\ Idle.pc = "idle"
  BY CommitTyped DEF Commit, Idle
<1>2. ASSUME ~overlapped
      PROVE  AtRest' /\ \A q \in Run : proc'[q].pc = "idle"
  <2>1. Alone(proc[p]) /\ Counts(proc[p]) /\ Closes(proc[p]) /\ AtRest
    BY <1>1, <1>2 DEF Solo
  <2>2. Changes'
    BY <2>1, CommitChanges DEF AtRest
  <2>3. IsFiniteSet(canonical') /\ \A d \in Day : Booked(d)'
    BY <2>1, CommitBooked DEF AtRest
  <2>4. Collisions'
    BY <2>1, CommitCollisions DEF AtRest
  <2>5. \A q \in Run : proc'[q].pc = "idle"
    BY <1>1, <1>2 DEF Solo
  <2> QED BY <2>2, <2>3, <2>4, <2>5 DEF AtRest
<1> QED BY <1>1, <1>2 DEF Solo

(* A midnight changes nothing that is told here *)
LEMMA StutterSolo ==
    ASSUME Solo, UNCHANGED <<canonical, held, vintages, proc, overlapped>>
    PROVE  Solo'
<1> SUFFICES ASSUME ~overlapped
             PROVE  /\ \A p, q \in Run : proc'[p].pc # "idle" /\ proc'[q].pc # "idle" => p = q
                    /\ \A p \in Run : proc'[p].pc # "idle" =>
                          Alone(proc[p])' /\ Counts(proc[p])' /\ Closes(proc[p])'
                    /\ AtRest'
  BY DEF Solo
<1>1. /\ \A m : Before(m)' = Before(m)
      /\ \A r : Older(r)' = Older(r)
  BY DEF Before, Older
<1>2. \A p \in Run : proc[p].pc # "idle" => Alone(proc[p]) /\ Counts(proc[p]) /\ Closes(proc[p])
  BY DEF Solo
<1>3. ASSUME NEW p \in Run, proc[p].pc # "idle"
      PROVE  Alone(proc[p])' /\ Counts(proc[p])' /\ Closes(proc[p])'
  <2>1. Alone(proc[p])'
    BY <1>1, <1>2, <1>3 DEF Alone
  <2>2. Counts(proc[p])'
    BY <1>1, <1>2, <1>3 DEF Counts
  <2>3. Closes(proc[p])'
    BY <1>2, <1>3 DEF Closes
  <2> QED BY <2>1, <2>2, <2>3
<1>4. AtRest'
  <2>1. AtRest
    BY DEF Solo
  <2>2. Changes'
    BY <2>1 DEF AtRest, Changes
  <2>3. \A d \in Day : Booked(d)'
    BY <2>1, <1>1 DEF AtRest, Booked, AtDay
  <2>4. Collisions'
    BY <2>1, <1>1 DEF AtRest, Collisions
  <2> QED BY <2>1, <2>2, <2>3, <2>4 DEF AtRest
<1> QED BY <1>3, <1>4 DEF Solo

LEMMA NextSolo == Base /\ Keys /\ Solo /\ [Next]_vars => Solo'
<1> SUFFICES ASSUME Base, Keys, Solo, [Next]_vars PROVE Solo'
  OBVIOUS
<1>1. CASE Midnight \/ UNCHANGED vars
  BY <1>1, StutterSolo DEF Midnight, vars
<1>2. ASSUME NEW p \in Run, OpenIngest(p) PROVE Solo'
  <2>1. Opened(p, "fetch", FALSE, {}) /\ "fetch" \in {"fetch", "stage"}
    BY <1>2 DEF OpenIngest
  <2> QED BY <2>1, OpenedSolo
<1>3. ASSUME NEW p \in Run, OpenRepromote(p) PROVE Solo'
  <2>1. PICK chosen : Opened(p, "stage", TRUE, chosen)
    BY <1>3, Reopened
  <2>2. "stage" \in {"fetch", "stage"}
    OBVIOUS
  <2> QED BY <2>1, <2>2, OpenedSolo
<1>4. ASSUME NEW p \in Run, Refuse(p) \/ Fail(p) PROVE Solo'
  BY <1>4, IdleSolo DEF Refuse, Fail
<1>5. ASSUME NEW p \in Run, Fetch(p) \/ Stage(p) \/ Check(p) \/ AppendCanonical(p)
                            \/ ReadCounters(p) \/ Commit(p)
      PROVE  Solo'
  BY <1>5, FetchSolo, StageSolo, CheckSolo, AppendSolo, ReadCountersSolo, CommitSolo
<1> QED BY <1>1, <1>2, <1>3, <1>4, <1>5 DEF Next

(* No two rows share the primary key, and the runs that never overlapped    *)
(* read, append, count and close as if each had the store to itself.       *)
THEOREM PromotionsInTurn == Spec => [](Base /\ Keys /\ Solo)
<1>1. Init => Base /\ Keys /\ Solo
  BY InitBase, InitSolo
<1>2. Base /\ Keys /\ Solo /\ [Next]_vars => (Base /\ Keys /\ Solo)'
  BY NextBase, NextKeys, NextSolo
<1> QED BY <1>1, <1>2, PTL DEF Spec

(* An as-of read that finds a row answers with the latest of them. *)
LEMMA AnswerIsLatest ==
    ASSUME NEW rows \in SUBSET Row, rows # {}
    PROVE  /\ \E l \in Latest(rows) : Answer(rows) = l.value
           /\ Answer(rows) # NoReport
<1>1. PICK r \in rows : TRUE
  OBVIOUS
<1>2. Latest(rows) # {}
  BY <1>1, LatestExists
<1>3. PICK l \in Latest(rows) : Answer(rows) = l.value
  BY <1>2 DEF Answer
<1>4. l.value \in Value
  BY DEF Latest, Row
<1>5. l.value.level # "none"
  BY <1>4 DEF Value
<1>6. NoReport.level = "none"
  BY DEF NoReport
<1> QED BY <1>3, <1>5, <1>6

LEMMA ReadAsOfTyped ==
    ASSUME Base, NEW x, NEW e, NEW m
    PROVE  ReadAsOf(x, e, m) \in SUBSET Row
BY DEF ReadAsOf, Base, TypeOK

(* Of runs that never overlapped, two vintages of one figure that follow    *)
(* each other differ (unchanged_removed).                                  *)
THEOREM OnlyChangesArePublished == Spec => []ChangeOnly
<1>1. Solo => ChangeOnly
  BY DEF Solo, AtRest, Changes, ChangeOnly
<1> QED BY <1>1, PromotionsInTurn, PTL

(* Of runs that never overlapped, the row of a vintage-day counts what      *)
(* canonical holds at the vintage (record_vintage_day).                    *)
THEOREM VintageRowsAreLedgers == Spec => []LedgerOfTheDay
<1>1. Base /\ Solo => LedgerOfTheDay
  <2> SUFFICES ASSUME Base, Solo, ~overlapped, NEW d \in Day
               PROVE  /\ vintages[d].appended = Cardinality(AtDay(d))
                      /\ vintages[d].restated =
                           Cardinality({r \in AtDay(d) : AsOf(d - 1, r.entity, r.month) # NoReport})
                      /\ {r.workbook : r \in AtDay(d)} \subseteq vintages[d].manifests
    BY DEF LedgerOfTheDay
  <2>1. Booked(d)
    BY DEF Solo, AtRest
  <2>2. ASSUME NEW r \in AtDay(d)
        PROVE  AsOf(d - 1, r.entity, r.month) # NoReport <=> Older(r)
    <3> DEFINE rows == ReadAsOf(d - 1, r.entity, r.month)
    <3>1. AsOf(d - 1, r.entity, r.month) = Answer(rows)
      BY AsOfReads
    <3>2. rows \in SUBSET Row
      BY ReadAsOfTyped
    <3>3. rows # {} <=> Older(r)
      <4>1. r.vintage = d /\ d \in Nat /\ \A s \in canonical : s.vintage \in Nat
        BY DEF AtDay, Base, TypeOK, Row, Day
      <4>2. \A s \in canonical : s.vintage <= d - 1 <=> s.vintage < r.vintage
        BY <4>1
      <4> QED BY <4>2 DEF ReadAsOf, Older
    <3>4. rows = {} => Answer(rows) = NoReport
      BY DEF Answer
    <3> HIDE DEF rows
    <3> QED BY <3>1, <3>2, <3>3, <3>4, AnswerIsLatest
  <2>3. {r \in AtDay(d) : AsOf(d - 1, r.entity, r.month) # NoReport} = {r \in AtDay(d) : Older(r)}
    BY <2>2
  <2> QED BY <2>1, <2>3 DEF Booked
<1> QED BY <1>1, PromotionsInTurn, PTL

(* Of runs that never overlapped, a collision is closed only by a vintage   *)
(* whose day reads the well as the sum of its pools                        *)
(* (supersede_pool_collisions).                                            *)
THEOREM ClosedReadsAsTheSum == Spec => []ClosedIsDisclosed
<1>1. Base /\ Keys /\ Solo => ClosedIsDisclosed
  <2> SUFFICES ASSUME Base, Keys, Solo, ~overlapped, NEW h \in held, h.released # 0
               PROVE  AsOf(h.released, Well, h.row.month).summed
    BY DEF ClosedIsDisclosed
  <2> DEFINE rows == ReadAsOf(h.released, Well, h.row.month)
  <2>1. PICK r \in canonical : /\ r.entity = Well /\ r.month = h.row.month
                               /\ r.vintage = h.released /\ r.value.summed
    BY DEF Solo, AtRest, Collisions
  <2>2. r \in rows /\ r.vintage \in Nat /\ rows \in SUBSET Row
    <3>1. r.vintage \in Nat
      BY DEF Base, TypeOK, Row, Day
    <3> QED BY <2>1, <3>1, ReadAsOfTyped DEF ReadAsOf
  <2>3. PICK l \in Latest(rows) : Answer(rows) = l.value
    BY <2>2, AnswerIsLatest
  <2>4. /\ l \in canonical /\ l.entity = Well /\ l.month = h.row.month
        /\ l.vintage <= h.released /\ r.vintage <= l.vintage /\ l.vintage \in Nat
    BY <2>1, <2>2, <2>3 DEF Latest, ReadAsOf, Row, Day
  <2>5. l.vintage = r.vintage
    BY <2>1, <2>2, <2>4
  <2>6. l = r
    BY <2>1, <2>4, <2>5 DEF Keys, SameKey
  <2>7. AsOf(h.released, Well, h.row.month) = r.value
    BY <2>3, <2>6, AsOfReads
  <2> QED BY <2>1, <2>7
<1> QED BY <1>1, PromotionsInTurn, PTL

-----------------------------------------------------------------------------
(* The history: opening begins a promotion, a rollback ends one, a commit    *)
(* publishes what the workbooks of its run report, and nothing else shows. *)

OpenedOn == [p \in Run |-> proc[p].day]
Served   == [x \in Day |-> [fact \in Entity \X Month |-> AsOf(x, fact[1], fact[2])]]

HistoryStep == [History!Next]_<<today, OpenedOn, ~overlapped, Served>>

(* The rows an as-of read finds have one entity and month, so one is latest. *)
LEMMA AnswerOfLatest ==
    ASSUME NEW rows \in SUBSET Row, NEW e, NEW m, \A r \in rows : r.entity = e /\ r.month = m,
           \A r, s \in rows : SameKey(r, s) => r = s, NEW l \in Latest(rows)
    PROVE  Answer(rows) = l.value
<1>1. rows # {}
  BY DEF Latest
<1>2. PICK k \in Latest(rows) : Answer(rows) = k.value
  BY <1>1, AnswerIsLatest
<1>3. /\ k \in rows /\ l \in rows /\ k.vintage <= l.vintage /\ l.vintage <= k.vintage
      /\ k.vintage \in Nat /\ l.vintage \in Nat
  BY DEF Latest, Row, Day
<1>4. k.vintage = l.vintage
  BY <1>3
<1>5. k = l
  BY <1>3, <1>4 DEF SameKey
<1> QED BY <1>2, <1>5

(* What a set of workbooks, one a month, reports. *)
LEMMA Reported ==
    ASSUME NEW S \in OnePerMonth, NEW k \in BOOLEAN
    PROVE  /\ \A fact : fact \in DOMAIN ReportOf(S, k) <=>
                 \E w \in S : \E g \in Said(w, k) : fact = <<g.entity, MonthOf[w]>>
           /\ \A w \in S : \A g \in Said(w, k) : ReportOf(S, k)[<<g.entity, MonthOf[w]>>] = g.value
<1> DEFINE facts == UNION {{<<f.entity, MonthOf[w]>> : f \in Said(w, k)} : w \in S}
           of(fact) == UNION {Said(w, k) : w \in {v \in S : MonthOf[v] = fact[2]}}
           told(fact) == (CHOOSE f \in of(fact) : f.entity = fact[1]).value
<1>1. ReportOf(S, k) = [fact \in facts |-> told(fact)]
  BY Zenon DEF ReportOf, Said
<1>2. \A fact : fact \in facts <=> \E w \in S : \E g \in Said(w, k) : fact = <<g.entity, MonthOf[w]>>
  OBVIOUS
<1>3. S \subseteq Workbook /\ \A v, w \in S : MonthOf[v] = MonthOf[w] => v = w
  BY DEF OnePerMonth
<1>4. ASSUME NEW w \in S, NEW g \in Said(w, k)
      PROVE  told(<<g.entity, MonthOf[w]>>) = g.value
  <2> DEFINE fact == <<g.entity, MonthOf[w]>>
  <2>1. fact[1] = g.entity /\ fact[2] = MonthOf[w]
    OBVIOUS
  <2>2. {v \in S : MonthOf[v] = fact[2]} = {w}
    BY <1>3, <2>1
  <2>3. of(fact) = Said(w, k)
    BY <2>2
  <2>4. \A f \in Said(w, k) : f.entity = g.entity => f = g
    BY <1>3, SaidOnce
  <2> HIDE DEF of, fact
  <2>5. (CHOOSE f \in of(fact) : f.entity = fact[1]) = g
    BY <2>1, <2>3, <2>4
  <2> QED BY <2>5 DEF fact
<1> HIDE DEF facts, told
<1> QED BY <1>1, <1>2, <1>4

(* The day of a transaction tells whether it is open. *)
LEMMA OpenDays ==
    ASSUME Base, NEW p \in Run
    PROVE  proc[p].day = 0 <=> proc[p].pc = "idle"
<1>1. Running(proc[p]) /\ today \in Nat
  BY DEF Base, TypeOK, Day
<1> QED BY <1>1 DEF Running, Idle

LEMMA BeginRefines ==
    ASSUME Base, NEW p \in Run, NEW step \in {"fetch", "stage"}, NEW again, NEW todo,
           Opened(p, step, again, todo)
    PROVE  HistoryStep
<1> DEFINE x == [Idle EXCEPT !.pc = step, !.day = today, !.again = again, !.todo = todo]
<1>1. x.day = today
  BY DEF Idle
<1>2. /\ proc' = [proc EXCEPT ![p] = x] /\ proc[p].pc = "idle" /\ UNCHANGED <<today, canonical>>
      /\ overlapped' = (overlapped \/ Others(p) # {}) /\ proc \in [Run -> Process]
  BY DEF Opened, Base, TypeOK
<1> HIDE DEF x
<1>3. OpenedOn[p] = 0 /\ OpenedOn' = [OpenedOn EXCEPT ![p] = today]
  BY <1>1, <1>2, OpenDays DEF OpenedOn
<1>4. Others(p) = {} <=> \A q \in Run : OpenedOn[q] = 0
  BY <1>2, OpenDays DEF Others, OpenedOn
<1>5. (~overlapped)' = (~overlapped /\ \A q \in Run : OpenedOn[q] = 0)
  BY <1>2, <1>4
<1>6. Served' = Served
  BY <1>2 DEF Served, AsOf
<1>7. History!Begin(p)
  BY <1>2, <1>3, <1>5, <1>6 DEF History!Begin, OpenedOn, Served
<1> QED BY <1>7 DEF HistoryStep, History!Next

LEMMA EndRefines ==
    ASSUME Base, NEW p \in Run, proc[p].pc # "idle", proc' = [proc EXCEPT ![p] = Idle],
           UNCHANGED <<today, canonical, overlapped>>
    PROVE  HistoryStep
<1>1. proc \in [Run -> Process] /\ Idle.day = 0
  BY DEF Base, TypeOK, Idle
<1>2. OpenedOn[p] # 0 /\ OpenedOn' = [OpenedOn EXCEPT ![p] = 0]
  BY <1>1, OpenDays DEF OpenedOn
<1>3. Served' = Served
  BY DEF Served, AsOf
<1>4. History!End(p)
  BY <1>2, <1>3 DEF History!End, OpenedOn, Served
<1> QED BY <1>4 DEF HistoryStep, History!Next

LEMMA UnseenRefines ==
    ASSUME \A q \in Run : proc'[q].day = proc[q].day, UNCHANGED <<today, canonical, overlapped>>
    PROVE  HistoryStep
<1>1. OpenedOn' = OpenedOn
  BY DEF OpenedOn
<1>2. Served' = Served
  BY DEF Served, AsOf
<1> QED BY <1>1, <1>2 DEF HistoryStep

(* What an answer becomes when a run commits: it stays, unless the run       *)
(* reports the fact.                                                        *)
LEMMA CommitTells ==
    ASSUME Base, Keys, NEW p \in Run, Commit(p), NEW x \in Day, NEW e, NEW m
    PROVE  LET f    == ReportOf(proc[p].promoted, Keyed(p))
               told == IF <<e, m>> \in DOMAIN f THEN f[<<e, m>>] ELSE AsOf(x, e, m)
           IN  /\ x < proc[p].day => AsOf(x, e, m)' = AsOf(x, e, m)
               /\ AsOf(x, e, m)' \in {AsOf(x, e, m), told}
               /\ Alone(proc[p]) /\ ~(x < proc[p].day) => AsOf(x, e, m)' = told
<1> DEFINE s == proc[p]
           f == ReportOf(s.promoted, Keyed(p))
           told == IF <<e, m>> \in DOMAIN f THEN f[<<e, m>>] ELSE AsOf(x, e, m)
           old == ReadAsOf(x, e, m)
           new == ReadAsOf(x, e, m)'
           own == {r \in s.rows : r.entity = e /\ r.month = m}
<1>1. /\ canonical' = canonical \cup s.rows /\ s \in Process /\ s.day \in Day /\ s.rows \subseteq Row
      /\ s.promoted \subseteq Workbook /\ Keyed(p) = KeyedOn(s.day) /\ Keyed(p) \in BOOLEAN
  <2>1. /\ canonical' = canonical \cup s.rows /\ s.pc = "vintage"
    BY DEF Commit
  <2>2. /\ s \in Process /\ s.day \in Day
    BY CommitTyped
  <2>3. s.rows \subseteq Row /\ s.promoted \subseteq Workbook
    BY <2>2 DEF Process
  <2>4. Keyed(p) = KeyedOn(s.day) /\ Keyed(p) \in BOOLEAN
    BY DEF Keyed, KeyedOn
  <2> QED BY <2>1, <2>2, <2>3, <2>4
<1>2. /\ Base' /\ Keys' /\ Running(s) /\ Wrote(s)
  <2>1. [Next]_vars
    BY DEF Next
  <2>2. Base' /\ Keys'
    BY <2>1, NextBase, NextKeys
  <2>3. Running(s) /\ Wrote(s)
    BY DEF Base
  <2> QED BY <2>2, <2>3
<1>3. AsOf(x, e, m) = Answer(old) /\ AsOf(x, e, m)' = Answer(new)
  BY AsOfReads
<1>4. s.promoted \in OnePerMonth
  BY <1>1, <1>2 DEF OnePerMonth, Running
<1>5. /\ \A fact : fact \in DOMAIN f <=>
            \E w \in s.promoted : \E g \in Said(w, Keyed(p)) : fact = <<g.entity, MonthOf[w]>>
      /\ \A w \in s.promoted : \A g \in Said(w, Keyed(p)) : f[<<g.entity, MonthOf[w]>>] = g.value
  BY <1>1, <1>4, Reported
<1> HIDE DEF f
<1>6. \A r \in own : /\ r.vintage = s.day /\ r.workbook \in s.promoted /\ r.month = MonthOf[r.workbook]
                     /\ FigureOf(r) \in Said(r.workbook, Keyed(p))
                     /\ <<e, m>> \in DOMAIN f /\ f[<<e, m>>] = r.value
  <2> SUFFICES ASSUME NEW r \in own
               PROVE  /\ r.vintage = s.day /\ r.workbook \in s.promoted /\ r.month = MonthOf[r.workbook]
                      /\ FigureOf(r) \in Said(r.workbook, Keyed(p))
                      /\ <<e, m>> \in DOMAIN f /\ f[<<e, m>>] = r.value
    OBVIOUS
  <2>1. /\ r.vintage = s.day /\ r.workbook \in s.promoted /\ r.month = MonthOf[r.workbook]
        /\ FigureOf(r) \in Said(r.workbook, Keyed(p)) /\ r.entity = e /\ r.month = m
    BY <1>1, <1>2 DEF Wrote
  <2>2. FigureOf(r).entity = e /\ FigureOf(r).value = r.value
    BY <2>1 DEF FigureOf
  <2> QED BY <1>5, <2>1, <2>2
<1>7. /\ \A r \in own : x < s.day => ~(r.vintage <= x)
      /\ ~(x < s.day) => \A r \in own : r.vintage <= x
  BY <1>1, <1>6 DEF Day
<1>8. /\ new = old \cup {r \in own : r.vintage <= x} /\ old \subseteq canonical
      /\ \A r \in new : r \in Row /\ r.entity = e /\ r.month = m
      /\ \A r, t \in new : SameKey(r, t) => r = t
  <2>1. new = old \cup {r \in own : r.vintage <= x} /\ old \subseteq canonical
    BY <1>1 DEF ReadAsOf
  <2>2. \A r \in new : r \in canonical' /\ r.entity = e /\ r.month = m
    BY DEF ReadAsOf
  <2>3. /\ canonical' \subseteq Row
        /\ \A r, t \in canonical' : SameKey(r, t) => r = t
    BY <1>2 DEF Base, TypeOK, Keys
  <2> HIDE DEF new, SameKey
  <2> QED BY <2>1, <2>2, <2>3
<1> HIDE DEF new, old, own, told
<1>9. x < s.day \/ own = {} => AsOf(x, e, m)' = AsOf(x, e, m)
  <2>1. x < s.day \/ own = {} => new = old
    BY <1>7, <1>8
  <2> QED BY <1>3, <2>1
<1>10. \A l \in Latest(new) : Answer(new) = l.value
  BY <1>8, AnswerOfLatest
<1>11. ASSUME ~(x < s.day), NEW r \in own
       PROVE  /\ r \in new /\ \A t \in new : t \in own => t = r
              /\ told = r.value
  <2>1. r \in new
    BY <1>7, <1>8, <1>11
  <2>2. \A t \in new : t \in own => SameKey(t, r)
    BY <1>6, <1>8, <1>11, <2>1 DEF SameKey
  <2> QED BY <1>6, <1>8, <1>11, <2>1, <2>2 DEF told
<1>12. ASSUME ~(x < s.day), own # {}
       PROVE  AsOf(x, e, m)' \in {AsOf(x, e, m), told}
  <2>1. PICK r \in own : TRUE
    BY <1>12
  <2>2. r \in new /\ (\A t \in new : t \in own => t = r) /\ told = r.value
    BY <1>11, <1>12
  <2>3. new \in SUBSET Row
    BY <1>8
  <2>4. PICK l \in Latest(new) : l.entity = r.entity
    BY <2>2, <2>3, LatestExists
  <2>5. Answer(new) = l.value /\ l \in new
    BY <2>4, <1>10 DEF Latest
  <2>6. CASE l \in own
    BY <2>2, <2>5, <2>6, <1>3
  <2>7. CASE l \notin own
    <3>1. l \in old /\ old \subseteq new
      BY <1>8, <2>5, <2>7
    <3>2. l \in Latest(old)
      BY <2>4, <3>1 DEF Latest
    <3>3. Answer(old) = l.value
      BY <1>8, <3>1, <3>2, AnswerOfLatest
    <3> QED BY <2>5, <3>3, <1>3
  <2> QED BY <2>6, <2>7
<1>13. ASSUME ~(x < s.day), Alone(s), own # {}
       PROVE  AsOf(x, e, m)' = told
  <2>1. PICK r \in own : TRUE
    BY <1>13
  <2>2. r \in new /\ (\A t \in new : t \in own => t = r) /\ told = r.value
    BY <1>11, <1>13
  <2>3. \A t \in canonical : t.entity = r.entity /\ t.month = r.month => t.vintage < r.vintage
    BY <2>1, <1>13, CommitAlone DEF own
  <2>4. \A t \in new : t.vintage <= r.vintage
    <3>1. \A t \in new : t \in own \/ t \in canonical
      BY <1>8
    <3>2. \A t \in new : t.vintage \in Nat /\ t.entity = r.entity /\ t.month = r.month
      BY <1>8, <2>2 DEF Row, Day
    <3> QED BY <2>2, <2>3, <3>1, <3>2
  <2>5. r \in Latest(new)
    BY <2>2, <2>4 DEF Latest
  <2> QED BY <2>2, <2>5, <1>3, <1>10
<1>14. ASSUME ~(x < s.day), Alone(s), own = {}
       PROVE  AsOf(x, e, m)' = told
  <2>1. CASE <<e, m>> \notin DOMAIN f
    BY <1>9, <1>14, <2>1 DEF told
  <2>2. CASE <<e, m>> \in DOMAIN f
    <3>0. PICK w \in s.promoted : \E g \in Said(w, Keyed(p)) : <<e, m>> = <<g.entity, MonthOf[w]>>
      BY <1>5, <2>2
    <3>1. PICK g \in Said(w, Keyed(p)) : <<e, m>> = <<g.entity, MonthOf[w]>>
      BY <3>0
    <3>2. told = g.value /\ g.entity = e /\ MonthOf[w] = m
      BY <1>5, <2>2, <3>1 DEF told
    <3>3. g \in Before(m)
      <4>1. ~ \E r \in s.rows : FigureOf(r) = g /\ r.month = m
        BY <1>14, <3>2 DEF own, FigureOf
      <4> QED BY <1>1, <1>14, <3>1, <3>2, <4>1 DEF Alone
    <3>4. PICK r \in canonical : FigureOf(r) = g /\ r.month = m /\ Newest(r)
      BY <3>3, BeforeRows
    <3>5. r.entity = e /\ r.value = g.value
      BY <3>2, <3>4 DEF FigureOf
    <3>6. r.vintage <= x
      <4>1. r.vintage <= s.day /\ r.vintage \in Nat /\ s.day \in Nat /\ x \in Nat
        BY <1>1, <1>14 DEF Alone, Base, TypeOK, Row, Day
      <4> QED BY <4>1, <1>14
    <3>7. r \in old /\ new = old
      BY <1>8, <1>14, <3>4, <3>5, <3>6 DEF old, ReadAsOf
    <3>8. r \in Latest(new)
      BY <3>4, <3>7, <1>8, <3>5 DEF Latest, Newest
    <3> QED BY <3>2, <3>5, <3>8, <1>3, <1>10
  <2> QED BY <2>1, <2>2
<1>15. /\ x < s.day => AsOf(x, e, m)' = AsOf(x, e, m)
       /\ AsOf(x, e, m)' \in {AsOf(x, e, m), told}
       /\ Alone(s) /\ ~(x < s.day) => AsOf(x, e, m)' = told
  BY <1>9, <1>12, <1>13, <1>14
<1> QED BY <1>15 DEF told, f

LEMMA CommitRefines ==
    ASSUME Base, Keys, Solo, NEW p \in Run, Commit(p)
    PROVE  HistoryStep
<1> DEFINE f == ReportOf(proc[p].promoted, Keyed(p))
           Fact == Entity \X Month
<1>1. /\ proc[p].pc = "vintage" /\ proc[p] \in Process /\ UNCHANGED <<today, overlapped>>
      /\ proc' = [proc EXCEPT ![p] = Idle] /\ proc \in [Run -> Process] /\ Idle.day = 0
      /\ Running(proc[p])
  BY CommitTyped DEF Commit, Base, TypeOK, Idle
<1>2. OpenedOn[p] # 0 /\ OpenedOn' = [OpenedOn EXCEPT ![p] = 0] /\ OpenedOn[p] = proc[p].day
  BY <1>1, OpenDays DEF OpenedOn
<1>3. ~overlapped => Alone(proc[p])
  BY <1>1 DEF Solo
<1>4. f \in {ReportOf(S, keyed) : S \in OnePerMonth, keyed \in BOOLEAN}
  <2>1. proc[p].promoted \in OnePerMonth /\ Keyed(p) \in BOOLEAN
    BY <1>1 DEF OnePerMonth, Running, Process, Keyed
  <2> QED BY <2>1
<1>5. ASSUME NEW x \in Day, NEW fact \in Fact
      PROVE  /\ Served[x][fact] = AsOf(x, fact[1], fact[2])
             /\ Served'[x][fact] = AsOf(x, fact[1], fact[2])'
             /\ fact = <<fact[1], fact[2]>>
  BY DEF Served
<1> HIDE DEF f
<1>6. ASSUME NEW x \in Day, NEW fact \in Fact
      PROVE  IF x < OpenedOn[p] THEN Served'[x][fact] = Served[x][fact]
             ELSE IF ~overlapped THEN Served'[x][fact] = History!Told(f, fact, Served[x][fact])
             ELSE Served'[x][fact] \in {Served[x][fact], History!Told(f, fact, Served[x][fact])}
  <2> DEFINE e == fact[1]
             m == fact[2]
             told == IF <<e, m>> \in DOMAIN f THEN f[<<e, m>>] ELSE AsOf(x, e, m)
  <2>1. /\ x < proc[p].day => AsOf(x, e, m)' = AsOf(x, e, m)
        /\ AsOf(x, e, m)' \in {AsOf(x, e, m), told}
        /\ Alone(proc[p]) /\ ~(x < proc[p].day) => AsOf(x, e, m)' = told
    <3> HIDE DEF e, m
    <3> QED BY CommitTells DEF f
  <2>2. told = History!Told(f, fact, Served[x][fact])
    BY <1>5 DEF History!Told
  <2>3. Served[x][fact] = AsOf(x, e, m) /\ Served'[x][fact] = AsOf(x, e, m)'
    BY <1>5
  <2> HIDE DEF told, e, m
  <2> QED BY <1>2, <1>3, <2>1, <2>2, <2>3
<1>7. History!Publish(p)
  BY <1>1, <1>2, <1>4, <1>6 DEF History!Publish, History!Days, Day, OpenedOn, Served, f
<1> QED BY <1>7 DEF HistoryStep, History!Next

(* A step inside a transaction keeps the day it was opened on. *)
LEMMA DaysQuiet ==
    ASSUME Base, NEW p \in Run,
           \/ Stage(p) \/ Check(p) \/ AppendCanonical(p) \/ ReadCounters(p)
    PROVE  /\ \A q \in Run : proc'[q].day = proc[q].day
           /\ UNCHANGED <<today, canonical, overlapped>>
<1>1. proc \in [Run -> Process] /\ proc[p] \in Process
  BY DEF Base, TypeOK
<1>2. CASE Stage(p)
  BY <1>1, <1>2 DEF Stage, Process
<1>3. CASE Check(p)
  BY <1>1, <1>3 DEF Check, Process
<1>4. CASE AppendCanonical(p)
  <2>1. /\ \A q \in Run : q # p => proc'[q] = proc[q]
        /\ proc'[p].day = proc[p].day
        /\ UNCHANGED Store /\ overlapped' = overlapped
    BY <1>4, AppendShape
  <2> QED BY <2>1 DEF Store
<1>5. CASE ReadCounters(p)
  BY <1>1, <1>5 DEF ReadCounters, Process
<1> QED BY <1>2, <1>3, <1>4, <1>5

LEMMA FetchRefines ==
    ASSUME Base, NEW p \in Run, Fetch(p)
    PROVE  HistoryStep
<1>1. /\ proc \in [Run -> Process] /\ proc[p] \in Process /\ proc[p].pc # "idle"
      /\ UNCHANGED <<today, canonical, overlapped>>
  BY DEF Base, TypeOK, Fetch
<1>2. PICK w \in Workbook :
         proc' = [proc EXCEPT ![p] = IF w \in staged THEN Idle
                                     ELSE [@ EXCEPT !.pc = "stage", !.todo = {w}, !.loaded = {w}]]
  BY DEF Fetch
<1>3. CASE w \in staged
  BY <1>1, <1>2, <1>3, EndRefines
<1>4. CASE w \notin staged
  <2>1. \A q \in Run : proc'[q].day = proc[q].day
    BY <1>1, <1>2, <1>4 DEF Process
  <2> QED BY <1>1, <2>1, UnseenRefines
<1> QED BY <1>3, <1>4

LEMMA StepRefines == Base /\ Keys /\ Solo /\ [Next]_vars => HistoryStep
<1> SUFFICES ASSUME Base, Keys, Solo, [Next]_vars PROVE HistoryStep
  OBVIOUS
<1>1. CASE Midnight
  <2>1. OpenedOn' = OpenedOn /\ Served' = Served /\ (~overlapped)' = ~overlapped
    BY <1>1 DEF Midnight, OpenedOn, Served, AsOf
  <2>2. History!Midnight
    BY <1>1, <2>1 DEF Midnight, History!Midnight, OpenedOn, Served
  <2> QED BY <2>2 DEF HistoryStep, History!Next
<1>2. CASE UNCHANGED vars
  BY <1>2, UnseenRefines DEF vars
<1>3. ASSUME NEW p \in Run, OpenIngest(p) PROVE HistoryStep
  <2>1. Opened(p, "fetch", FALSE, {}) /\ "fetch" \in {"fetch", "stage"}
    BY <1>3 DEF OpenIngest
  <2> QED BY <2>1, BeginRefines
<1>4. ASSUME NEW p \in Run, OpenRepromote(p) PROVE HistoryStep
  <2>1. PICK chosen : Opened(p, "stage", TRUE, chosen)
    BY <1>4, Reopened
  <2>2. "stage" \in {"fetch", "stage"}
    OBVIOUS
  <2> QED BY <2>1, <2>2, BeginRefines
<1>5. ASSUME NEW p \in Run, Refuse(p) \/ Fail(p) PROVE HistoryStep
  <2>1. /\ proc[p].pc # "idle" /\ proc' = [proc EXCEPT ![p] = Idle]
        /\ UNCHANGED <<today, canonical, overlapped>>
    BY <1>5 DEF Refuse, Fail
  <2> QED BY <2>1, EndRefines
<1>6. ASSUME NEW p \in Run, Stage(p) \/ Check(p) \/ AppendCanonical(p) \/ ReadCounters(p)
      PROVE  HistoryStep
  <2>1. /\ \A q \in Run : proc'[q].day = proc[q].day
        /\ UNCHANGED <<today, canonical, overlapped>>
    BY <1>6, DaysQuiet
  <2> QED BY <2>1, UnseenRefines
<1>7. ASSUME NEW p \in Run, Fetch(p) \/ Commit(p) PROVE HistoryStep
  BY <1>7, FetchRefines, CommitRefines
<1> QED BY <1>1, <1>2, <1>3, <1>4, <1>5, <1>6, <1>7 DEF Next

(* The transactions implement the history of their as-of dates: one that    *)
(* was never beside another replaces exactly what its workbooks report,    *)
(* from the day it was opened on, and no step changes an earlier answer    *)
(* (vintages.py, lineage_session).                                         *)
THEOREM PromotionsKeepTheHistory == Spec => ImplementsHistory
<1>1. Init => History!Init
  <2> SUFFICES ASSUME Init PROVE History!Init
    OBVIOUS
  <2>1. OpenedOn = [p \in Run |-> 0]
    BY DEF Init, OpenedOn, Idle
  <2>2. \A x, e, m : AsOf(x, e, m) = NoReport
    BY DEF Init, AsOf
  <2>3. Served = [x \in Day |-> [fact \in Entity \X Month |-> NoReport]]
    BY <2>2 DEF Served
  <2> QED BY <2>1, <2>3 DEF Init, History!Init, History!Days, Day, OpenedOn, Served
<1>2. Base /\ Keys /\ Solo /\ [Next]_vars
      => [History!Next]_<<today, OpenedOn, ~overlapped, Served>>
  BY StepRefines DEF HistoryStep
<1> QED BY <1>1, <1>2, PromotionsInTurn, PTL
        DEF Spec, ImplementsHistory, History!HistorySpec, History!hvars, OpenedOn, Served
=============================================================================
