-------------------------- MODULE ProductionHistory --------------------------
(***************************************************************************)
(* What lineage/vintages.py promises of canonical production, without rows *)
(* or derivations: the answer of every as-of date, the promotions that are *)
(* running and the knowledge day each of them was opened on.               *)
(***************************************************************************)
EXTENDS Naturals

CONSTANTS
    Run,         \* promotions that may be running at once
    Fact,        \* what an answer is about: an entity's month
    MaxDay,
    Unknown,     \* the answer before any promotion
    Reports      \* what one promotion may compute: partial functions of Fact

VARIABLES
    today,
    opened,  \* the day each running promotion was opened on, 0 for none
    alone,   \* no promotion was ever opened beside another
    served   \* the answer of each as-of date

hvars == <<today, opened, alone, served>>

Days == 1..MaxDay

Init ==
    /\ today = 1
    /\ opened = [r \in Run |-> 0]
    /\ alone = TRUE
    /\ served = [x \in Days |-> [e \in Fact |-> Unknown]]

Midnight ==
    /\ today < MaxDay /\ today' = today + 1
    /\ UNCHANGED <<opened, alone, served>>

Begin(r) ==
    /\ opened[r] = 0
    /\ opened' = [opened EXCEPT ![r] = today]
    /\ alone' = (alone /\ \A q \in Run : opened[q] = 0)
    /\ UNCHANGED <<today, served>>

End(r) ==
    /\ opened[r] # 0
    /\ opened' = [opened EXCEPT ![r] = 0]
    /\ UNCHANGED <<today, alone, served>>

Told(f, e, before) == IF e \in DOMAIN f THEN f[e] ELSE before

(* A promotion that was always alone replaces what it reports from its own *)
(* day on; one that was not replaces part of it.  The past is never told   *)
(* again, and no answer appears that no workbook reported.                 *)
Publish(r) ==
    /\ opened[r] # 0
    /\ opened' = [opened EXCEPT ![r] = 0]
    /\ \E f \in Reports :
          \A x \in Days : \A e \in Fact :
              IF x < opened[r] THEN served'[x][e] = served[x][e]
              ELSE IF alone    THEN served'[x][e] = Told(f, e, served[x][e])
              ELSE served'[x][e] \in {served[x][e], Told(f, e, served[x][e])}
    /\ UNCHANGED <<today, alone>>

Next == Midnight \/ \E r \in Run : Begin(r) \/ End(r) \/ Publish(r)

HistorySpec == Init /\ [][Next]_hvars
=============================================================================
