------------------------------ MODULE RateWindow ------------------------------
(***************************************************************************)
(* The fixed windows of api/rate_limit.py: one row per principal and       *)
(* operation holds the last minute charged and its count.  A request reads *)
(* its minute, may wait for the lock on the row, and updates what it finds *)
(* there then.                                                             *)
(***************************************************************************)
EXTENDS Integers, FiniteSets

CONSTANTS Request, Limit, LastMinute

ASSUME LimitAssumption == Limit \in Nat \ {0} /\ LastMinute \in Nat

VARIABLES
    minute,
    row,      \* lineage.api_rate_windows: the window and its requests
    charges,  \* the requests inside consume_rate_limit
    granted   \* the requests let through, by the minute they were charged to

rateVars == <<minute, row, charges, granted>>

Unasked == -1

RateTypeOK ==
    /\ minute \in 0..LastMinute
    /\ row \in [window : 0..LastMinute, requests : 0..Limit]
    /\ charges \in [Request -> 0..LastMinute \cup {Unasked}]
    /\ granted \in [0..LastMinute -> Nat]

RateInit ==
    /\ minute = 0
    /\ row = [window |-> 0, requests |-> 0]  \* no row yet
    /\ charges = [c \in Request |-> Unasked]
    /\ granted = [m \in 0..LastMinute |-> 0]

-----------------------------------------------------------------------------
(* clock_timestamp() is read before the conflicting row is locked *)
Ask(c) ==
    /\ charges[c] = Unasked
    /\ charges' = [charges EXCEPT ![c] = minute]
    /\ UNCHANGED <<minute, row, granted>>

(* mutant: the window of a late request replaces a newer one *)
Takes(m) == row.window # m \/ row.requests < Limit

(* The where clause of the update: a newer minute, or room in this one *)
Admits(m) == row.window < m \/ (row.window = m /\ row.requests < Limit)

(* _CONSUME and the commit, or the refusal *)
Charge(c) ==
    LET m == charges[c] IN
    /\ m # Unasked
    /\ charges' = [charges EXCEPT ![c] = Unasked]
    /\ IF Admits(m)
       THEN /\ row' = [window |-> m, requests |-> IF row.window = m THEN row.requests + 1 ELSE 1]
            /\ granted' = [granted EXCEPT ![m] = @ + 1]
       ELSE UNCHANGED <<row, granted>>
    /\ UNCHANGED minute

Minute == minute < LastMinute /\ minute' = minute + 1 /\ UNCHANGED <<row, charges, granted>>

RateNext == Minute \/ \E c \in Request : Ask(c) \/ Charge(c)

RateSpec == RateInit /\ [][RateNext]_rateVars

-----------------------------------------------------------------------------
(* No minute lets more than its limit through, however late a request that  *)
(* read an older minute reaches the row (rate_limit.py, _CONSUME).         *)
WithinLimit == \A m \in 0..LastMinute : granted[m] <= Limit
=============================================================================
