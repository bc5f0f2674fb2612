---------------------------- MODULE SourceHealth ----------------------------
(***************************************************************************)
(* The freshness verdict of status/models.py over the rows status/         *)
(* source_health.py selects from the ledger of FetchLedger: one source     *)
(* with a registered cadence, its attempts and its manifests.  The clock   *)
(* never goes back, so no timestamp lies in the future.                    *)
(***************************************************************************)
EXTENDS FetchLedger, FiniteSetsExt

CONSTANTS
    Interval,  \* expected_poll_interval, 0 for null
    Timeout    \* attempt_timeout

ASSUME HealthAssumption == Interval \in Nat /\ Timeout \in Nat

(* The latest attempt of each key: distinct on (source_key) *)
PolledKeys == {attempts[a].key : a \in DOMAIN attempts}
LatestOf(k) == Max({a \in DOMAIN attempts : attempts[a].key = k})
KeysWith(outcome) == {k \in PolledKeys : attempts[LatestOf(k)].outcome = outcome}

OpenLast   == KeysWith("open") \cap {attempts[Len(attempts)].key}
               \* mutant: a later poll of another key hides an open one
OpenKeys   == KeysWith("open")
OldestOpen == Min({attempts[LatestOf(k)].attempted : k \in OpenKeys})

(* Of a source whose latest attempts all succeeded *)
NextExpected == attempts[Len(attempts)].completed + Interval

(* A manifest is observed when it is fetched and when a poll confirms it *)
Observations ==
    {[at |-> manifests[x].fetched, rank |-> 0, manifest |-> x] :
        x \in {y \in Payload : manifests[y].txn = Committed}}
    \cup
    {[at |-> attempts[a].completed, rank |-> 1, manifest |-> attempts[a].manifest] :
        a \in {b \in DOMAIN attempts : attempts[b].outcome \in Success}}

Artifacts ==
    {o.manifest : o \in {n \in Observations : \A m \in Observations :
        m.at < n.at \/ (m.at = n.at /\ m.rank <= n.rank)}}

Loaded(x) == manifests[x].stamp = Committed
ArtifactUnloaded ==
    \E x \in Artifacts : /\ ~Loaded(x)
                         /\ x \in refusals \/ \E y \in Payload : Loaded(y)

(* source_freshness *)
Freshness ==
    IF attempts = <<>> THEN "pending"
    ELSE IF KeysWith("failed") # {} THEN "stale"
    ELSE IF OpenKeys # {} THEN IF clock - OldestOpen > Timeout THEN "stale" ELSE "pending"
    ELSE IF (Interval # 0 /\ clock > NextExpected) \/ ArtifactUnloaded THEN "stale"
    ELSE "current"

-----------------------------------------------------------------------------
IsOpen(a) == a \in DOMAIN attempts /\ attempts[a].outcome = "open"

(* An attempt nothing closes is reported: a poll that opened early enough   *)
(* for its timeout to pass is closed, superseded by a later poll of its    *)
(* key, or shown as stale ("later keys cannot turn interrupted work into   *)
(* success").                                       *)
OpenIsReported ==
    \A a \in AttemptId :
        (IsOpen(a) /\ attempts[a].attempted + Timeout < MaxTime)
        ~> \/ ~IsOpen(a)
           \/ LatestOf(attempts[a].key) # a
           \/ Freshness = "stale"
=============================================================================
