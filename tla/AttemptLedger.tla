---------------------------- MODULE AttemptLedger ----------------------------
(***************************************************************************)
(* What migration 050 promises of lineage.fetch_attempts: an append-once   *)
(* ledger of source polls beside the manifests the ingests commit.  An     *)
(* attempt opens with no outcome, is closed at most once and then never    *)
(* changes; it is closed as a success only over a committed manifest, as   *)
(* unchanged only over one of its own key; a committed manifest is never   *)
(* withdrawn.                                                              *)
(***************************************************************************)
EXTENDS Naturals, Sequences

CONSTANTS Key, Payload, NoKey, NoPayload, Instant

VARIABLES
    attempts,  \* the rows, in insertion order
    published  \* the key each committed manifest belongs to, by its bytes

Open(k, at) ==
    /\ attempts' = Append(attempts, [key |-> k, attempted |-> at, completed |-> 0,
                                     outcome |-> "open", manifest |-> NoPayload])
    /\ UNCHANGED published

Close(a, outcome, x, at) ==
    /\ attempts[a].outcome = "open"
    /\ at >= attempts[a].attempted
    /\ attempts' = [attempts EXCEPT ![a] =
           [attempts[a] EXCEPT !.completed = at, !.outcome = outcome, !.manifest = x]]
    /\ UNCHANGED published

Succeed(a, outcome, x, at) ==
    /\ published[x] # NoKey
    /\ outcome = "unchanged" => published[x] = attempts[a].key
    /\ outcome \in {"new", "unchanged"}
    /\ Close(a, outcome, x, at)

Publish(rows) ==
    /\ \A x \in Payload : published[x] # NoKey => rows[x] = published[x]
    /\ published' = rows
    /\ UNCHANGED attempts

Init ==
    /\ attempts = <<>>
    /\ published = [x \in Payload |-> NoKey]

Next ==
    \/ \E k \in Key, at \in Instant : Open(k, at)
    \/ \E a \in DOMAIN attempts, at \in Instant :
          \/ Close(a, "failed", NoPayload, at)
          \/ \E x \in Payload, outcome \in {"new", "unchanged"} : Succeed(a, outcome, x, at)
    \/ \E rows \in [Payload -> Key \cup {NoKey}] : Publish(rows)

Spec == Init /\ [][Next]_<<attempts, published>>
=============================================================================
