----------------------------- MODULE FetchLedger -----------------------------
(***************************************************************************)
(* The polls of one source: lineage/fetch.py and lineage/manifests.py in   *)
(* the ingest's own transaction, lineage/fetch_attempts.py beside it on    *)
(* fresh autocommit connections, and the raw zone on disk.                 *)
(*                                                                         *)
(* A manifest row is its payload's content hash, so manifests is indexed   *)
(* by payload; txn says whose transaction the row belongs to until it      *)
(* commits, stamp the same of its staging_load_ref, and lock is the holder *)
(* of a row lock taken with "for update".                                  *)
(***************************************************************************)
EXTENDS Naturals, Sequences, FiniteSets

CONSTANTS
    Ingest,         \* ingest processes that may be alive at once
    Key,            \* the source keys of the source
    Payload,        \* the distinct bytes the upstream may serve
    Committing,     \* the ingests that commit between two polls
    Saving,         \* the ingests that commit what a failed transfer recorded
    MaxTime,        \* horizon of the clock
    MaxAttempts,    \* bound on polls
    MaxFaults,      \* bound on kills and lost commits
    NoKey, NoPayload, NoTxn, Committed

VARIABLES
    clock,
    manifests,  \* lineage.manifests, by payload
    refusals,   \* lineage.staging_load_failures
    files,      \* <<key, payload>> of the artifacts placed in the raw zone
    attempts,   \* lineage.fetch_attempts, in insertion order
    proc,       \* the ingest processes
    faults

vars == <<clock, manifests, refusals, files, attempts, proc, faults>>

Time      == 0..MaxTime
AttemptId == 1..MaxAttempts
NoAttempt == 0
Txn       == Ingest \cup {NoTxn, Committed}
Success   == {"new", "unchanged"}

Manifest ==
    [key : Key \cup {NoKey}, supersedes : Payload \cup {NoPayload}, fetched : Time,
     attempt : AttemptId \cup {NoAttempt}, sealed : BOOLEAN, txn : Txn, stamp : Txn,
     lock : Ingest \cup {NoTxn}]

Absent ==
    [key |-> NoKey, supersedes |-> NoPayload, fetched |-> 0, attempt |-> NoAttempt,
     sealed |-> FALSE, txn |-> NoTxn, stamp |-> NoTxn, lock |-> NoTxn]

Attempt ==
    [key : Key, attempted : Time, completed : Time,
     outcome : {"open", "failed"} \cup Success, manifest : Payload \cup {NoPayload}]

Candidate == [attempt : AttemptId, outcome : Success, manifest : Payload]

Process ==
    [pc : {"idle", "next", "begin", "download", "register", "insert", "seal",
           "broken", "unsealed", "raising", "leaving"},
     done : SUBSET Key, key : Key \cup {NoKey}, payload : Payload \cup {NoPayload},
     head : Payload \cup {NoPayload}, attempt : AttemptId \cup {NoAttempt},
     pending : SUBSET Candidate, sweep : SUBSET Candidate, raised : BOOLEAN]

Idle ==
    [pc |-> "idle", done |-> {}, key |-> NoKey, payload |-> NoPayload, head |-> NoPayload,
     attempt |-> NoAttempt, pending |-> {}, sweep |-> {}, raised |-> FALSE]

ASSUME FetchAssumption ==
    /\ Committing \subseteq Ingest /\ Saving \subseteq Ingest
    /\ MaxTime \in Nat /\ MaxAttempts \in Nat /\ MaxFaults \in Nat
    /\ NoKey \notin Key /\ NoPayload \notin Payload
    /\ NoTxn \notin Ingest /\ Committed \notin Ingest /\ NoTxn # Committed

TypeOK ==
    /\ clock \in Time
    /\ manifests \in [Payload -> Manifest]
    /\ refusals \subseteq Payload
    /\ files \subseteq Key \X Payload
    /\ attempts \in Seq(Attempt) /\ Len(attempts) <= MaxAttempts
    /\ proc \in [Ingest -> Process]
    /\ faults \in 0..MaxFaults

Init ==
    /\ clock = 0
    /\ manifests = [x \in Payload |-> Absent]
    /\ refusals = {}
    /\ files = {}
    /\ attempts = <<>>
    /\ proc = [p \in Ingest |-> Idle]
    /\ faults = 0

-----------------------------------------------------------------------------
(* Transactions, as PostgreSQL keeps them at read committed.               *)

Present(x)    == manifests[x].key # NoKey
Visible(p, x) == Present(x) /\ manifests[x].txn \in {Committed, p}

(* manifest_head, as p sees it *)
Heads(p, k) ==
    {h \in Payload : /\ Visible(p, h) /\ manifests[h].key = k
                     /\ \A y \in Payload : Visible(p, y) => manifests[y].supersedes # h}

Released(p, row) == IF row.lock = p THEN [row EXCEPT !.lock = NoTxn] ELSE row

CommitOf(p) ==
    [x \in Payload |-> Released(p, [manifests[x] EXCEPT
        !.txn   = IF @ = p THEN Committed ELSE @,
        !.stamp = IF @ = p THEN Committed ELSE @])]

RollbackOf(p) ==
    [x \in Payload |->
        IF manifests[x].txn = p THEN Absent
        ELSE Released(p, [manifests[x] EXCEPT !.stamp = IF @ = p THEN NoTxn ELSE @])]

InTransaction(p) ==
    \E x \in Payload : p \in {manifests[x].txn, manifests[x].stamp, manifests[x].lock}

(* mutant: manifests_supersedes_idx is dropped *)
SameBytes(p) == {y \in Payload : Present(y) /\ y = proc[p].payload}

(* Rows the two unique indexes of lineage.manifests set against an insert *)
Rivals(p) ==
    {y \in Payload : /\ Present(y)
                     /\ \/ y = proc[p].payload
                        \/ /\ proc[p].head # NoPayload
                           /\ manifests[y].supersedes = proc[p].head}

-----------------------------------------------------------------------------
(* FetchAttemptLedger, each statement on a connection of its own.          *)

Closed(a, outcome, x) ==
    [attempts EXCEPT ![a] = [attempts[a] EXCEPT
        !.completed = clock, !.outcome = outcome, !.manifest = x]]

(* mutant: asked on the ingest's own connection *)
VisibleToSelf(p, c) == Visible(p, c.manifest)

(* exists (select 1 from lineage.manifests ...), on another connection *)
Finalizable(p, c) == manifests[c.manifest].txn = Committed

(* The foreign key of fetch_attempts takes "for key share" on the manifest, *)
(* which waits for whoever holds it "for update", the ingest included.     *)
KeyShared(c) == manifests[c.manifest].lock = NoTxn

(* finalize_visible *)
Sweep(p) ==
    /\ proc[p].pc \in {"begin", "leaving"}
    /\ \E c \in proc[p].sweep :
          /\ \A d \in proc[p].sweep : c.attempt <= d.attempt
          /\ IF Finalizable(p, c)
             THEN /\ KeyShared(c)
                  /\ attempts' = Closed(c.attempt, c.outcome, c.manifest)
                  /\ proc' = [proc EXCEPT ![p].sweep = @ \ {c}, ![p].pending = @ \ {c}]
             ELSE /\ proc' = [proc EXCEPT ![p].sweep = @ \ {c}]
                  /\ UNCHANGED attempts
    /\ UNCHANGED <<clock, manifests, refusals, files, faults>>

(* begin, once it has swept *)
Begin(p) ==
    /\ proc[p].pc = "begin" /\ proc[p].sweep = {}
    /\ Len(attempts) < MaxAttempts
    /\ attempts' = Append(attempts, [key |-> proc[p].key, attempted |-> clock, completed |-> 0,
                                     outcome |-> "open", manifest |-> NoPayload])
    /\ proc' = [proc EXCEPT ![p].pc = "download", ![p].attempt = Len(attempts) + 1]
    /\ UNCHANGED <<clock, manifests, refusals, files, faults>>

(* What outlives a poll: the payload its load reads *)
Between(p) ==
    [proc[p] EXCEPT !.pc = "next", !.key = NoKey, !.head = NoPayload, !.attempt = NoAttempt]

(* the horizon: past MaxAttempts the remaining keys are not polled *)
BeginHorizon(p) ==
    /\ proc[p].pc = "begin" /\ proc[p].sweep = {}
    /\ Len(attempts) = MaxAttempts
    /\ proc' = [proc EXCEPT ![p] = Between(p)]
    /\ UNCHANGED <<clock, manifests, refusals, files, attempts, faults>>

(* mutant: fail_unresolved does not sweep first *)
Unswept(p) == proc[p].pc = "leaving" /\ proc[p].raised

(* fail_unresolved, once it has swept *)
Swept(p) == proc[p].pc = "leaving" /\ proc[p].raised /\ proc[p].sweep = {}

FailUnresolved(p) ==
    /\ Swept(p)
    /\ \E c \in proc[p].pending :
          /\ \A d \in proc[p].pending : c.attempt <= d.attempt
          /\ attempts' = Closed(c.attempt, "failed", NoPayload)
          /\ proc' = [proc EXCEPT ![p].pending = @ \ {c}, ![p].sweep = @ \ {c}]
    /\ UNCHANGED <<clock, manifests, refusals, files, faults>>

Exit(p) ==
    /\ proc[p].pc = "leaving" /\ proc[p].sweep = {}
    /\ proc[p].raised => proc[p].pending = {}
    /\ proc' = [proc EXCEPT ![p] = Idle]
    /\ UNCHANGED <<clock, manifests, refusals, files, attempts, faults>>

-----------------------------------------------------------------------------
(* One ingest: polls in turn, then the end of its transaction.             *)

(* The next key of the run's selection: a first poll opens the run, and no  *)
(* main polls a key again but to retry a failed transfer                   *)
Poll(p, k) ==
    /\ proc[p].pc \in {"idle", "next"}
    /\ k \notin proc[p].done
    /\ Len(attempts) < MaxAttempts
    /\ p \in Committing => ~InTransaction(p)
    /\ proc' = [proc EXCEPT ![p].pc = "begin", ![p].key = k, ![p].payload = NoPayload,
                            ![p].sweep = proc[p].pending]
    /\ UNCHANGED <<clock, manifests, refusals, files, attempts, faults>>

(* An exception inside the poll closes its attempt before it propagates *)
PollFails(p, pc) ==
    /\ attempts' = Closed(proc[p].attempt, "failed", NoPayload)
    /\ proc' = [proc EXCEPT ![p] = [Between(p) EXCEPT !.pc = pc, !.payload = NoPayload]]

DownloadFails(p) ==
    /\ proc[p].pc = "download"
    /\ PollFails(p, "broken")
    /\ UNCHANGED <<clock, manifests, refusals, files, faults>>

(* The bytes arrive; stage_payload places them in the raw zone before any   *)
(* row names them, or refuses bytes another slot owns                      *)
Download(p, x) ==
    LET k == proc[p].key
    IN  /\ proc[p].pc = "download"
        /\ IF Visible(p, x) /\ manifests[x].key # k
           THEN PollFails(p, "raising") /\ UNCHANGED files  \* ManifestConflict
           ELSE /\ files' = IF Visible(p, x) THEN files ELSE files \cup {<<k, x>>}
                /\ proc' = [proc EXCEPT ![p].pc = "register", ![p].payload = x]
                /\ UNCHANGED attempts
        /\ UNCHANGED <<clock, manifests, refusals, faults>>

(* mutant: the attempt is forgotten before it is named *)
SucceededLate(p, outcome) ==
    proc' = [proc EXCEPT ![p] = [Between(p) EXCEPT
        !.done = @ \cup {proc[p].key},
        !.pending = @ \cup {[attempt |-> Between(p).attempt, outcome |-> outcome,
                             manifest |-> proc[p].payload]}]]

(* FetchAttempt.succeeded: a candidate outcome, not yet a row *)
Succeeded(p, outcome) ==
    proc' = [proc EXCEPT ![p] = [Between(p) EXCEPT
        !.done = @ \cup {proc[p].key},
        !.pending = @ \cup {[attempt |-> proc[p].attempt, outcome |-> outcome,
                             manifest |-> proc[p].payload]}]]

(* mutant: the bytes of any slot are a recorded check *)
Unasked(p) == FALSE

(* Bytes whose manifest belongs to another slot *)
Conflicting(p) == manifests[proc[p].payload].key # proc[p].key

(* register_manifest: bytes the slot has held before are a recorded check, *)
(* and lock their row until the transaction ends                           *)
RegisterKnown(p) ==
    LET x == proc[p].payload
    IN  /\ proc[p].pc = "register"
        /\ Visible(p, x)
        /\ manifests[x].lock \in {p, NoTxn}
        /\ IF Conflicting(p)
           THEN PollFails(p, "raising") /\ UNCHANGED manifests  \* ManifestConflict
           ELSE /\ manifests' = [manifests EXCEPT ![x].lock = p]
                /\ Succeeded(p, "unchanged")
                /\ UNCHANGED attempts
        /\ UNCHANGED <<clock, refusals, files, faults>>

ReadHead(p) ==
    /\ proc[p].pc = "register"
    /\ ~Visible(p, proc[p].payload)
    /\ LET heads == Heads(p, proc[p].key)
       IN  \E h \in IF heads = {} THEN {NoPayload} ELSE heads :
              proc' = [proc EXCEPT ![p].pc = "insert", ![p].head = h]
    /\ UNCHANGED <<clock, manifests, refusals, files, attempts, faults>>

Insert(p) ==
    /\ proc[p].pc = "insert"
    /\ Rivals(p) = {}
    /\ manifests' = [manifests EXCEPT ![proc[p].payload] =
           [Absent EXCEPT !.key = proc[p].key, !.supersedes = proc[p].head, !.fetched = clock,
                          !.attempt = proc[p].attempt, !.txn = p]]
    /\ proc' = [proc EXCEPT ![p].pc = "seal"]
    /\ UNCHANGED <<clock, refusals, files, attempts, faults>>

(* manifest.json, SHA256SUMS and the modes, after the row; a full disk *)
(* raises an OSError                                                   *)
Seal(p) ==
    /\ proc[p].pc = "seal"
    /\ manifests' = [manifests EXCEPT ![proc[p].payload].sealed = TRUE]
    /\ Succeeded(p, "new")
    /\ UNCHANGED <<clock, refusals, files, attempts, faults>>

SealFails(p) ==
    /\ proc[p].pc = "seal"
    /\ PollFails(p, "unsealed")
    /\ UNCHANGED <<clock, manifests, refusals, files, faults>>

(* A statement of the registration raises: the key of a rival that          *)
(* committed, a cycle of waiting transactions PostgreSQL breaks, a lost    *)
(* connection, an interrupt                                                *)
RegisterFails(p) ==
    /\ proc[p].pc \in {"register", "insert"}
    /\ PollFails(p, "raising")
    /\ UNCHANGED <<clock, manifests, refusals, files, faults>>

-----------------------------------------------------------------------------
(* The transaction's end, and what a load leaves behind.                   *)

(* _record_staging_load: both passes read the artifact through *)
Stamp(p) ==
    /\ proc[p].pc = "next" /\ proc[p].payload # NoPayload
    /\ Visible(p, proc[p].payload)
    /\ manifests[proc[p].payload].stamp = NoTxn
    /\ manifests[proc[p].payload].lock \in {p, NoTxn}
    /\ manifests' = [manifests EXCEPT ![proc[p].payload].stamp = p]
    /\ UNCHANGED <<clock, refusals, files, attempts, proc, faults>>

Commit(p) ==
    /\ proc[p].pc = "next"
    /\ InTransaction(p)
    /\ manifests' = CommitOf(p)
    /\ UNCHANGED <<clock, refusals, files, attempts, proc, faults>>

Leaving(p, raised) ==
    [Idle EXCEPT !.pc = "leaving", !.raised = raised,
                 !.pending = proc[p].pending, !.sweep = proc[p].pending]

(* the connection's own exit commits, then the ledger's sweeps *)
Depart(p) ==
    /\ proc[p].pc = "next"
    /\ manifests' = CommitOf(p)
    /\ proc' = [proc EXCEPT ![p] = Leaving(p, FALSE)]
    /\ UNCHANGED <<clock, refusals, files, attempts, faults>>

Raised(p) == proc' = [proc EXCEPT ![p] = Leaving(p, TRUE)]

Unwind(p) ==
    /\ proc[p].pc \in {"broken", "unsealed", "raising"}
    /\ manifests' = RollbackOf(p)
    /\ Raised(p)
    /\ UNCHANGED <<clock, refusals, files, attempts, faults>>

(* nm_ocd keeps what a failed transfer recorded: it commits and retries the *)
(* table, or, on any OSError, commits and raises                           *)
RetryTransfer(p) ==
    /\ p \in Saving
    /\ proc[p].pc = "broken"
    /\ manifests' = CommitOf(p)
    /\ proc' = [proc EXCEPT ![p].pc = "next"]
    /\ UNCHANGED <<clock, refusals, files, attempts, faults>>

CommitAndRaise(p) ==
    /\ p \in Saving
    /\ proc[p].pc \in {"broken", "unsealed"}
    /\ manifests' = CommitOf(p)
    /\ Raised(p)
    /\ UNCHANGED <<clock, refusals, files, attempts, faults>>

(* staging or promotion raises: a refusal is recorded of bytes already      *)
(* committed, never of an operator's interrupt                             *)
LoadFails(p, recorded) ==
    /\ proc[p].pc = "next" /\ proc[p].payload # NoPayload
    /\ recorded => manifests[proc[p].payload].txn = Committed
    /\ manifests' = RollbackOf(p)
    /\ refusals' = IF recorded THEN refusals \cup {proc[p].payload} ELSE refusals
    /\ Raised(p)
    /\ UNCHANGED <<clock, files, attempts, faults>>

-----------------------------------------------------------------------------
Fault == faults < MaxFaults /\ faults' = faults + 1

(* The process is killed: its connections close, its files stay *)
Kill(p) ==
    /\ Fault
    /\ proc[p].pc # "idle"
    /\ manifests' = RollbackOf(p)
    /\ proc' = [proc EXCEPT ![p] = Idle]
    /\ UNCHANGED <<clock, refusals, files, attempts>>

(* The server commits and the answer is lost *)
CommitLost(p) ==
    /\ Fault
    /\ proc[p].pc = "next" /\ InTransaction(p)
    /\ manifests' = CommitOf(p)
    /\ Raised(p)
    /\ UNCHANGED <<clock, refusals, files, attempts>>

Advance ==
    /\ clock < MaxTime
    /\ clock' = clock + 1
    /\ UNCHANGED <<manifests, refusals, files, attempts, proc, faults>>

Polling(p) ==
    \/ Sweep(p) \/ Begin(p) \/ BeginHorizon(p)
    \/ \E k \in Key : Poll(p, k)
    \/ \E x \in Payload : Download(p, x)
    \/ DownloadFails(p)
    \/ RegisterKnown(p) \/ ReadHead(p) \/ Insert(p) \/ RegisterFails(p)
    \/ Seal(p) \/ SealFails(p)

Ending(p) ==
    \/ Stamp(p) \/ Commit(p) \/ Depart(p) \/ Unwind(p) \/ RetryTransfer(p)
    \/ CommitAndRaise(p)
    \/ \E recorded \in BOOLEAN : LoadFails(p, recorded)
    \/ FailUnresolved(p) \/ Exit(p)

Next ==
    \/ \E p \in Ingest :
          \/ Polling(p) \/ Ending(p)
          \/ Kill(p) \/ CommitLost(p)
    \/ Advance

Spec == Init /\ [][Next]_vars

Fairness == WF_vars(Advance) /\ \A p \in Ingest : WF_vars(Polling(p) \/ Ending(p))

FairSpec == Spec /\ Fairness

-----------------------------------------------------------------------------
(* Properties.                                                             *)

(* An attempt says new or unchanged only over a committed manifest whose    *)
(* bytes are in the raw zone, and unchanged only over one of its own key   *)
(* (migration 050: "new only after the new manifest is committed and       *)
(* independently visible").                                                *)
SuccessIsCommitted ==
    \A a \in DOMAIN attempts : attempts[a].outcome \in Success =>
        LET x == attempts[a].manifest
        IN  /\ manifests[x].txn = Committed
            /\ <<manifests[x].key, x>> \in files
            /\ attempts[a].outcome = "unchanged" => manifests[x].key = attempts[a].key

(* A poll that sealed its own manifest and saw it committed is never        *)
(* recorded as failed, whatever ended the run after it (fetch_attempts.py, *)
(* fail_unresolved finalizes what is visible before it fails the rest).    *)
CommittedNotFailed ==
    \A x \in Payload : manifests[x].txn = Committed /\ manifests[x].sealed =>
        attempts[manifests[x].attempt].outcome # "failed"

(* No manifest has two successors and a successor is of the same slot:      *)
(* "chains are never broken or rewritten" (manifests.py, manifest_chain).  *)
OneSuccessor ==
    \A x, y \in Payload : Present(x) /\ manifests[x].supersedes # NoPayload =>
        /\ manifests[manifests[x].supersedes].key = manifests[x].key
        /\ Present(y) /\ manifests[y].supersedes = manifests[x].supersedes => x = y

(* An ingest never waits on a row it holds itself (fetch_attempts.py: the   *)
(* ledger's connections are independent of the ingest transaction).        *)
NeverWaitsOnItself ==
    \A p \in Ingest : \A c \in proc[p].sweep :
        ~(Finalizable(p, c) /\ manifests[c.manifest].lock = p)

(* The polls implement the append-once ledger. *)
Ledger == INSTANCE AttemptLedger WITH
    Instant <- Time,
    published <- [x \in Payload |-> IF manifests[x].txn = Committed THEN manifests[x].key
                                    ELSE NoKey]
ImplementsLedger == Ledger!Spec
=============================================================================
