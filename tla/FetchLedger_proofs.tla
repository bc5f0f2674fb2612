-------------------------- MODULE FetchLedger_proofs --------------------------
(* The polls of a source keep the append-once ledger and the chain of       *)
(* manifests, for every number of ingests, keys, payloads, polls and faults. *)
(* An outcome is decided before the commit it depends on and written after  *)
(* it, so everything rests on who answers for an open attempt: one ingest   *)
(* at most, and whatever its transaction holds of that attempt is named by  *)
(* the outcome it has pending.                                             *)
EXTENDS FetchLedger, SequenceTheorems, TLAPS

Attempting == {"download", "register", "insert", "seal"}

(* The attempts an ingest still has to close *)
Owned(p) == {c.attempt : c \in proc[p].pending} \cup ({proc[p].attempt} \ {NoAttempt})

IsOpen(a) == a \in DOMAIN attempts /\ attempts[a].outcome = "open"

(* A poll in flight: its attempt is open, its bytes are on disk, its head   *)
(* cannot be withdrawn under it                                            *)
InPoll(p) ==
    LET s == proc[p]
    IN  /\ s.pc \in Attempting => IsOpen(s.attempt) /\ attempts[s.attempt].key = s.key
        /\ s.pc \notin Attempting => s.attempt = NoAttempt
        /\ s.pc \in Attempting \cup {"begin"} => s.key \in Key /\ s.key \notin s.done
        /\ s.pc \in {"register", "insert", "seal"} => s.payload \in Payload
        /\ s.pc \in {"register", "insert"} => <<s.key, s.payload>> \in files
        /\ s.pc = "insert" /\ s.head # NoPayload =>
              manifests[s.head].txn \in {Committed, p} /\ manifests[s.head].key = s.key
        /\ s.pc = "seal" => /\ manifests[s.payload].txn = p /\ ~manifests[s.payload].sealed
                            /\ manifests[s.payload].key = s.key

(* A row of an open transaction: once sealed it is pending, unsealed it is   *)
(* the poll's own or that of a poll that failed while sealing              *)
Held(p, x) ==
    LET s == proc[p]
        m == manifests[x]
    IN  /\ s.pc \notin {"idle", "leaving"}
        /\ m.sealed => /\ m.key \in s.done
                       /\ [attempt |-> m.attempt, outcome |-> "new", manifest |-> x] \in s.pending
        /\ ~m.sealed => \/ s.pc = "seal" /\ x = s.payload /\ m.attempt = s.attempt
                        \/ s.pc = "unsealed" /\ attempts[m.attempt].outcome = "failed"

Holds(p) == \A x \in Payload : manifests[x].txn = p => Held(p, x)

(* A pending outcome names the only row its attempt has, and an exiting     *)
(* ingest no longer sweeps it only if that row is not committed            *)
Awaited(p, c) ==
    /\ IsOpen(c.attempt) /\ c.attempt # proc[p].attempt
    /\ c.outcome = "unchanged" => /\ manifests[c.manifest].txn = Committed
                                  /\ manifests[c.manifest].key = attempts[c.attempt].key
    /\ \A x \in Payload : Present(x) /\ manifests[x].attempt = c.attempt =>
          /\ x = c.manifest
          /\ manifests[x].txn = Committed /\ proc[p].pc = "leaving" => c \in proc[p].sweep

Answers(p) ==
    LET s == proc[p]
    IN  /\ s.sweep \subseteq s.pending
        /\ \A c, d \in s.pending : c.attempt = d.attempt => c = d
        /\ \A c \in s.pending : Awaited(p, c)
        /\ s.attempt # NoAttempt =>
              \A x \in Payload : Present(x) /\ manifests[x].attempt = s.attempt =>
                  s.pc = "seal" /\ x = s.payload

Local(p) == InPoll(p) /\ Holds(p) /\ Answers(p)

(* No two ingests answer for one attempt *)
Separate == \A p, q \in Ingest : p # q => Owned(p) \cap Owned(q) = {}

Rows ==
    \A x \in Payload :
        /\ manifests[x].txn = NoTxn <=> manifests[x].key = NoKey
        /\ Present(x) => /\ manifests[x].attempt \in DOMAIN attempts
                         /\ <<manifests[x].key, x>> \in files

(* A manifest supersedes one its own transaction can see *)
Chain ==
    \A x \in Payload : Present(x) /\ manifests[x].supersedes # NoPayload =>
        LET h == manifests[x].supersedes
        IN  /\ Present(h) /\ manifests[h].key = manifests[x].key
            /\ manifests[h].txn \in {Committed, manifests[x].txn}
            /\ \A y \in Payload : Present(y) /\ manifests[y].supersedes = h => x = y

(* What a closed attempt says *)
Told ==
    \A a \in DOMAIN attempts :
        /\ attempts[a].attempted <= clock
        /\ attempts[a].outcome \in Success =>
              LET x == attempts[a].manifest
              IN  /\ x \in Payload /\ manifests[x].txn = Committed
                  /\ attempts[a].outcome = "unchanged" => manifests[x].key = attempts[a].key

IInv ==
    /\ TypeOK /\ Rows /\ Chain /\ Told /\ CommittedNotFailed
    /\ Separate /\ \A p \in Ingest : Local(p)

-----------------------------------------------------------------------------
(* What a step of one ingest may do to what the others look at.            *)

SameRow(x) ==
    /\ manifests'[x].key = manifests[x].key
    /\ manifests'[x].supersedes = manifests[x].supersedes
    /\ manifests'[x].attempt = manifests[x].attempt

Kept(x)     == /\ SameRow(x) /\ manifests'[x].txn = manifests[x].txn
               /\ manifests'[x].sealed = manifests[x].sealed
Withdrawn(x) == manifests'[x].key = NoKey /\ manifests'[x].txn = NoTxn

Foreign(p) ==
    /\ \A q \in Ingest : q # p => proc'[q] = proc[q]
    /\ DOMAIN attempts \subseteq DOMAIN attempts'
    /\ \A a \in DOMAIN attempts : a \notin Owned(p) => attempts'[a] = attempts[a]
    /\ files \subseteq files'
    /\ \A x \in Payload :
          \/ Kept(x)
          \/ manifests[x].txn = p /\ Withdrawn(x)
          \/ manifests[x].txn = p /\ SameRow(x) /\ manifests'[x].txn \in {p, Committed}
          \/ manifests[x].txn = NoTxn /\ manifests'[x].txn = p /\ manifests'[x].attempt \in Owned(p)

LEMMA AttemptTypes ==
    ASSUME TypeOK
    PROVE  /\ Len(attempts) \in Nat /\ DOMAIN attempts = 1..Len(attempts)
           /\ \A a \in DOMAIN attempts : attempts[a] \in Attempt /\ a \in AttemptId
BY FetchAssumption, LenProperties, ElementOfSeq DEF TypeOK, AttemptId

(* The attempts an ingest owns are open, and so are those of its rows but   *)
(* for the one whose sealing failed                                        *)
LEMMA OwnedOpen ==
    ASSUME IInv, NEW p \in Ingest
    PROVE  /\ \A a \in Owned(p) : IsOpen(a)
           /\ \A x \in Payload : manifests[x].txn = p =>
                 \/ manifests[x].attempt \in Owned(p)
                 \/ attempts[manifests[x].attempt].outcome = "failed"
<1> USE DEF IInv, Local
<1>0. InPoll(p) /\ Holds(p) /\ Answers(p)
  OBVIOUS
<1>1. \A a \in Owned(p) : IsOpen(a)
  <2>1. \A c \in proc[p].pending : IsOpen(c.attempt)
    BY <1>0 DEF Answers, Awaited
  <2>2. proc[p].attempt # NoAttempt => IsOpen(proc[p].attempt)
    BY <1>0 DEF InPoll
  <2> QED BY <2>1, <2>2 DEF Owned
<1>2. ASSUME NEW x \in Payload, manifests[x].txn = p
      PROVE  \/ manifests[x].attempt \in Owned(p)
             \/ attempts[manifests[x].attempt].outcome = "failed"
  <2>1. CASE manifests[x].sealed
    <3> DEFINE c == [attempt |-> manifests[x].attempt, outcome |-> "new", manifest |-> x]
    <3>1. c \in proc[p].pending
      BY <1>2, <1>0, <2>1 DEF Holds, Held
    <3>2. c.attempt = manifests[x].attempt
      OBVIOUS
    <3> QED BY <3>1, <3>2 DEF Owned
  <2>2. CASE ~manifests[x].sealed
    <3>1. CASE proc[p].pc = "seal"
      <4>1. proc[p].attempt # NoAttempt
        BY <1>0, <3>1, AttemptTypes DEF InPoll, Attempting, IsOpen, NoAttempt
      <4>2. manifests[x].attempt = proc[p].attempt
        BY <1>0, <1>2, <2>2, <3>1 DEF Holds, Held
      <4> QED BY <4>1, <4>2 DEF Owned
    <3>2. CASE proc[p].pc # "seal"
      BY <1>2, <1>0, <2>2, <3>2 DEF Holds, Held
    <3> QED BY <3>1, <3>2
  <2> QED BY <2>1, <2>2
<1> QED BY <1>1, <1>2

LEMMA CurrentOwned ==
    ASSUME IInv, NEW p \in Ingest, proc[p].pc \in Attempting
    PROVE  /\ proc[p].attempt \in Owned(p) /\ IsOpen(proc[p].attempt)
           /\ proc[p].attempt # NoAttempt
<1>1. InPoll(p)
  BY DEF IInv, Local
<1>2. TypeOK
  BY DEF IInv
<1> QED BY <1>1, <1>2, AttemptTypes DEF InPoll, IsOpen, NoAttempt, Owned

(* Whatever one ingest does, what was so of another stays so *)
LEMMA OthersKeep ==
    ASSUME IInv, NEW p \in Ingest, NEW q \in Ingest, q # p, Foreign(p)
    PROVE  Local(q)'
<1>1. /\ TypeOK /\ InPoll(q) /\ Holds(q) /\ Answers(q)
      /\ Owned(p) \cap Owned(q) = {} /\ Rows
  BY DEF IInv, Local, Separate
<1>2. proc'[q] = proc[q]
  BY DEF Foreign
<1>3. ASSUME NEW a \in Owned(q)
      PROVE  IsOpen(a)' /\ attempts'[a] = attempts[a]
  <2>1. IsOpen(a)
    BY <1>3, OwnedOpen
  <2> QED BY <1>1, <1>3, <2>1 DEF Foreign, IsOpen
<1>4. \A x \in Payload : manifests[x].txn \in {q, Committed} => Kept(x)
  BY FetchAssumption DEF Foreign
<1>5. \A x \in Payload : manifests'[x].txn = q => Kept(x)
  BY FetchAssumption DEF Foreign, Withdrawn
<1>6. ASSUME NEW x \in Payload, Present(x)', manifests'[x].attempt \in Owned(q)
      PROVE  /\ Present(x) /\ SameRow(x)
             /\ manifests'[x].txn = Committed => Kept(x)
  <2>1. manifests[x].txn # NoTxn
    BY <1>1, <1>6, FetchAssumption DEF Foreign, Kept, Withdrawn, Rows, Present, SameRow
  <2>2. SameRow(x)
    BY <1>6, <2>1 DEF Foreign, Kept, Withdrawn, Present
  <2>3. manifests[x].txn # p
    <3> SUFFICES ASSUME manifests[x].txn = p
                 PROVE  FALSE
      OBVIOUS
    <3>1. manifests[x].attempt \in Owned(q) /\ manifests[x].attempt \notin Owned(p)
      BY <1>1, <1>6, <2>2 DEF SameRow
    <3>2. IsOpen(manifests[x].attempt)
      BY <3>1, OwnedOpen
    <3> QED BY <3>1, <3>2, OwnedOpen DEF IsOpen
  <2> QED BY <1>1, <2>1, <2>2, <2>3 DEF Foreign, Rows, Present
<1>7. InPoll(q)'
  <2>1. proc[q].pc \in Attempting =>
           IsOpen(proc[q].attempt)' /\ attempts'[proc[q].attempt] = attempts[proc[q].attempt]
    BY <1>2, <1>3, CurrentOwned DEF IsOpen
  <2>2. proc[q].pc = "seal" => Kept(proc[q].payload)
    BY <1>1, <1>4 DEF InPoll
  <2>3. proc[q].pc = "insert" /\ proc[q].head # NoPayload => Kept(proc[q].head)
    <3>1. proc[q].head \in Payload \cup {NoPayload}
      BY <1>1 DEF TypeOK, Process
    <3> QED BY <1>1, <1>4, <3>1 DEF InPoll
  <2>4. files \subseteq files'
    BY DEF Foreign
  <2> QED BY <1>1, <1>2, <2>1, <2>2, <2>3, <2>4 DEF InPoll, Kept, SameRow
<1>8. Holds(q)'
  <2> SUFFICES ASSUME NEW x \in Payload, manifests'[x].txn = q
               PROVE  Held(q, x)'
    BY DEF Holds
  <2>1. Kept(x) /\ Held(q, x)
    BY <1>1, <1>5 DEF Kept, Holds
  <2>2. attempts[manifests[x].attempt].outcome = "failed" =>
            attempts'[manifests[x].attempt].outcome = "failed"
    <3>1. Present(x)
      BY <1>1, <2>1, FetchAssumption DEF Kept, Rows, Present
    <3>2. manifests[x].attempt \in DOMAIN attempts
      BY <1>1, <3>1 DEF Rows
    <3> QED BY <3>2, OwnedOpen DEF Foreign, IsOpen
  <2> QED BY <1>2, <2>1, <2>2 DEF Held, Kept, SameRow
<1>9. Answers(q)'
  <2>1. ASSUME NEW c \in proc[q].pending
        PROVE  Awaited(q, c)'
    <3>1. c.attempt \in Owned(q) /\ Awaited(q, c) /\ c.manifest \in Payload
      BY <1>1 DEF Owned, Answers, TypeOK, Process, Candidate
    <3>2. IsOpen(c.attempt)' /\ attempts'[c.attempt] = attempts[c.attempt]
      BY <1>3, <3>1
    <3>3. c.outcome = "unchanged" => Kept(c.manifest)
      BY <1>4, <3>1 DEF Awaited
    <3>4. ASSUME NEW x \in Payload, Present(x)', manifests'[x].attempt = c.attempt
          PROVE  /\ x = c.manifest
                 /\ manifests'[x].txn = Committed /\ proc[q].pc = "leaving" => c \in proc[q].sweep
      BY <1>6, <3>1, <3>4 DEF Awaited, SameRow, Kept
    <3> QED BY <1>2, <3>1, <3>2, <3>3, <3>4 DEF Awaited, Kept, SameRow
  <2>2. ASSUME proc[q].attempt # NoAttempt, NEW x \in Payload,
               Present(x)', manifests'[x].attempt = proc[q].attempt
        PROVE  proc[q].pc = "seal" /\ x = proc[q].payload
    <3>1. proc[q].attempt \in Owned(q)
      BY <2>2 DEF Owned
    <3> QED BY <1>1, <1>6, <2>2, <3>1 DEF Answers, SameRow
  <2> QED BY <1>1, <1>2, <2>1, <2>2 DEF Answers
<1> QED BY <1>7, <1>8, <1>9 DEF Local

-----------------------------------------------------------------------------
(* The parts every step of an ingest shares, by what the step writes.      *)

LEMMA StepOf ==
    ASSUME IInv, NEW p \in Ingest, Foreign(p),
           Owned(p)' \cap DOMAIN attempts \subseteq Owned(p),
           TypeOK', Rows', Chain', Told', CommittedNotFailed', Local(p)'
    PROVE  IInv'
<1>1. \A q \in Ingest : q # p => Local(q)'
  BY OthersKeep
<1>2. Separate'
  <2> SUFFICES ASSUME NEW q \in Ingest, NEW r \in Ingest, q # r, NEW a \in Owned(q)', a \in Owned(r)'
               PROVE  FALSE
    BY DEF Separate
  <2>1. ASSUME NEW o \in Ingest, o # p
        PROVE  Owned(o)' = Owned(o)
    BY <2>1 DEF Foreign, Owned
  <2>2. ASSUME NEW o \in Ingest, o # p
        PROVE  Owned(o) \cap Owned(p)' = {}
    <3>1. Owned(o) \cap Owned(p) = {}
      BY <2>2 DEF IInv, Separate
    <3>2. Owned(o) \subseteq DOMAIN attempts
      BY OwnedOpen DEF IsOpen
    <3> QED BY <3>1, <3>2
  <2>3. CASE q = p
    BY <2>1, <2>2, <2>3
  <2>4. CASE r = p
    BY <2>1, <2>2, <2>4
  <2>5. CASE q # p /\ r # p
    <3>1. Owned(q) \cap Owned(r) = {}
      BY DEF IInv, Separate
    <3> QED BY <2>1, <2>5, <3>1
  <2> QED BY <2>3, <2>4, <2>5
<1> QED BY <1>1, <1>2 DEF IInv

(* Neither a row nor an attempt changes *)
LEMMA QuietStep ==
    ASSUME IInv, NEW p \in Ingest, UNCHANGED <<clock, manifests, attempts>>, files \subseteq files',
           \A q \in Ingest : q # p => proc'[q] = proc[q],
           Owned(p)' \subseteq Owned(p), TypeOK', Local(p)'
    PROVE  IInv'
<1>1. Foreign(p)
  BY DEF Foreign, Kept, SameRow
<1>2. Rows' /\ Chain' /\ Told' /\ CommittedNotFailed'
  BY DEF IInv, Rows, Chain, Told, CommittedNotFailed, Present
<1> QED BY <1>1, <1>2, StepOf

(* Rows keep what they say: only their locks and stamps change *)
LEMMA MarkStep ==
    ASSUME IInv, NEW p \in Ingest, UNCHANGED <<clock, files, attempts>>, \A x \in Payload : Kept(x),
           \A q \in Ingest : q # p => proc'[q] = proc[q],
           Owned(p)' \subseteq Owned(p), TypeOK', Local(p)'
    PROVE  IInv'
<1>1. Foreign(p)
  BY DEF Foreign, Kept, SameRow
<1>2. Rows' /\ Told' /\ CommittedNotFailed'
  BY DEF IInv, Rows, Told, CommittedNotFailed, Present, Kept, SameRow
<1>3. Chain'
  <2>1. \A x \in Payload : SameRow(x) /\ manifests'[x].txn = manifests[x].txn
                          /\ (Present(x)' <=> Present(x))
    BY DEF Kept, SameRow, Present
  <2>2. \A x \in Payload : manifests[x].supersedes \in Payload \cup {NoPayload}
    BY DEF IInv, TypeOK, Manifest
  <2>3. Chain
    BY DEF IInv
  <2> QED BY <2>1, <2>2, <2>3 DEF Chain, SameRow
<1> QED BY <1>1, <1>2, <1>3, StepOf

LEMMA ClosedFacts ==
    ASSUME TypeOK, NEW a \in DOMAIN attempts, NEW o \in {"failed"} \cup Success,
           NEW x \in Payload \cup {NoPayload}, attempts' = Closed(a, o, x)
    PROVE  /\ attempts' \in Seq(Attempt) /\ Len(attempts') = Len(attempts)
           /\ DOMAIN attempts' = DOMAIN attempts
           /\ attempts'[a].outcome = o /\ attempts'[a].manifest = x /\ attempts'[a].completed = clock
           /\ attempts'[a].key = attempts[a].key /\ attempts'[a].attempted = attempts[a].attempted
           /\ \A b \in DOMAIN attempts : b # a => attempts'[b] = attempts[b]
<1> DEFINE e == [attempts[a] EXCEPT !.completed = clock, !.outcome = o, !.manifest = x]
<1>1. a \in 1..Len(attempts) /\ attempts[a] \in Attempt
  BY AttemptTypes
<1>2. e \in Attempt
  BY <1>1 DEF Attempt, TypeOK, Success
<1>3. attempts \in Seq(Attempt) /\ attempts' = [attempts EXCEPT ![a] = e]
  BY DEF TypeOK, Closed
<1>4. e.outcome = o /\ e.manifest = x /\ e.completed = clock
      /\ e.key = attempts[a].key /\ e.attempted = attempts[a].attempted
  BY <1>1 DEF Attempt
<1>5. /\ attempts' \in Seq(Attempt) /\ Len(attempts') = Len(attempts)
      /\ \A j \in 1..Len(attempts) : attempts'[j] = IF j = a THEN e ELSE attempts[j]
  <2> HIDE DEF e
  <2> QED BY <1>1, <1>2, <1>3, ExceptSeq
<1>6. DOMAIN attempts' = 1..Len(attempts) /\ DOMAIN attempts = 1..Len(attempts)
  BY <1>3, <1>5, LenProperties
<1> QED BY <1>1, <1>4, <1>5, <1>6

(* An open attempt of the ingest closes: failed if nothing committed has    *)
(* it, or as a success over a committed row                                *)
LEMMA CloseStep ==
    ASSUME IInv, NEW p \in Ingest, UNCHANGED <<clock, manifests, files>>,
           \A q \in Ingest : q # p => proc'[q] = proc[q],
           Owned(p)' \subseteq Owned(p), TypeOK', Local(p)',
           NEW a \in Owned(p), NEW o \in {"failed"} \cup Success,
           NEW z \in Payload \cup {NoPayload}, attempts' = Closed(a, o, z),
           o = "failed" => \A x \in Payload : manifests[x].txn = Committed => manifests[x].attempt # a,
           o \in Success => z \in Payload /\ manifests[z].txn = Committed,
           o = "unchanged" => manifests[z].key = attempts[a].key
    PROVE  IInv'
<1>1. TypeOK /\ a \in DOMAIN attempts
  BY OwnedOpen DEF IInv, IsOpen
<1>2. /\ DOMAIN attempts' = DOMAIN attempts
      /\ attempts'[a].outcome = o /\ attempts'[a].manifest = z
      /\ attempts'[a].key = attempts[a].key /\ attempts'[a].attempted = attempts[a].attempted
      /\ \A b \in DOMAIN attempts : b # a => attempts'[b] = attempts[b]
  BY <1>1, ClosedFacts
<1>3. Foreign(p)
  BY <1>2 DEF Foreign, Kept, SameRow
<1>4. Rows' /\ Chain'
  BY <1>2 DEF IInv, Rows, Chain, Present
<1>5. Told'
  <2>1. \A b \in DOMAIN attempts : attempts'[b].attempted = attempts[b].attempted
    BY <1>2
  <2>2. ASSUME NEW b \in DOMAIN attempts, attempts'[b].outcome \in Success
        PROVE  /\ attempts'[b].manifest \in Payload /\ manifests[attempts'[b].manifest].txn = Committed
               /\ attempts'[b].outcome = "unchanged" =>
                     manifests[attempts'[b].manifest].key = attempts'[b].key
    <3>1. CASE b = a
      BY <1>2, <2>2, <3>1
    <3>2. CASE b # a
      BY <1>2, <2>2, <3>2 DEF IInv, Told
    <3> QED BY <3>1, <3>2
  <2> QED BY <1>2, <2>1, <2>2 DEF IInv, Told
<1>6. CommittedNotFailed'
  <2> SUFFICES ASSUME NEW x \in Payload, manifests[x].txn = Committed, manifests[x].sealed
               PROVE  attempts'[manifests[x].attempt].outcome # "failed"
    BY DEF CommittedNotFailed
  <2>1. manifests[x].attempt \in DOMAIN attempts
    BY FetchAssumption DEF IInv, Rows, Present
  <2>2. attempts[manifests[x].attempt].outcome # "failed"
    BY DEF IInv, CommittedNotFailed
  <2> QED BY <1>2, <2>1, <2>2 DEF Success
<1> QED BY <1>3, <1>4, <1>5, <1>6, StepOf

LEMMA ReleasedTypes ==
    ASSUME NEW p \in Ingest, NEW m \in Manifest
    PROVE  LET r == Released(p, m)
           IN  /\ r \in Manifest /\ r.key = m.key /\ r.supersedes = m.supersedes
               /\ r.attempt = m.attempt /\ r.sealed = m.sealed /\ r.txn = m.txn
BY DEF Manifest, Released

LEMMA CommitFacts ==
    ASSUME TypeOK, NEW p \in Ingest, manifests' = CommitOf(p)
    PROVE  /\ manifests' \in [Payload -> Manifest]
           /\ \A x \in Payload :
                 /\ SameRow(x) /\ manifests'[x].sealed = manifests[x].sealed
                 /\ manifests'[x].txn = IF manifests[x].txn = p THEN Committed ELSE manifests[x].txn
<1>1. ASSUME NEW x \in Payload
      PROVE  /\ manifests'[x] \in Manifest
             /\ SameRow(x) /\ manifests'[x].sealed = manifests[x].sealed
             /\ manifests'[x].txn = IF manifests[x].txn = p THEN Committed ELSE manifests[x].txn
  <2> DEFINE m == [manifests[x] EXCEPT !.txn   = IF @ = p THEN Committed ELSE @,
                                       !.stamp = IF @ = p THEN Committed ELSE @]
  <2>1. manifests[x] \in Manifest
    BY DEF TypeOK
  <2>2. /\ m \in Manifest /\ m.key = manifests[x].key /\ m.supersedes = manifests[x].supersedes
        /\ m.attempt = manifests[x].attempt /\ m.sealed = manifests[x].sealed
        /\ m.txn = IF manifests[x].txn = p THEN Committed ELSE manifests[x].txn
    BY <2>1 DEF Manifest, Txn
  <2>3. manifests'[x] = Released(p, m)
    BY DEF CommitOf
  <2> HIDE DEF m
  <2> QED BY <2>2, <2>3, ReleasedTypes DEF SameRow
<1> QED BY <1>1 DEF CommitOf

LEMMA RollbackFacts ==
    ASSUME TypeOK, NEW p \in Ingest, manifests' = RollbackOf(p)
    PROVE  /\ manifests' \in [Payload -> Manifest]
           /\ \A x \in Payload : IF manifests[x].txn = p THEN Withdrawn(x) ELSE Kept(x)
<1>1. Absent \in Manifest
  BY FetchAssumption DEF Absent, Manifest, Time, Txn
<1>2. ASSUME NEW x \in Payload
      PROVE  /\ manifests'[x] \in Manifest
             /\ IF manifests[x].txn = p THEN Withdrawn(x) ELSE Kept(x)
  <2> DEFINE m == [manifests[x] EXCEPT !.stamp = IF @ = p THEN NoTxn ELSE @]
  <2>1. manifests[x] \in Manifest
    BY DEF TypeOK
  <2>2. /\ m \in Manifest /\ m.key = manifests[x].key /\ m.supersedes = manifests[x].supersedes
        /\ m.attempt = manifests[x].attempt /\ m.sealed = manifests[x].sealed
        /\ m.txn = manifests[x].txn
    BY <2>1 DEF Manifest, Txn
  <2>3. manifests'[x] = IF manifests[x].txn = p THEN Absent ELSE Released(p, m)
    BY DEF RollbackOf
  <2> HIDE DEF m
  <2>4. CASE manifests[x].txn = p
    BY <1>1, <2>3, <2>4 DEF Withdrawn, Absent
  <2>5. CASE manifests[x].txn # p
    BY <2>2, <2>3, <2>5, ReleasedTypes DEF Kept, SameRow
  <2> QED BY <2>4, <2>5
<1> QED BY <1>2 DEF RollbackOf

(* A sealed row of an open transaction has an open attempt *)
LEMMA SealedOpen ==
    ASSUME IInv, NEW p \in Ingest, NEW x \in Payload, manifests[x].txn = p, manifests[x].sealed
    PROVE  manifests[x].attempt \in Owned(p) /\ IsOpen(manifests[x].attempt)
<1> DEFINE c == [attempt |-> manifests[x].attempt, outcome |-> "new", manifest |-> x]
<1>1. Holds(p) /\ Answers(p)
  BY DEF IInv, Local
<1>2. c \in proc[p].pending
  BY <1>1 DEF Holds, Held
<1>3. c.attempt = manifests[x].attempt
  OBVIOUS
<1>4. manifests[x].attempt \in Owned(p)
  <2> HIDE DEF c
  <2> QED BY <1>2, <1>3 DEF Owned
<1> QED BY <1>4, OwnedOpen

(* The ingest's transaction commits *)
LEMMA CommitStep ==
    ASSUME IInv, NEW p \in Ingest, UNCHANGED <<clock, files, attempts>>, manifests' = CommitOf(p),
           \A q \in Ingest : q # p => proc'[q] = proc[q],
           Owned(p)' \subseteq Owned(p), TypeOK', Local(p)'
    PROVE  IInv'
<1>1. /\ TypeOK
      /\ \A x \in Payload :
            /\ SameRow(x) /\ manifests'[x].sealed = manifests[x].sealed
            /\ manifests'[x].txn = IF manifests[x].txn = p THEN Committed ELSE manifests[x].txn
  BY CommitFacts DEF IInv
<1>2. Foreign(p)
  BY <1>1 DEF Foreign, Kept
<1>3. Rows'
  BY <1>1, FetchAssumption DEF IInv, Rows, SameRow, Present
<1>4. Chain'
  <2>1. \A x \in Payload : Present(x)' <=> Present(x)
    BY <1>1 DEF SameRow, Present
  <2>2. \A x \in Payload : manifests[x].supersedes \in Payload \cup {NoPayload}
    BY <1>1 DEF TypeOK, Manifest
  <2>3. Chain
    BY DEF IInv
  <2> QED BY <1>1, <2>1, <2>2, <2>3 DEF Chain, SameRow
<1>5. Told'
  BY <1>1 DEF IInv, Told, SameRow
<1>6. CommittedNotFailed'
  BY <1>1, SealedOpen DEF IInv, CommittedNotFailed, SameRow, IsOpen
<1> QED BY <1>2, <1>3, <1>4, <1>5, <1>6, StepOf

(* It is rolled back: whoever supersedes a row of it belongs to it too *)
LEMMA RollbackStep ==
    ASSUME IInv, NEW p \in Ingest, UNCHANGED <<clock, files, attempts>>, manifests' = RollbackOf(p),
           \A q \in Ingest : q # p => proc'[q] = proc[q],
           Owned(p)' \subseteq Owned(p), TypeOK', Local(p)'
    PROVE  IInv'
<1>1. TypeOK /\ \A x \in Payload : IF manifests[x].txn = p THEN Withdrawn(x) ELSE Kept(x)
  BY RollbackFacts DEF IInv
<1>2. Foreign(p)
  BY <1>1 DEF Foreign
<1>3. Rows'
  BY <1>1 DEF IInv, Rows, Kept, SameRow, Withdrawn, Present
<1>4. Chain'
  <2>1. \A x \in Payload : Present(x)' => Present(x) /\ Kept(x) /\ manifests[x].txn # p
    BY <1>1 DEF Withdrawn, Kept, SameRow, Present
  <2>2. \A x \in Payload : manifests[x].supersedes \in Payload \cup {NoPayload}
    BY <1>1 DEF TypeOK, Manifest
  <2>3. Chain
    BY DEF IInv
  <2>4. ASSUME NEW x \in Payload, Present(x)', manifests[x].supersedes # NoPayload
        PROVE  /\ manifests[x].supersedes \in Payload
               /\ Kept(manifests[x].supersedes) /\ Present(manifests[x].supersedes)'
    <3>1. manifests[manifests[x].supersedes].txn # p
      BY <2>1, <2>3, <2>4, FetchAssumption DEF Chain
    <3> QED BY <1>1, <2>1, <2>2, <2>3, <2>4, <3>1 DEF Chain, Kept, SameRow, Present
  <2> QED BY <2>1, <2>3, <2>4 DEF Chain, Kept, SameRow
<1>5. Told'
  BY <1>1, FetchAssumption DEF IInv, Told, SameRow, Kept
<1>6. CommittedNotFailed'
  BY <1>1, FetchAssumption DEF IInv, CommittedNotFailed, SameRow, Kept, Withdrawn
<1> QED BY <1>2, <1>3, <1>4, <1>5, <1>6, StepOf

-----------------------------------------------------------------------------
(* One lemma per step.                                                     *)

(* An outcome stays pending over the row that its attempt still has *)
LEMMA AwaitedKeeps ==
    ASSUME IInv, NEW p \in Ingest, NEW c \in proc[p].pending,
           c.attempt \in DOMAIN attempts', attempts'[c.attempt] = attempts[c.attempt],
           c.attempt # proc'[p].attempt,
           \A x \in Payload : manifests[x].txn = Committed =>
                              SameRow(x) /\ manifests'[x].txn = Committed,
           \A x \in Payload : Present(x)' /\ manifests'[x].attempt = c.attempt =>
                              Present(x) /\ SameRow(x),
           proc'[p].pc = "leaving" =>
              \/ c \in proc'[p].sweep
              \/ \A x \in Payload : manifests'[x].txn = Committed => manifests'[x].attempt # c.attempt
    PROVE  Awaited(p, c)'
<1>1. Awaited(p, c) /\ c.manifest \in Payload
  BY DEF IInv, Local, Answers, TypeOK, Process, Candidate
<1> QED BY <1>1 DEF Awaited, IsOpen, SameRow

(* Rows of an ingest's transaction are its payload's when it seals, and     *)
(* sealed ones in every other phase but that of a failed seal              *)
LEMMA RowsHeld ==
    ASSUME IInv, NEW p \in Ingest, NEW x \in Payload, manifests[x].txn = p
    PROVE  /\ proc[p].pc \notin {"idle", "leaving"}
           /\ proc[p].pc \notin {"seal", "unsealed"} => manifests[x].sealed
           /\ manifests[x].sealed =>
                 /\ manifests[x].key \in proc[p].done
                 /\ [attempt |-> manifests[x].attempt, outcome |-> "new", manifest |-> x]
                       \in proc[p].pending
           /\ ~manifests[x].sealed /\ proc[p].pc = "seal" =>
                 x = proc[p].payload /\ manifests[x].attempt = proc[p].attempt
           /\ ~manifests[x].sealed /\ proc[p].pc # "seal" =>
                 attempts[manifests[x].attempt].outcome = "failed"
<1>1. Held(p, x)
  BY DEF IInv, Local, Holds
<1> QED BY <1>1 DEF Held

LEMMA QuietAnswers ==
    ASSUME IInv, NEW p \in Ingest, UNCHANGED <<manifests, attempts>>,
           proc'[p].pending \subseteq proc[p].pending, proc'[p].sweep \subseteq proc'[p].pending,
           proc'[p].attempt \in {NoAttempt, proc[p].attempt},
           proc'[p].attempt # NoAttempt => proc[p].pc # "seal",
           proc'[p].pc = "leaving" =>
              \A c \in proc'[p].pending \ proc'[p].sweep : \A x \in Payload :
                  manifests[x].txn = Committed => manifests[x].attempt # c.attempt
    PROVE  Answers(p)' /\ Owned(p)' \subseteq Owned(p)
<1>1. Answers(p)
  BY DEF IInv, Local
<1>2. ASSUME NEW c \in proc'[p].pending
      PROVE  Awaited(p, c)'
  <2>1. c \in proc[p].pending /\ Awaited(p, c)
    BY <1>1 DEF Answers
  <2>2. IsOpen(c.attempt) /\ c.attempt # NoAttempt
    <3>1. IsOpen(c.attempt) /\ TypeOK
      BY <2>1 DEF Awaited, IInv
    <3> QED BY <3>1, AttemptTypes DEF IsOpen, NoAttempt
  <2> QED BY <2>1, <2>2, AwaitedKeeps DEF Awaited, IsOpen, SameRow, Present
<1>3. Owned(p)' \subseteq Owned(p)
  BY DEF Owned
<1>4. proc'[p].attempt # NoAttempt => \A x \in Payload : Present(x)' => manifests'[x].attempt # proc'[p].attempt
  BY <1>1 DEF Answers, Present
<1>5. \A c, d \in proc'[p].pending : c.attempt = d.attempt => c = d
  BY <1>1 DEF Answers
<1> QED BY <1>2, <1>3, <1>4, <1>5 DEF Answers

LEMMA SweepKeeps ==
    ASSUME IInv, NEW p \in Ingest, Sweep(p)
    PROVE  IInv'
<1>1. TypeOK /\ InPoll(p) /\ Answers(p) /\ proc[p] \in Process
  BY DEF IInv, Local, TypeOK
<1>2. PICK c \in proc[p].sweep : Sweep(p)!2!(c)
  BY DEF Sweep
<1>3. proc[p].pc \in {"begin", "leaving"} /\ UNCHANGED <<clock, manifests, refusals, files, faults>>
  BY DEF Sweep
<1>4. c \in proc[p].pending /\ Awaited(p, c) /\ c \in Candidate
  BY <1>1 DEF Answers, Process
<1>5. CASE Finalizable(p, c)
  <2>1. /\ attempts' = Closed(c.attempt, c.outcome, c.manifest)
        /\ proc' = [proc EXCEPT ![p].sweep = @ \ {c}, ![p].pending = @ \ {c}]
    BY <1>2, <1>5
  <2>2. /\ proc' \in [Ingest -> Process] /\ \A q \in Ingest : q # p => proc'[q] = proc[q]
        /\ proc'[p] = [proc[p] EXCEPT !.sweep = @ \ {c}, !.pending = @ \ {c}]
    BY <1>1, <2>1 DEF TypeOK, Process
  <2>3. /\ proc'[p].pc = proc[p].pc /\ proc'[p].done = proc[p].done /\ proc'[p].key = proc[p].key
        /\ proc'[p].payload = proc[p].payload /\ proc'[p].head = proc[p].head
        /\ proc'[p].attempt = proc[p].attempt
        /\ proc'[p].pending = proc[p].pending \ {c} /\ proc'[p].sweep = proc[p].sweep \ {c}
    BY <1>1, <2>2 DEF Process
  <2>4. c.attempt \in DOMAIN attempts
    BY <1>4 DEF Awaited, IsOpen
  <2>5. /\ attempts' \in Seq(Attempt) /\ Len(attempts') = Len(attempts)
        /\ DOMAIN attempts' = DOMAIN attempts
        /\ \A b \in DOMAIN attempts : b # c.attempt => attempts'[b] = attempts[b]
    BY <1>1, <1>4, <2>1, <2>4, ClosedFacts DEF Candidate
  <2>6. TypeOK'
    BY <1>1, <1>3, <2>2, <2>5 DEF TypeOK
  <2>7. Owned(p)' \subseteq Owned(p) /\ c.attempt \in Owned(p)
    BY <1>4, <2>3 DEF Owned
  <2>8. InPoll(p)'
    BY <1>1, <1>3, <2>3 DEF InPoll, Attempting
  <2>9. Holds(p)'
    <3> SUFFICES ASSUME NEW x \in Payload, manifests[x].txn = p
                 PROVE  Held(p, x)'
      BY <1>3 DEF Holds
    <3> DEFINE d == [attempt |-> manifests[x].attempt, outcome |-> "new", manifest |-> x]
    <3>1. d \in proc[p].pending /\ manifests[x].sealed /\ manifests[x].key \in proc[p].done
      BY <1>3, RowsHeld
    <3>2. d # c
      <4>1. d.manifest = x
        OBVIOUS
      <4> QED BY <1>5, <4>1, FetchAssumption DEF Finalizable
    <3>3. proc[p].pc # "leaving"
      BY RowsHeld
    <3> QED BY <1>3, <2>3, <3>1, <3>2, <3>3 DEF Held
  <2>10. Answers(p)'
    <3>1. ASSUME NEW d \in proc'[p].pending
          PROVE  Awaited(p, d)'
      <4>1. d \in proc[p].pending /\ d # c /\ Awaited(p, d)
        BY <1>1, <2>3 DEF Answers
      <4>2. d.attempt # c.attempt
        BY <1>1, <1>4, <4>1 DEF Answers
      <4>3. d.attempt \in DOMAIN attempts' /\ attempts'[d.attempt] = attempts[d.attempt]
        BY <2>5, <4>1, <4>2 DEF Awaited, IsOpen
      <4> QED BY <1>3, <2>3, <4>1, <4>3 DEF Awaited, IsOpen, Present
    <3> QED BY <1>1, <1>3, <2>3, <3>1 DEF Answers, Present, InPoll, Attempting
  <2> QED
    BY <1>3, <1>4, <1>5, <2>1, <2>2, <2>6, <2>7, <2>8, <2>9, <2>10, CloseStep
    DEF Local, Candidate, Finalizable, Awaited, Success
<1>6. CASE ~Finalizable(p, c)
  <2>1. proc' = [proc EXCEPT ![p].sweep = @ \ {c}] /\ UNCHANGED attempts
    BY <1>2, <1>6
  <2>2. /\ proc' \in [Ingest -> Process] /\ \A q \in Ingest : q # p => proc'[q] = proc[q]
        /\ proc'[p] = [proc[p] EXCEPT !.sweep = @ \ {c}]
    BY <1>1, <2>1 DEF TypeOK, Process
  <2>3. /\ proc'[p].pc = proc[p].pc /\ proc'[p].done = proc[p].done /\ proc'[p].key = proc[p].key
        /\ proc'[p].payload = proc[p].payload /\ proc'[p].head = proc[p].head
        /\ proc'[p].attempt = proc[p].attempt
        /\ proc'[p].pending = proc[p].pending /\ proc'[p].sweep = proc[p].sweep \ {c}
    BY <1>1, <2>2 DEF Process
  <2>4. TypeOK' /\ InPoll(p)'
    BY <1>1, <1>3, <2>1, <2>2, <2>3 DEF TypeOK, InPoll, Attempting
  <2>5. Holds(p)'
    BY <1>3, <2>1, <2>3, RowsHeld DEF Holds, Held
  <2>6. \A d \in proc'[p].pending \ proc'[p].sweep : \A x \in Payload :
            proc[p].pc = "leaving" /\ manifests[x].txn = Committed => manifests[x].attempt # d.attempt
    <3> SUFFICES ASSUME NEW d \in proc[p].pending, d \notin proc[p].sweep \/ d = c,
                        NEW x \in Payload, proc[p].pc = "leaving",
                        manifests[x].txn = Committed, manifests[x].attempt = d.attempt
                 PROVE  FALSE
      BY <2>3
    <3>1. Present(x) /\ Awaited(p, d)
      BY <1>1, FetchAssumption DEF IInv, Rows, Present, Answers
    <3> QED BY <1>6, <3>1 DEF Awaited, Finalizable
  <2>7. Answers(p)' /\ Owned(p)' \subseteq Owned(p)
    BY <1>1, <1>3, <2>1, <2>3, <2>6, QuietAnswers DEF Answers, InPoll, Attempting
  <2> QED BY <1>3, <2>1, <2>2, <2>4, <2>5, <2>7, QuietStep DEF Local
<1> QED BY <1>5, <1>6

LEMMA BeginHorizonKeeps ==
    ASSUME IInv, NEW p \in Ingest, BeginHorizon(p)
    PROVE  IInv'
<1>1. /\ TypeOK /\ InPoll(p) /\ Answers(p) /\ proc[p] \in Process
      /\ proc[p].pc = "begin" /\ UNCHANGED <<clock, manifests, refusals, files, attempts, faults>>
  BY DEF IInv, Local, TypeOK, BeginHorizon
<1>2. /\ proc' \in [Ingest -> Process] /\ \A q \in Ingest : q # p => proc'[q] = proc[q]
      /\ proc'[p] = Between(p)
  BY <1>1 DEF TypeOK, Process, BeginHorizon, Between
<1>3. /\ proc'[p].pc = "next" /\ proc'[p].attempt = NoAttempt /\ proc'[p].done = proc[p].done
      /\ proc'[p].pending = proc[p].pending /\ proc'[p].sweep = proc[p].sweep
  BY <1>1, <1>2 DEF Between, Process
<1>4. TypeOK' /\ InPoll(p)'
  BY <1>1, <1>2, <1>3 DEF TypeOK, InPoll, Attempting
<1>5. Holds(p)'
  BY <1>1, <1>3, RowsHeld DEF Holds, Held
<1>6. Answers(p)' /\ Owned(p)' \subseteq Owned(p)
  BY <1>1, <1>3, QuietAnswers DEF Answers
<1> QED BY <1>1, <1>2, <1>4, <1>5, <1>6, QuietStep DEF Local

LEMMA IdleTypes ==
    /\ Idle \in Process /\ Idle.pc = "idle" /\ Idle.attempt = NoAttempt
    /\ Idle.pending = {} /\ Idle.sweep = {}
BY DEF Idle, Process

(* An ingest at rest answers for nothing *)
LEMMA IdleLocal ==
    ASSUME NEW p \in Ingest, proc'[p] = Idle, \A x \in Payload : manifests'[x].txn # p
    PROVE  Local(p)' /\ Owned(p)' = {}
BY IdleTypes DEF Local, InPoll, Attempting, Holds, Answers, Owned

LEMMA ExitKeeps ==
    ASSUME IInv, NEW p \in Ingest, Exit(p)
    PROVE  IInv'
<1>1. /\ TypeOK /\ proc[p].pc = "leaving"
      /\ UNCHANGED <<clock, manifests, refusals, files, attempts, faults>>
  BY DEF IInv, Exit
<1>2. /\ proc' \in [Ingest -> Process] /\ \A q \in Ingest : q # p => proc'[q] = proc[q]
      /\ proc'[p] = Idle
  BY <1>1, IdleTypes DEF TypeOK, Exit
<1>3. \A x \in Payload : manifests'[x].txn # p
  BY <1>1, RowsHeld
<1>4. Local(p)' /\ Owned(p)' = {}
  BY <1>2, <1>3, IdleLocal
<1>5. TypeOK'
  BY <1>1, <1>2 DEF TypeOK
<1> QED BY <1>1, <1>2, <1>4, <1>5, QuietStep

LEMMA PollKeeps ==
    ASSUME IInv, NEW p \in Ingest, NEW k \in Key, Poll(p, k)
    PROVE  IInv'
<1>1. /\ TypeOK /\ InPoll(p) /\ Answers(p) /\ proc[p] \in Process
      /\ proc[p].pc \in {"idle", "next"} /\ k \notin proc[p].done
      /\ UNCHANGED <<clock, manifests, refusals, files, attempts, faults>>
  BY DEF IInv, Local, TypeOK, Poll
<1>2. /\ proc' \in [Ingest -> Process] /\ \A q \in Ingest : q # p => proc'[q] = proc[q]
      /\ proc'[p] = [proc[p] EXCEPT !.pc = "begin", !.key = k, !.payload = NoPayload,
                                    !.sweep = proc[p].pending]
  BY <1>1 DEF TypeOK, Process, Poll
<1>3. /\ proc'[p].pc = "begin" /\ proc'[p].attempt = proc[p].attempt /\ proc'[p].done = proc[p].done
      /\ proc'[p].key = k
      /\ proc'[p].pending = proc[p].pending /\ proc'[p].sweep = proc[p].pending
  BY <1>1, <1>2 DEF Process
<1>4. TypeOK' /\ InPoll(p)'
  BY <1>1, <1>2, <1>3 DEF TypeOK, InPoll, Attempting
<1>5. Holds(p)'
  BY <1>1, <1>3, RowsHeld DEF Holds, Held
<1>6. Answers(p)' /\ Owned(p)' \subseteq Owned(p)
  BY <1>1, <1>3, QuietAnswers
<1> QED BY <1>1, <1>2, <1>4, <1>5, <1>6, QuietStep DEF Local

LEMMA ReadHeadKeeps ==
    ASSUME IInv, NEW p \in Ingest, ReadHead(p)
    PROVE  IInv'
<1>1. /\ TypeOK /\ InPoll(p) /\ Answers(p) /\ proc[p] \in Process
      /\ proc[p].pc = "register" /\ UNCHANGED <<clock, manifests, refusals, files, attempts, faults>>
  BY DEF IInv, Local, TypeOK, ReadHead
<1>2. PICK h \in Heads(p, proc[p].key) \cup {NoPayload} :
          proc' = [proc EXCEPT ![p].pc = "insert", ![p].head = h]
  BY DEF ReadHead
<1>3. /\ h \in Payload \cup {NoPayload}
      /\ h # NoPayload => /\ manifests[h].txn \in {Committed, p}
                          /\ manifests[h].key = proc[p].key
  BY <1>2 DEF Heads, Visible
<1>4. /\ proc' \in [Ingest -> Process] /\ \A q \in Ingest : q # p => proc'[q] = proc[q]
      /\ proc'[p] = [proc[p] EXCEPT !.pc = "insert", !.head = h]
  BY <1>1, <1>2, <1>3 DEF TypeOK, Process
<1>5. /\ proc'[p].pc = "insert" /\ proc'[p].attempt = proc[p].attempt /\ proc'[p].done = proc[p].done
      /\ proc'[p].key = proc[p].key /\ proc'[p].payload = proc[p].payload /\ proc'[p].head = h
      /\ proc'[p].pending = proc[p].pending /\ proc'[p].sweep = proc[p].sweep
  BY <1>1, <1>4 DEF Process
<1>6. TypeOK' /\ InPoll(p)'
  BY <1>1, <1>3, <1>4, <1>5 DEF TypeOK, InPoll, Attempting, IsOpen
<1>7. Holds(p)'
  BY <1>1, <1>5, RowsHeld DEF Holds, Held
<1>8. Answers(p)' /\ Owned(p)' \subseteq Owned(p)
  BY <1>1, <1>5, QuietAnswers DEF Answers
<1> QED BY <1>1, <1>4, <1>6, <1>7, <1>8, QuietStep DEF Local

(* A poll that raises closes its own attempt, which no committed row has *)
LEMMA PollFailsKeeps ==
    ASSUME IInv, NEW p \in Ingest, NEW pc \in {"broken", "raising", "unsealed"},
           proc[p].pc \in Attempting, proc[p].pc = "seal" => pc = "unsealed",
           PollFails(p, pc), UNCHANGED <<clock, manifests, refusals, files, faults>>
    PROVE  IInv'
<1> DEFINE a == proc[p].attempt
<1>1. TypeOK /\ Rows /\ InPoll(p) /\ Answers(p) /\ proc[p] \in Process
  BY DEF IInv, Local, TypeOK
<1>2. a \in Owned(p) /\ IsOpen(a) /\ a # NoAttempt
  BY CurrentOwned
<1>3. attempts' = Closed(a, "failed", NoPayload)
  BY DEF PollFails
<1>4. /\ proc' \in [Ingest -> Process] /\ \A q \in Ingest : q # p => proc'[q] = proc[q]
      /\ proc'[p] = [Between(p) EXCEPT !.pc = pc, !.payload = NoPayload]
  BY <1>1 DEF TypeOK, Process, PollFails, Between
<1>5. /\ proc'[p].pc = pc /\ proc'[p].attempt = NoAttempt /\ proc'[p].done = proc[p].done
      /\ proc'[p].pending = proc[p].pending /\ proc'[p].sweep = proc[p].sweep
  BY <1>1, <1>4 DEF Process, Between
<1>6. /\ attempts' \in Seq(Attempt) /\ Len(attempts') = Len(attempts)
      /\ DOMAIN attempts' = DOMAIN attempts /\ attempts'[a].outcome = "failed"
      /\ \A b \in DOMAIN attempts : b # a => attempts'[b] = attempts[b]
  BY <1>1, <1>2, <1>3, ClosedFacts DEF IsOpen
<1>7. TypeOK'
  BY <1>1, <1>4, <1>6 DEF TypeOK
<1>8. InPoll(p)'
  BY <1>5 DEF InPoll, Attempting
<1>9. Holds(p)'
  <2> SUFFICES ASSUME NEW x \in Payload, manifests[x].txn = p
               PROVE  Held(p, x)'
    BY DEF Holds
  <2>1. CASE manifests[x].sealed
    BY <1>5, <2>1, RowsHeld DEF Held
  <2>2. CASE ~manifests[x].sealed
    <3>1. proc[p].pc = "seal" /\ manifests[x].attempt = a
      BY <2>2, RowsHeld DEF Attempting
    <3> QED BY <1>5, <1>6, <2>2, <3>1 DEF Held
  <2> QED BY <2>1, <2>2
<1>10. Answers(p)'
  <2>1. ASSUME NEW c \in proc[p].pending
        PROVE  Awaited(p, c)'
    <3>1. Awaited(p, c)
      BY <1>1 DEF Answers
    <3>2. IsOpen(c.attempt) /\ c.attempt # a /\ c.attempt # NoAttempt
      BY <1>1, <3>1, AttemptTypes DEF Awaited, IsOpen, NoAttempt
    <3> QED BY <1>5, <1>6, <3>2, AwaitedKeeps DEF IsOpen, SameRow, Present
  <2> QED BY <1>1, <1>5, <2>1 DEF Answers
<1>11. ASSUME NEW x \in Payload, manifests[x].txn = Committed, manifests[x].attempt = a
       PROVE  FALSE
  <2>1. Present(x)
    BY <1>1, <1>11, FetchAssumption DEF Rows, Present
  <2> QED BY <1>1, <1>2, <1>11, <2>1, FetchAssumption DEF Answers, InPoll
<1>12. Owned(p)' \subseteq Owned(p)
  BY <1>5 DEF Owned
<1> HIDE DEF a
<1> QED BY <1>2, <1>3, <1>4, <1>7, <1>8, <1>9, <1>10, <1>11, <1>12, CloseStep DEF Local, Success

LEMMA DownloadKeeps ==
    ASSUME IInv, NEW p \in Ingest, NEW x \in Payload, Download(p, x)
    PROVE  IInv'
<1>1. /\ TypeOK /\ Rows /\ InPoll(p) /\ Answers(p) /\ proc[p] \in Process
      /\ proc[p].pc = "download" /\ UNCHANGED <<clock, manifests, refusals, faults>>
  BY DEF IInv, Local, TypeOK, Download
<1>2. CASE Visible(p, x) /\ manifests[x].key # proc[p].key
  BY <1>1, <1>2, PollFailsKeeps DEF Download, Attempting
<1>3. CASE ~(Visible(p, x) /\ manifests[x].key # proc[p].key)
  <2>1. /\ files' = IF Visible(p, x) THEN files ELSE files \cup {<<proc[p].key, x>>}
        /\ proc' = [proc EXCEPT ![p].pc = "register", ![p].payload = x]
        /\ UNCHANGED attempts
    BY <1>3 DEF Download
  <2>2. proc[p].key \in Key
    BY <1>1 DEF InPoll, Attempting
  <2>3. <<proc[p].key, x>> \in files' /\ files \subseteq files' /\ files' \subseteq Key \X Payload
    BY <1>1, <1>3, <2>1, <2>2 DEF TypeOK, Rows, Visible
  <2>4. /\ proc' \in [Ingest -> Process] /\ \A q \in Ingest : q # p => proc'[q] = proc[q]
        /\ proc'[p] = [proc[p] EXCEPT !.pc = "register", !.payload = x]
    BY <1>1, <2>1 DEF TypeOK, Process
  <2>5. /\ proc'[p].pc = "register" /\ proc'[p].attempt = proc[p].attempt
        /\ proc'[p].done = proc[p].done /\ proc'[p].key = proc[p].key /\ proc'[p].payload = x
        /\ proc'[p].pending = proc[p].pending /\ proc'[p].sweep = proc[p].sweep
    BY <1>1, <2>4 DEF Process
  <2>6. TypeOK' /\ InPoll(p)'
    BY <1>1, <2>1, <2>3, <2>4, <2>5 DEF TypeOK, InPoll, Attempting, IsOpen
  <2>7. Holds(p)'
    BY <1>1, <2>1, <2>5, RowsHeld DEF Holds, Held
  <2>8. Answers(p)' /\ Owned(p)' \subseteq Owned(p)
    BY <1>1, <2>1, <2>5, QuietAnswers DEF Answers
  <2> QED BY <1>1, <2>1, <2>3, <2>4, <2>6, <2>7, <2>8, QuietStep DEF Local
<1> QED BY <1>2, <1>3

LEMMA PollFailures ==
    ASSUME IInv, NEW p \in Ingest, DownloadFails(p) \/ RegisterFails(p) \/ SealFails(p)
    PROVE  IInv'
BY PollFailsKeeps DEF DownloadFails, RegisterFails, SealFails, Attempting

LEMMA BeginKeeps ==
    ASSUME IInv, NEW p \in Ingest, Begin(p)
    PROVE  IInv'
<1> DEFINE n == Len(attempts) + 1
           e == [key |-> proc[p].key, attempted |-> clock, completed |-> 0,
                 outcome |-> "open", manifest |-> NoPayload]
<1>1. /\ TypeOK /\ InPoll(p) /\ Answers(p) /\ proc[p] \in Process /\ Rows /\ Told
      /\ CommittedNotFailed /\ Chain
      /\ proc[p].pc = "begin" /\ UNCHANGED <<clock, manifests, refusals, files, faults>>
      /\ Len(attempts) < MaxAttempts /\ attempts' = Append(attempts, e)
  BY DEF IInv, Local, TypeOK, Begin
<1>2. /\ DOMAIN attempts = 1..Len(attempts) /\ Len(attempts) \in Nat /\ MaxAttempts \in Nat
      /\ n \in AttemptId /\ n \notin DOMAIN attempts /\ n # NoAttempt
  BY <1>1, AttemptTypes, FetchAssumption DEF AttemptId, NoAttempt
<1>3. proc[p].key \in Key /\ proc[p].key \notin proc[p].done
  BY <1>1 DEF InPoll
<1>4. e \in Attempt
  BY <1>1, <1>3, FetchAssumption DEF Attempt, TypeOK, Time
<1>5. /\ attempts' \in Seq(Attempt) /\ Len(attempts') = n /\ attempts'[n] = e
      /\ DOMAIN attempts' = DOMAIN attempts \cup {n}
      /\ \A b \in DOMAIN attempts : attempts'[b] = attempts[b]
  <2>1. attempts \in Seq(Attempt)
    BY <1>1 DEF TypeOK
  <2> HIDE DEF e
  <2>2. /\ Append(attempts, e) \in Seq(Attempt) /\ Len(Append(attempts, e)) = n
        /\ Append(attempts, e)[n] = e
        /\ \A b \in 1..Len(attempts) : Append(attempts, e)[b] = attempts[b]
    BY <1>4, <2>1, AppendProperties
  <2>3. DOMAIN Append(attempts, e) = 1..n
    BY <2>2, LenProperties
  <2> QED BY <1>1, <1>2, <2>2, <2>3
<1>6. /\ proc' \in [Ingest -> Process] /\ \A q \in Ingest : q # p => proc'[q] = proc[q]
      /\ proc'[p] = [proc[p] EXCEPT !.pc = "download", !.attempt = n]
  BY <1>1, <1>2 DEF TypeOK, Process, Begin
<1>7. /\ proc'[p].pc = "download" /\ proc'[p].attempt = n /\ proc'[p].done = proc[p].done
      /\ proc'[p].key = proc[p].key
      /\ proc'[p].pending = proc[p].pending /\ proc'[p].sweep = proc[p].sweep
  BY <1>1, <1>6 DEF Process
<1>8. TypeOK'
  BY <1>1, <1>2, <1>5, <1>6 DEF TypeOK
<1>9. Foreign(p)
  BY <1>1, <1>5, <1>6 DEF Foreign, Kept, SameRow
<1>10. Rows' /\ Chain'
  BY <1>1, <1>5 DEF Rows, Chain, Present
<1>11. Told'
  <2>1. clock \in Nat /\ clock' = clock
    BY <1>1 DEF TypeOK, Time
  <2> QED BY <1>1, <1>2, <1>5, <2>1 DEF Told, Success
<1>12. CommittedNotFailed'
  <2>1. \A x \in Payload : manifests[x].txn = Committed => manifests[x].attempt \in DOMAIN attempts
    BY <1>1, FetchAssumption DEF Rows, Present
  <2> QED BY <1>1, <1>5, <2>1 DEF CommittedNotFailed
<1>13. InPoll(p)'
  BY <1>3, <1>5, <1>7 DEF InPoll, Attempting, IsOpen
<1>14. Holds(p)'
  BY <1>1, <1>7, RowsHeld DEF Holds, Held
<1>15. Answers(p)'
  <2>1. ASSUME NEW c \in proc[p].pending
        PROVE  Awaited(p, c)'
    <3>1. IsOpen(c.attempt)
      BY <1>1 DEF Answers, Awaited
    <3> QED BY <1>1, <1>2, <1>5, <1>7, <3>1, AwaitedKeeps DEF IsOpen, SameRow, Present
  <2>2. \A x \in Payload : Present(x)' => manifests'[x].attempt # n
    BY <1>1, <1>2 DEF Rows, Present
  <2> QED BY <1>1, <1>7, <2>1, <2>2 DEF Answers
<1>16. Owned(p)' \cap DOMAIN attempts \subseteq Owned(p)
  BY <1>2, <1>7 DEF Owned
<1> QED BY <1>8, <1>9, <1>10, <1>11, <1>12, <1>13, <1>14, <1>15, <1>16, StepOf DEF Local

LEMMA FailUnresolvedKeeps ==
    ASSUME IInv, NEW p \in Ingest, FailUnresolved(p)
    PROVE  IInv'
<1>1. /\ TypeOK /\ InPoll(p) /\ Answers(p) /\ proc[p] \in Process /\ Rows
      /\ proc[p].pc = "leaving" /\ proc[p].sweep = {}
      /\ UNCHANGED <<clock, manifests, refusals, files, faults>>
  BY DEF IInv, Local, TypeOK, FailUnresolved, Swept
<1>2. PICK c \in proc[p].pending :
          /\ attempts' = Closed(c.attempt, "failed", NoPayload)
          /\ proc' = [proc EXCEPT ![p].pending = @ \ {c}, ![p].sweep = @ \ {c}]
  BY DEF FailUnresolved
<1>3. IsOpen(c.attempt) /\ Awaited(p, c) /\ c.attempt \in Owned(p)
  BY <1>1 DEF Answers, Awaited, Owned
<1>4. /\ proc' \in [Ingest -> Process] /\ \A q \in Ingest : q # p => proc'[q] = proc[q]
      /\ proc'[p] = [proc[p] EXCEPT !.pending = @ \ {c}, !.sweep = @ \ {c}]
  BY <1>1, <1>2 DEF TypeOK, Process
<1>5. /\ proc'[p].pc = "leaving" /\ proc'[p].attempt = proc[p].attempt
      /\ proc'[p].pending = proc[p].pending \ {c} /\ proc'[p].sweep = {}
  BY <1>1, <1>4 DEF Process
<1>6. /\ attempts' \in Seq(Attempt) /\ Len(attempts') = Len(attempts)
      /\ DOMAIN attempts' = DOMAIN attempts
      /\ \A b \in DOMAIN attempts : b # c.attempt => attempts'[b] = attempts[b]
  BY <1>1, <1>2, <1>3, ClosedFacts DEF IsOpen
<1>7. TypeOK'
  BY <1>1, <1>4, <1>6 DEF TypeOK
<1>8. InPoll(p)'
  BY <1>1, <1>5 DEF InPoll, Attempting
<1>9. Holds(p)'
  BY <1>1, RowsHeld DEF Holds
<1>10. \A d \in proc[p].pending : \A x \in Payload :
           manifests[x].txn = Committed => manifests[x].attempt # d.attempt
  BY <1>1, FetchAssumption DEF Answers, Awaited, Rows, Present
<1>11. Answers(p)'
  <2>1. ASSUME NEW d \in proc'[p].pending
        PROVE  Awaited(p, d)'
    <3>1. d \in proc[p].pending /\ d.attempt # c.attempt /\ IsOpen(d.attempt)
          /\ d.attempt # proc'[p].attempt
      BY <1>1, <1>5 DEF Answers, Awaited
    <3> QED BY <1>1, <1>6, <1>10, <3>1, AwaitedKeeps DEF IsOpen, SameRow, Present
  <2>2. proc'[p].attempt = NoAttempt
    BY <1>1, <1>5 DEF InPoll, Attempting
  <2> QED BY <1>1, <1>5, <2>1, <2>2 DEF Answers
<1>12. Owned(p)' \subseteq Owned(p)
  BY <1>5 DEF Owned
<1> QED BY <1>1, <1>2, <1>3, <1>4, <1>7, <1>8, <1>9, <1>10, <1>11, <1>12, CloseStep DEF Local, Success

LEMMA SucceededFacts ==
    ASSUME IInv, NEW p \in Ingest, NEW o \in Success, proc[p].pc \in {"register", "seal"},
           Succeeded(p, o)
    PROVE  \E c \in Candidate :
               /\ proc' \in [Ingest -> Process] /\ \A q \in Ingest : q # p => proc'[q] = proc[q]
               /\ proc'[p].pc = "next" /\ proc'[p].attempt = NoAttempt
               /\ proc'[p].done = proc[p].done \cup {proc[p].key}
               /\ proc'[p].pending = proc[p].pending \cup {c} /\ proc'[p].sweep = proc[p].sweep
               /\ c.attempt = proc[p].attempt /\ c.outcome = o /\ c.manifest = proc[p].payload
               /\ proc[p].key \in Key /\ proc[p].payload \in Payload
               /\ Owned(p)' \subseteq Owned(p)
<1> DEFINE c == [attempt |-> proc[p].attempt, outcome |-> o, manifest |-> proc[p].payload]
<1>1. TypeOK /\ InPoll(p) /\ proc[p] \in Process
  BY DEF IInv, Local, TypeOK
<1>2. proc[p].attempt \in Owned(p) /\ proc[p].attempt \in AttemptId
  BY <1>1, CurrentOwned, AttemptTypes DEF Attempting, IsOpen
<1>3. proc[p].key \in Key /\ proc[p].payload \in Payload
  BY <1>1 DEF InPoll, Attempting
<1>4. c \in Candidate
  BY <1>2, <1>3 DEF Candidate
<1>5. proc' = [proc EXCEPT ![p] = [Between(p) EXCEPT !.done = @ \cup {proc[p].key},
                                                     !.pending = @ \cup {c}]]
  BY DEF Succeeded
<1>6. /\ proc' \in [Ingest -> Process] /\ \A q \in Ingest : q # p => proc'[q] = proc[q]
      /\ proc'[p] = [Between(p) EXCEPT !.done = @ \cup {proc[p].key}, !.pending = @ \cup {c}]
  <2> HIDE DEF c
  <2>1. /\ Between(p) \in Process /\ Between(p).done = proc[p].done
        /\ Between(p).pending = proc[p].pending
    BY <1>1 DEF Process, Between
  <2>2. [Between(p) EXCEPT !.done = @ \cup {proc[p].key}, !.pending = @ \cup {c}] \in Process
    BY <1>3, <1>4, <2>1 DEF Process
  <2> QED BY <1>1, <1>5, <2>2 DEF TypeOK
<1>7. /\ proc'[p].pc = "next" /\ proc'[p].attempt = NoAttempt
      /\ proc'[p].done = proc[p].done \cup {proc[p].key}
      /\ proc'[p].pending = proc[p].pending \cup {c} /\ proc'[p].sweep = proc[p].sweep
  <2> HIDE DEF c
  <2> QED BY <1>1, <1>6 DEF Process, Between
<1>8. c.attempt = proc[p].attempt /\ c.outcome = o /\ c.manifest = proc[p].payload
  OBVIOUS
<1>9. Owned(p)' \subseteq Owned(p)
  <2> HIDE DEF c
  <2> QED BY <1>2, <1>7, <1>8 DEF Owned
<1> HIDE DEF c
<1> QED BY <1>3, <1>4, <1>6, <1>7, <1>8, <1>9

LEMMA RegisterKnownKeeps ==
    ASSUME IInv, NEW p \in Ingest, RegisterKnown(p)
    PROVE  IInv'
<1> DEFINE x == proc[p].payload
<1>1. /\ TypeOK /\ Rows /\ InPoll(p) /\ Answers(p) /\ proc[p] \in Process
      /\ proc[p].pc = "register" /\ Visible(p, x) /\ UNCHANGED <<clock, refusals, files, faults>>
  BY DEF IInv, Local, TypeOK, RegisterKnown
<1>2. CASE Conflicting(p)
  BY <1>1, <1>2, PollFailsKeeps DEF RegisterKnown, Attempting
<1>3. CASE ~Conflicting(p)
  <2>1. /\ manifests' = [manifests EXCEPT ![x].lock = p] /\ Succeeded(p, "unchanged")
        /\ UNCHANGED attempts /\ manifests[x].key = proc[p].key
    BY <1>3 DEF RegisterKnown, Conflicting
  <2>2. PICK c \in Candidate :
          /\ proc' \in [Ingest -> Process] /\ \A q \in Ingest : q # p => proc'[q] = proc[q]
          /\ proc'[p].pc = "next" /\ proc'[p].attempt = NoAttempt
          /\ proc'[p].done = proc[p].done \cup {proc[p].key}
          /\ proc'[p].pending = proc[p].pending \cup {c} /\ proc'[p].sweep = proc[p].sweep
          /\ c.attempt = proc[p].attempt /\ c.outcome = "unchanged" /\ c.manifest = x
          /\ proc[p].key \in Key /\ x \in Payload
          /\ Owned(p)' \subseteq Owned(p)
    BY <1>1, <2>1, SucceededFacts DEF Success
  <2>3. manifests' \in [Payload -> Manifest] /\ \A y \in Payload : Kept(y)
    BY <1>1, <2>1, <2>2 DEF TypeOK, Manifest, Kept, SameRow
  <2>4. manifests[x].txn = Committed
    <3>1. proc[p].key \notin proc[p].done
      BY <1>1 DEF InPoll, Attempting
    <3>2. manifests[x].txn # p
      BY <1>1, <2>1, <2>2, <3>1, RowsHeld
    <3> QED BY <1>1, <3>2 DEF Visible
  <2>5. IsOpen(c.attempt) /\ attempts[c.attempt].key = proc[p].key /\ c.attempt # NoAttempt
    BY <1>1, <2>2, CurrentOwned DEF InPoll, Attempting
  <2>6. TypeOK' /\ InPoll(p)'
    BY <1>1, <2>1, <2>2, <2>3 DEF TypeOK, InPoll, Attempting
  <2>7. Holds(p)'
    BY <1>1, <2>2, <2>3, RowsHeld DEF Holds, Held, Kept, SameRow
  <2>8. Awaited(p, c)'
    <3>1. \A y \in Payload : Present(y) => manifests[y].attempt # c.attempt
      BY <1>1, <2>2, <2>5 DEF Answers
    <3> QED BY <2>1, <2>2, <2>3, <2>4, <2>5, <3>1 DEF Awaited, IsOpen, Kept, SameRow, Present
  <2>9. ASSUME NEW d \in proc[p].pending
        PROVE  Awaited(p, d)' /\ d.attempt # c.attempt
    <3>1. Awaited(p, d)
      BY <1>1 DEF Answers
    <3>2. IsOpen(d.attempt) /\ d.attempt # c.attempt /\ d.attempt # NoAttempt
      BY <1>1, <2>2, <3>1, AttemptTypes DEF Awaited, IsOpen, NoAttempt
    <3> QED BY <2>1, <2>2, <2>3, <3>2, AwaitedKeeps DEF IsOpen, SameRow, Kept, Present
  <2>10. Answers(p)'
    BY <1>1, <2>2, <2>8, <2>9 DEF Answers
  <2> QED BY <1>1, <2>1, <2>2, <2>3, <2>6, <2>7, <2>10, MarkStep DEF Local
<1> QED BY <1>2, <1>3

LEMMA InsertKeeps ==
    ASSUME IInv, NEW p \in Ingest, Insert(p)
    PROVE  IInv'
<1> DEFINE z == proc[p].payload
           row == [Absent EXCEPT !.key = proc[p].key, !.supersedes = proc[p].head, !.fetched = clock,
                                 !.attempt = proc[p].attempt, !.txn = p]
<1>1. /\ TypeOK /\ Rows /\ Chain /\ Told /\ CommittedNotFailed /\ InPoll(p) /\ Answers(p)
      /\ proc[p] \in Process /\ proc[p].pc = "insert" /\ Rivals(p) = {}
      /\ manifests' = [manifests EXCEPT ![z] = row]
      /\ UNCHANGED <<clock, refusals, files, attempts, faults>>
  BY DEF IInv, Local, TypeOK, Insert
<1>2. /\ z \in Payload /\ proc[p].key \in Key /\ <<proc[p].key, z>> \in files
      /\ proc[p].head \in Payload \cup {NoPayload}
  BY <1>1 DEF InPoll, Attempting, Process
<1>3. /\ proc[p].attempt \in Owned(p) /\ IsOpen(proc[p].attempt) /\ proc[p].attempt # NoAttempt
      /\ proc[p].attempt \in AttemptId
  BY <1>1, CurrentOwned, AttemptTypes DEF Attempting, IsOpen
<1>4. /\ row \in Manifest /\ row.key = proc[p].key /\ row.supersedes = proc[p].head
      /\ row.attempt = proc[p].attempt /\ row.txn = p /\ row.sealed = FALSE
  BY <1>1, <1>2, <1>3, FetchAssumption DEF Absent, Manifest, TypeOK, Txn, Time
<1> HIDE DEF row
<1>5. ~Present(z) /\ manifests[z].txn = NoTxn
  BY <1>1, <1>2 DEF Rivals, Rows, Present
<1>6. /\ manifests' \in [Payload -> Manifest] /\ manifests'[z] = row
      /\ \A y \in Payload : y # z => manifests'[y] = manifests[y]
  BY <1>1, <1>2, <1>4 DEF TypeOK
<1>7. /\ proc' \in [Ingest -> Process] /\ \A q \in Ingest : q # p => proc'[q] = proc[q]
      /\ proc'[p] = [proc[p] EXCEPT !.pc = "seal"]
  BY <1>1 DEF TypeOK, Process, Insert
<1>8. /\ proc'[p].pc = "seal" /\ proc'[p].attempt = proc[p].attempt
      /\ proc'[p].done = proc[p].done /\ proc'[p].key = proc[p].key /\ proc'[p].payload = z
      /\ proc'[p].pending = proc[p].pending /\ proc'[p].sweep = proc[p].sweep
  BY <1>1, <1>7 DEF Process
<1>9. \A y \in Payload : Present(y)' <=> Present(y) \/ y = z
  BY <1>2, <1>4, <1>6, FetchAssumption DEF Present
<1>10. Foreign(p)
  <2>1. \A y \in Payload : y # z => Kept(y)
    BY <1>6 DEF Kept, SameRow
  <2> QED BY <1>1, <1>3, <1>4, <1>5, <1>6, <1>7, <2>1 DEF Foreign
<1>11. TypeOK'
  BY <1>1, <1>6, <1>7 DEF TypeOK
<1>12. Rows'
  BY <1>1, <1>2, <1>3, <1>4, <1>6, FetchAssumption DEF Rows, Present, IsOpen
<1>13. Chain'
  <2>1. ASSUME NEW y \in Payload, y # z, Present(y), manifests[y].supersedes # NoPayload
        PROVE  manifests[y].supersedes \in Payload \ {z} /\ manifests[y].supersedes # proc[p].head
    <3>1. manifests[y].supersedes \in Payload
      BY <1>1, <2>1 DEF TypeOK, Manifest
    <3> QED BY <1>1, <1>5, <2>1, <3>1 DEF Chain, Rivals
  <2>2. proc[p].head # NoPayload =>
            /\ proc[p].head \in Payload \ {z} /\ Present(proc[p].head)
            /\ manifests[proc[p].head].txn \in {Committed, p}
            /\ manifests[proc[p].head].key = proc[p].key
    BY <1>1, <1>2, <1>5, FetchAssumption DEF InPoll, Rows, Present
  <2>3. \A y \in Payload : manifests'[y] = IF y = z THEN row ELSE manifests[y]
    BY <1>6
  <2>4. \A y, w \in Payload :
            /\ Present(y)' /\ manifests'[y].supersedes # NoPayload
            /\ Present(w)' /\ manifests'[w].supersedes = manifests'[y].supersedes
            => y = w
    <3> SUFFICES ASSUME NEW y \in Payload, NEW w \in Payload,
                        Present(y)', manifests'[y].supersedes # NoPayload,
                        Present(w)', manifests'[w].supersedes = manifests'[y].supersedes, y # w
                 PROVE  FALSE
      OBVIOUS
    <3>1. CASE y # z /\ w # z
      BY <1>1, <1>6, <1>9, <3>1 DEF Chain
    <3>2. CASE y = z \/ w = z
      BY <1>4, <1>6, <1>9, <2>1, <3>2
    <3> QED BY <3>1, <3>2
  <2>5. ASSUME NEW y \in Payload, Present(y)', manifests'[y].supersedes # NoPayload
        PROVE  /\ manifests'[manifests'[y].supersedes].key # NoKey
               /\ manifests'[manifests'[y].supersedes].key = manifests'[y].key
               /\ manifests'[manifests'[y].supersedes].txn \in {Committed, manifests'[y].txn}
    <3>1. CASE y = z
      BY <1>4, <1>6, <2>2, <2>5, <3>1 DEF Present
    <3>2. CASE y # z
      BY <1>1, <1>6, <1>9, <2>1, <2>5, <3>2 DEF Chain, Present
    <3> QED BY <3>1, <3>2
  <2> QED BY <2>4, <2>5 DEF Chain, Present
<1>14. Told' /\ CommittedNotFailed'
  BY <1>1, <1>4, <1>5, <1>6, FetchAssumption DEF Told, CommittedNotFailed
<1>15. InPoll(p)'
  BY <1>1, <1>2, <1>3, <1>4, <1>6, <1>8 DEF InPoll, Attempting, IsOpen
<1>16. Holds(p)'
  <2> SUFFICES ASSUME NEW y \in Payload, manifests'[y].txn = p
               PROVE  Held(p, y)'
    BY DEF Holds
  <2>1. CASE y = z
    BY <1>4, <1>6, <1>8, <2>1 DEF Held
  <2>2. CASE y # z
    BY <1>1, <1>6, <1>8, <2>2, RowsHeld DEF Held
  <2> QED BY <2>1, <2>2
<1>17. Answers(p)'
  <2>1. ASSUME NEW c \in proc[p].pending
        PROVE  Awaited(p, c)'
    <3>1. IsOpen(c.attempt) /\ c.attempt # proc[p].attempt
      BY <1>1 DEF Answers, Awaited
    <3>2. \A y \in Payload : Present(y)' /\ manifests'[y].attempt = c.attempt => Present(y) /\ SameRow(y)
      BY <1>4, <1>6, <1>9, <3>1 DEF SameRow
    <3>3. \A y \in Payload : manifests[y].txn = Committed => SameRow(y) /\ manifests'[y].txn = Committed
      BY <1>5, <1>6, FetchAssumption DEF SameRow
    <3> QED BY <1>1, <1>8, <3>1, <3>2, <3>3, AwaitedKeeps DEF IsOpen
  <2>2. \A y \in Payload : Present(y)' /\ manifests'[y].attempt = proc[p].attempt => y = z
    BY <1>1, <1>3, <1>6, <1>9 DEF Answers
  <2> QED BY <1>1, <1>8, <2>1, <2>2 DEF Answers
<1>18. Owned(p)' = Owned(p)
  BY <1>8 DEF Owned
<1> QED BY <1>10, <1>11, <1>12, <1>13, <1>14, <1>15, <1>16, <1>17, <1>18, StepOf DEF Local

LEMMA SealKeeps ==
    ASSUME IInv, NEW p \in Ingest, Seal(p)
    PROVE  IInv'
<1> DEFINE z == proc[p].payload
<1>1. /\ TypeOK /\ Rows /\ Chain /\ Told /\ CommittedNotFailed /\ InPoll(p) /\ Answers(p)
      /\ proc[p] \in Process /\ proc[p].pc = "seal" /\ z \in Payload
      /\ manifests' = [manifests EXCEPT ![z].sealed = TRUE] /\ Succeeded(p, "new")
      /\ UNCHANGED <<clock, refusals, files, attempts, faults>>
  BY DEF IInv, Local, TypeOK, InPoll, Seal
<1>2. PICK c \in Candidate :
        /\ proc' \in [Ingest -> Process] /\ \A q \in Ingest : q # p => proc'[q] = proc[q]
        /\ proc'[p].pc = "next" /\ proc'[p].attempt = NoAttempt
        /\ proc'[p].done = proc[p].done \cup {proc[p].key}
        /\ proc'[p].pending = proc[p].pending \cup {c} /\ proc'[p].sweep = proc[p].sweep
        /\ c.attempt = proc[p].attempt /\ c.outcome = "new" /\ c.manifest = z
        /\ proc[p].key \in Key /\ Owned(p)' \subseteq Owned(p)
  BY <1>1, SucceededFacts DEF Success
<1>3. /\ manifests[z].txn = p /\ manifests[z].key = proc[p].key /\ manifests[z].attempt = proc[p].attempt
  BY <1>1, RowsHeld DEF InPoll
<1>4. /\ manifests' \in [Payload -> Manifest] /\ manifests'[z].sealed
      /\ \A y \in Payload :
            /\ SameRow(y) /\ manifests'[y].txn = manifests[y].txn
            /\ y # z => manifests'[y] = manifests[y]
            /\ Present(y)' <=> Present(y)
  <2>1. \A y \in Payload : manifests'[y] = IF y = z THEN [manifests[z] EXCEPT !.sealed = TRUE]
                                           ELSE manifests[y]
    BY <1>1 DEF TypeOK
  <2>2. manifests[z] \in Manifest /\ manifests \in [Payload -> Manifest]
    BY <1>1 DEF TypeOK
  <2>3. [manifests[z] EXCEPT !.sealed = TRUE] \in Manifest
    BY <2>2 DEF Manifest
  <2>4. manifests' \in [Payload -> Manifest]
    BY <1>1, <2>2, <2>3
  <2> QED BY <1>1, <2>1, <2>2, <2>4 DEF Manifest, SameRow, Present
<1>5. Foreign(p)
  <2>1. \A y \in Payload : y # z => Kept(y)
    BY <1>4 DEF Kept, SameRow
  <2> QED BY <1>1, <1>2, <1>3, <1>4, <2>1 DEF Foreign
<1>6. TypeOK' /\ InPoll(p)'
  BY <1>1, <1>2, <1>4 DEF TypeOK, InPoll, Attempting
<1>7. Rows'
  BY <1>1, <1>4 DEF Rows, SameRow
<1>8. Chain'
  <2>1. \A x \in Payload : manifests[x].supersedes \in Payload \cup {NoPayload}
    BY <1>1 DEF TypeOK, Manifest
  <2> QED BY <1>1, <1>4, <2>1 DEF Chain, SameRow
<1>9. Told' /\ CommittedNotFailed'
  BY <1>1, <1>3, <1>4, FetchAssumption DEF Told, CommittedNotFailed, SameRow
<1>10. IsOpen(c.attempt) /\ c.attempt # NoAttempt
  BY <1>1, <1>2, CurrentOwned DEF Attempting
<1>11. Holds(p)'
  <2> SUFFICES ASSUME NEW y \in Payload, manifests[y].txn = p
               PROVE  Held(p, y)'
    BY <1>4 DEF Holds
  <2>1. CASE y = z
    <3>1. c = [attempt |-> manifests'[z].attempt, outcome |-> "new", manifest |-> z]
      BY <1>2, <1>3, <1>4 DEF Candidate, SameRow
    <3> QED BY <1>2, <1>3, <1>4, <2>1, <3>1 DEF Held, SameRow
  <2>2. CASE y # z
    <3>1. manifests[y].sealed
      BY <1>1, <2>2, RowsHeld
    <3> QED BY <1>2, <1>4, <2>2, <3>1, RowsHeld DEF Held, SameRow
  <2> QED BY <2>1, <2>2
<1>12. Awaited(p, c)'
  <2>1. \A y \in Payload : Present(y) /\ manifests[y].attempt = c.attempt => y = z
    BY <1>1, <1>2, <1>10 DEF Answers
  <2> QED BY <1>1, <1>2, <1>4, <1>10, <2>1 DEF Awaited, IsOpen, SameRow
<1>13. ASSUME NEW d \in proc[p].pending
       PROVE  Awaited(p, d)' /\ d.attempt # c.attempt
  <2>1. Awaited(p, d)
    BY <1>1 DEF Answers
  <2>2. IsOpen(d.attempt) /\ d.attempt # c.attempt /\ d.attempt # NoAttempt
    BY <1>1, <1>2, <2>1, AttemptTypes DEF Awaited, IsOpen, NoAttempt
  <2> QED BY <1>1, <1>2, <1>4, <2>2, AwaitedKeeps DEF IsOpen
<1>14. Answers(p)'
  BY <1>1, <1>2, <1>12, <1>13 DEF Answers
<1> QED BY <1>2, <1>5, <1>6, <1>7, <1>8, <1>9, <1>11, <1>14, StepOf DEF Local

LEMMA StampKeeps ==
    ASSUME IInv, NEW p \in Ingest, Stamp(p)
    PROVE  IInv'
<1>1. /\ TypeOK /\ InPoll(p) /\ Answers(p)
      /\ proc[p].pc = "next" /\ proc[p].payload \in Payload
      /\ manifests' = [manifests EXCEPT ![proc[p].payload].stamp = p]
      /\ UNCHANGED <<clock, refusals, files, attempts, proc, faults>>
  BY DEF IInv, Local, TypeOK, Stamp, Process
<1>2. manifests' \in [Payload -> Manifest] /\ \A y \in Payload : Kept(y)
  BY <1>1 DEF TypeOK, Manifest, Txn, SameRow, Kept
<1>3. TypeOK' /\ InPoll(p)'
  BY <1>1, <1>2 DEF TypeOK, InPoll, Attempting
<1>4. Holds(p)'
  BY <1>1, <1>2, RowsHeld DEF Holds, Held, Kept, SameRow
<1>5. Answers(p)'
  <2>1. proc[p].attempt = NoAttempt
    BY <1>1 DEF InPoll, Attempting
  <2>2. ASSUME NEW c \in proc[p].pending
        PROVE  Awaited(p, c)'
    <3>1. Awaited(p, c)
      BY <1>1 DEF Answers
    <3> QED BY <1>1, <1>2, <3>1, AwaitedKeeps DEF Awaited, IsOpen, Kept, SameRow, Present
  <2> QED BY <1>1, <2>1, <2>2 DEF Answers
<1>6. Owned(p)' = Owned(p)
  BY <1>1 DEF Owned
<1> QED BY <1>1, <1>2, <1>3, <1>4, <1>5, <1>6, MarkStep DEF Local

(* What an ingest still answers for when its transaction has ended *)
LEMMA EndedAnswers ==
    ASSUME IInv, NEW p \in Ingest, UNCHANGED attempts,
           manifests' = CommitOf(p) \/ manifests' = RollbackOf(p),
           proc'[p].pending = proc[p].pending, proc'[p].attempt = NoAttempt,
           proc'[p].pc = "leaving" => proc'[p].sweep = proc'[p].pending,
           proc'[p].sweep \subseteq proc'[p].pending
    PROVE  /\ Answers(p)' /\ Owned(p)' \subseteq Owned(p)
           /\ \A x \in Payload : manifests'[x].txn # p
<1>1. TypeOK /\ Answers(p)
  BY DEF IInv, Local
<1>2. \A x \in Payload :
          /\ manifests[x].txn = Committed => SameRow(x) /\ manifests'[x].txn = Committed
          /\ Present(x)' => Present(x) /\ SameRow(x)
          /\ manifests'[x].txn # p
  <2>1. CASE manifests' = CommitOf(p)
    BY <1>1, <2>1, CommitFacts, FetchAssumption DEF SameRow, Present
  <2>2. CASE manifests' = RollbackOf(p)
    BY <1>1, <2>2, RollbackFacts, FetchAssumption DEF SameRow, Kept, Withdrawn, Present
  <2> QED BY <2>1, <2>2
<1>3. ASSUME NEW c \in proc[p].pending
      PROVE  Awaited(p, c)'
  <2>1. IsOpen(c.attempt) /\ c.attempt # NoAttempt
    BY <1>1, AttemptTypes DEF Answers, Awaited, IsOpen, NoAttempt
  <2> QED BY <1>2, <2>1, AwaitedKeeps DEF IsOpen
<1>4. Owned(p)' \subseteq Owned(p)
  BY DEF Owned
<1> QED BY <1>1, <1>2, <1>3, <1>4 DEF Answers

LEMMA LeavingFacts ==
    ASSUME IInv, NEW p \in Ingest, NEW raised \in BOOLEAN, UNCHANGED attempts,
           manifests' = CommitOf(p) \/ manifests' = RollbackOf(p),
           proc' = [proc EXCEPT ![p] = Leaving(p, raised)]
    PROVE  /\ Local(p)' /\ Owned(p)' \subseteq Owned(p) /\ manifests' \in [Payload -> Manifest]
           /\ proc' \in [Ingest -> Process] /\ \A q \in Ingest : q # p => proc'[q] = proc[q]
<1>1. TypeOK /\ proc[p] \in Process
  BY DEF IInv, TypeOK
<1>2. /\ Leaving(p, raised) \in Process /\ Leaving(p, raised).pc = "leaving"
      /\ Leaving(p, raised).attempt = NoAttempt
      /\ Leaving(p, raised).pending = proc[p].pending /\ Leaving(p, raised).sweep = proc[p].pending
  BY <1>1 DEF Leaving, Idle, Process
<1>3. /\ proc' \in [Ingest -> Process] /\ \A q \in Ingest : q # p => proc'[q] = proc[q]
      /\ proc'[p] = Leaving(p, raised)
  BY <1>1, <1>2 DEF TypeOK
<1>4. /\ Answers(p)' /\ Owned(p)' \subseteq Owned(p)
      /\ \A x \in Payload : manifests'[x].txn # p
  BY <1>2, <1>3, EndedAnswers
<1>5. InPoll(p)' /\ Holds(p)'
  BY <1>2, <1>3, <1>4 DEF InPoll, Holds, Attempting
<1>6. manifests' \in [Payload -> Manifest]
  BY <1>1, CommitFacts, RollbackFacts
<1> QED BY <1>3, <1>4, <1>5, <1>6 DEF Local

LEMMA DepartKeeps ==
    ASSUME IInv, NEW p \in Ingest,
           Depart(p) \/ Unwind(p) \/ CommitAndRaise(p) \/ CommitLost(p)
               \/ \E recorded \in BOOLEAN : LoadFails(p, recorded)
    PROVE  IInv'
<1>1. PICK raised \in BOOLEAN : proc' = [proc EXCEPT ![p] = Leaving(p, raised)]
  BY DEF Depart, Unwind, CommitAndRaise, CommitLost, LoadFails, Raised
<1>2. /\ UNCHANGED <<clock, files, attempts>>
      /\ manifests' = CommitOf(p) \/ manifests' = RollbackOf(p)
  BY DEF Depart, Unwind, CommitAndRaise, CommitLost, LoadFails
<1>3. TypeOK /\ proc[p] \in Process
  BY DEF IInv, TypeOK
<1>4. refusals' \subseteq Payload /\ faults' \in 0..MaxFaults
  <2>1. ASSUME NEW recorded \in BOOLEAN, LoadFails(p, recorded)
        PROVE  refusals' \subseteq Payload /\ faults' = faults
    BY <1>3, <2>1 DEF LoadFails, TypeOK, Process
  <2>2. CommitLost(p) => refusals' = refusals /\ faults < MaxFaults /\ faults' = faults + 1
    BY DEF CommitLost, Fault
  <2>3. Depart(p) \/ Unwind(p) \/ CommitAndRaise(p) => UNCHANGED <<refusals, faults>>
    BY DEF Depart, Unwind, CommitAndRaise
  <2> QED BY <1>3, <2>1, <2>2, <2>3, FetchAssumption DEF TypeOK
<1>5. /\ Local(p)' /\ Owned(p)' \subseteq Owned(p) /\ manifests' \in [Payload -> Manifest]
      /\ proc' \in [Ingest -> Process] /\ \A q \in Ingest : q # p => proc'[q] = proc[q]
  BY <1>1, <1>2, LeavingFacts
<1>6. TypeOK'
  BY <1>2, <1>3, <1>4, <1>5 DEF TypeOK
<1> QED BY <1>2, <1>5, <1>6, CommitStep, RollbackStep

(* A commit the poll goes on after *)
LEMMA CommitKeeps ==
    ASSUME IInv, NEW p \in Ingest, Commit(p) \/ RetryTransfer(p)
    PROVE  IInv'
<1>1. /\ UNCHANGED <<clock, refusals, files, attempts, faults>> /\ manifests' = CommitOf(p)
      /\ proc[p].pc \in {"next", "broken"} /\ proc' = [proc EXCEPT ![p].pc = "next"]
      /\ TypeOK /\ InPoll(p) /\ Answers(p) /\ proc[p] \in Process
  BY DEF Commit, RetryTransfer, IInv, Local, TypeOK, Process
<1>2. /\ proc' \in [Ingest -> Process] /\ \A q \in Ingest : q # p => proc'[q] = proc[q]
      /\ proc'[p].pc = "next" /\ proc'[p].attempt = proc[p].attempt
      /\ proc'[p].pending = proc[p].pending /\ proc'[p].sweep = proc[p].sweep
  BY <1>1 DEF TypeOK, Process
<1>3. proc[p].attempt = NoAttempt
  BY <1>1 DEF InPoll, Attempting
<1>4. /\ Answers(p)' /\ Owned(p)' \subseteq Owned(p)
      /\ \A x \in Payload : manifests'[x].txn # p
  BY <1>1, <1>2, <1>3, EndedAnswers DEF Answers
<1>5. InPoll(p)' /\ Holds(p)'
  BY <1>2, <1>3, <1>4 DEF InPoll, Holds, Attempting
<1>6. TypeOK'
  BY <1>1, <1>2, CommitFacts DEF TypeOK
<1> QED BY <1>1, <1>2, <1>4, <1>5, <1>6, CommitStep DEF Local

LEMMA KillKeeps ==
    ASSUME IInv, NEW p \in Ingest, Kill(p)
    PROVE  IInv'
<1>1. /\ TypeOK /\ faults' \in 0..MaxFaults /\ manifests' = RollbackOf(p)
      /\ UNCHANGED <<clock, refusals, files, attempts>>
      /\ proc' = [proc EXCEPT ![p] = Idle]
  BY FetchAssumption DEF IInv, TypeOK, Kill, Fault
<1>2. /\ proc' \in [Ingest -> Process] /\ \A q \in Ingest : q # p => proc'[q] = proc[q]
      /\ proc'[p] = Idle
  BY <1>1, IdleTypes DEF TypeOK
<1>3. /\ manifests' \in [Payload -> Manifest]
      /\ \A x \in Payload : IF manifests[x].txn = p THEN Withdrawn(x) ELSE Kept(x)
  BY <1>1, RollbackFacts
<1>4. \A x \in Payload : manifests'[x].txn # p
  BY <1>3, FetchAssumption DEF Withdrawn, Kept
<1>5. Local(p)' /\ Owned(p)' = {}
  BY <1>2, <1>4, IdleLocal
<1>6. TypeOK'
  BY <1>1, <1>2, <1>3 DEF TypeOK
<1> QED BY <1>1, <1>2, <1>5, <1>6, RollbackStep

LEMMA AdvanceKeeps ==
    ASSUME IInv, Advance
    PROVE  IInv'
<1>1. /\ TypeOK /\ clock < MaxTime /\ clock' = clock + 1
      /\ UNCHANGED <<manifests, refusals, files, attempts, proc, faults>>
  BY DEF IInv, Advance
<1>2. TypeOK'
  BY <1>1, FetchAssumption DEF TypeOK, Time
<1>3. Told'
  <2>1. clock \in Nat /\ \A a \in DOMAIN attempts : attempts[a].attempted \in Nat
    BY <1>1, AttemptTypes, FetchAssumption DEF TypeOK, Time, Attempt
  <2> QED BY <1>1, <2>1 DEF IInv, Told
<1>4. Rows' /\ Chain' /\ CommittedNotFailed' /\ Separate'
  BY <1>1 DEF IInv, Rows, Chain, CommittedNotFailed, Separate, Owned, Present
<1>5. \A p \in Ingest : Local(p)'
  BY <1>1 DEF IInv, Local, InPoll, Holds, Held, Answers, Awaited, IsOpen, Present
<1> QED BY <1>2, <1>3, <1>4, <1>5 DEF IInv

LEMMA InitInv == Init => IInv
<1> SUFFICES ASSUME Init
             PROVE  IInv
  OBVIOUS
<1>1. \A x \in Payload : /\ manifests[x] \in Manifest /\ manifests[x].key = NoKey
                         /\ manifests[x].txn = NoTxn
  BY FetchAssumption DEF Init, Absent, Manifest, Time, Txn
<1>2. attempts \in Seq(Attempt) /\ Len(attempts) = 0 /\ DOMAIN attempts = {}
  BY EmptySeq, LenProperties DEF Init
<1>3. \A p \in Ingest : proc[p] = Idle
  BY DEF Init
<1>4. TypeOK
  BY <1>1, <1>2, <1>3, IdleTypes, FetchAssumption DEF Init, TypeOK, Time
<1>5. Rows /\ Chain /\ CommittedNotFailed
  BY <1>1, FetchAssumption DEF Rows, Chain, CommittedNotFailed, Present
<1>6. Told
  BY <1>2 DEF Told
<1>7. \A p \in Ingest : Local(p)
  BY <1>1, <1>3, IdleTypes, FetchAssumption
  DEF Local, InPoll, Attempting, Holds, Answers
<1>8. Separate
  BY <1>3, IdleTypes DEF Separate, Owned
<1> QED BY <1>4, <1>5, <1>6, <1>7, <1>8 DEF IInv

LEMMA NextKeeps == IInv /\ [Next]_vars => IInv'
<1> SUFFICES ASSUME IInv, [Next]_vars
             PROVE  IInv'
  OBVIOUS
<1>1. ASSUME NEW p \in Ingest, Polling(p)
      PROVE  IInv'
  BY <1>1, SweepKeeps, BeginKeeps, BeginHorizonKeeps, PollKeeps, DownloadKeeps, PollFailures,
     RegisterKnownKeeps, ReadHeadKeeps, InsertKeeps, SealKeeps DEF Polling
<1>2. ASSUME NEW p \in Ingest, Ending(p)
      PROVE  IInv'
  BY <1>2, StampKeeps, CommitKeeps, DepartKeeps, FailUnresolvedKeeps, ExitKeeps DEF Ending
<1>3. ASSUME NEW p \in Ingest, Kill(p) \/ CommitLost(p)
      PROVE  IInv'
  BY <1>3, KillKeeps, DepartKeeps
<1>4. CASE UNCHANGED vars
  <2>1. TypeOK' /\ Rows' /\ Chain' /\ Told' /\ CommittedNotFailed' /\ Separate'
    BY <1>4 DEF vars, IInv, TypeOK, Rows, Chain, Told, CommittedNotFailed, Separate, Owned, Present
  <2>2. \A p \in Ingest : Local(p)'
    BY <1>4 DEF vars, IInv, Local, InPoll, Holds, Held, Answers, Awaited, IsOpen, Present
  <2> QED BY <2>1, <2>2 DEF IInv
<1> QED BY <1>1, <1>2, <1>3, <1>4, AdvanceKeeps DEF Next

(* Who answers for an open attempt, and what its transaction holds of it *)
THEOREM Invariant == Spec => []IInv
BY InitInv, NextKeeps, PTL DEF Spec

-----------------------------------------------------------------------------
(* The state of the ledger, of the manifests and of the ingests is typed. *)
THEOREM LedgerTypes == Spec => []TypeOK
<1>1. IInv => TypeOK
  BY DEF IInv
<1> QED BY <1>1, Invariant, PTL

(* A recorded success is over a committed manifest with its bytes on disk, *)
(* and an unchanged one over a manifest of its own key                     *)
(* (fetch_attempts.py, finalize_visible).                                  *)
THEOREM SuccessesAreCommitted == Spec => []SuccessIsCommitted
<1>1. IInv => SuccessIsCommitted
  <2> SUFFICES ASSUME IInv, NEW a \in DOMAIN attempts, attempts[a].outcome \in Success
               PROVE  LET x == attempts[a].manifest
                      IN  /\ manifests[x].txn = Committed /\ <<manifests[x].key, x>> \in files
                          /\ attempts[a].outcome = "unchanged" => manifests[x].key = attempts[a].key
    BY DEF SuccessIsCommitted
  <2>1. /\ attempts[a].manifest \in Payload /\ manifests[attempts[a].manifest].txn = Committed
        /\ attempts[a].outcome = "unchanged" => manifests[attempts[a].manifest].key = attempts[a].key
    BY DEF IInv, Told
  <2> QED BY <2>1, FetchAssumption DEF IInv, Rows, Present
<1> QED BY <1>1, Invariant, PTL

(* No poll whose sealed manifest is committed is recorded as failed        *)
(* (fetch_attempts.py, fail_unresolved).                                   *)
THEOREM CommittedNeverFailed == Spec => []CommittedNotFailed
<1>1. IInv => CommittedNotFailed
  BY DEF IInv
<1> QED BY <1>1, Invariant, PTL

(* Supersession is a chain within one slot (manifests.py). *)
THEOREM ChainsNeverFork == Spec => []OneSuccessor
<1>1. IInv => OneSuccessor
  BY DEF IInv, Chain, OneSuccessor
<1> QED BY <1>1, Invariant, PTL

-----------------------------------------------------------------------------
(* The refinement: a sweep, a failure or an opened attempt is one step of   *)
(* the append-once ledger, a commit publishes, and nothing else shows.     *)

Published == [x \in Payload |-> IF manifests[x].txn = Committed THEN manifests[x].key ELSE NoKey]

LedgerStep == [Ledger!Next]_<<attempts, Published>>

LEMMA PublishedKept ==
    ASSUME \A x \in Payload :
              /\ manifests'[x].txn = Committed <=> manifests[x].txn = Committed
              /\ manifests[x].txn = Committed => manifests'[x].key = manifests[x].key
    PROVE  Published' = Published
BY DEF Published

LEMMA QuietRefines ==
    ASSUME UNCHANGED attempts,
           \A x \in Payload :
              /\ manifests'[x].txn = Committed <=> manifests[x].txn = Committed
              /\ manifests[x].txn = Committed => manifests'[x].key = manifests[x].key
    PROVE  LedgerStep
BY PublishedKept DEF LedgerStep

LEMMA FailedRefines ==
    ASSUME IInv, NEW a, IsOpen(a), attempts' = Closed(a, "failed", NoPayload),
           UNCHANGED <<clock, manifests>>
    PROVE  LedgerStep
<1>1. a \in DOMAIN attempts /\ clock \in Time /\ attempts[a].outcome = "open"
      /\ clock >= attempts[a].attempted
  BY AttemptTypes, FetchAssumption DEF IInv, TypeOK, Told, IsOpen, Attempt, Time
<1>2. Published' = Published
  BY DEF Published
<1>3. Ledger!Close(a, "failed", NoPayload, clock)
  BY <1>1, <1>2 DEF Ledger!Close, Closed, Published
<1> QED BY <1>1, <1>3 DEF LedgerStep, Ledger!Next

LEMMA CommitRefines ==
    ASSUME IInv, NEW p \in Ingest, UNCHANGED attempts, manifests' = CommitOf(p)
    PROVE  LedgerStep
<1>1. \A x \in Payload :
          /\ SameRow(x)
          /\ manifests'[x].txn = IF manifests[x].txn = p THEN Committed ELSE manifests[x].txn
  BY CommitFacts DEF IInv
<1>2. Published' \in [Payload -> Key \cup {NoKey}]
  BY CommitFacts DEF IInv, Published, Manifest
<1>3. \A x \in Payload : Published[x] # NoKey => Published'[x] = Published[x]
  BY <1>1 DEF Published, SameRow
<1>4. PICK rows \in [Payload -> Key \cup {NoKey}] : rows = Published'
  BY <1>2
<1>5. Ledger!Publish(rows)
  BY <1>3, <1>4 DEF Ledger!Publish, Published
<1>6. Ledger!Next
  BY <1>5 DEF Ledger!Next
<1> QED BY <1>6 DEF LedgerStep

LEMMA RollbackRefines ==
    ASSUME IInv, NEW p \in Ingest, UNCHANGED attempts, manifests' = RollbackOf(p)
    PROVE  LedgerStep
<1>1. \A x \in Payload : IF manifests[x].txn = p THEN Withdrawn(x) ELSE Kept(x)
  BY RollbackFacts DEF IInv
<1> QED BY <1>1, QuietRefines, FetchAssumption DEF Withdrawn, Kept, SameRow

LEMMA SweepRefines ==
    ASSUME IInv, NEW p \in Ingest, Sweep(p)
    PROVE  LedgerStep
<1>1. /\ TypeOK /\ Rows /\ Told /\ Answers(p) /\ proc[p] \in Process
      /\ UNCHANGED <<clock, manifests, refusals, files, faults>>
  BY DEF IInv, Local, TypeOK, Sweep
<1>2. PICK c \in proc[p].sweep : Sweep(p)!2!(c)
  BY DEF Sweep
<1>3. IsOpen(c.attempt) /\ Awaited(p, c) /\ c \in Candidate
  BY <1>1 DEF Answers, Awaited, Process
<1>4. CASE Finalizable(p, c)
  <2>1. attempts' = Closed(c.attempt, c.outcome, c.manifest)
    BY <1>2, <1>4
  <2>2. /\ c.attempt \in DOMAIN attempts /\ clock \in Time /\ attempts[c.attempt].outcome = "open"
        /\ clock >= attempts[c.attempt].attempted
        /\ c.manifest \in Payload /\ c.outcome \in {"new", "unchanged"}
    BY <1>1, <1>3, AttemptTypes, FetchAssumption
    DEF TypeOK, Told, IsOpen, Attempt, Time, Candidate, Success
  <2>3. Published' = Published
    BY <1>1 DEF Published
  <2>4. /\ Published[c.manifest] # NoKey
        /\ c.outcome = "unchanged" => Published[c.manifest] = attempts[c.attempt].key
    BY <1>1, <1>3, <1>4, <2>2, FetchAssumption DEF Published, Finalizable, Rows, Awaited
  <2>5. Ledger!Succeed(c.attempt, c.outcome, c.manifest, clock)
    BY <2>1, <2>2, <2>3, <2>4 DEF Ledger!Succeed, Ledger!Close, Closed, Published
  <2>6. Ledger!Next
    BY <2>2, <2>5 DEF Ledger!Next
  <2> QED BY <2>6 DEF LedgerStep
<1>5. CASE ~Finalizable(p, c)
  BY <1>1, <1>2, <1>5, QuietRefines
<1> QED BY <1>4, <1>5

LEMMA BeginRefines ==
    ASSUME IInv, NEW p \in Ingest, Begin(p)
    PROVE  LedgerStep
<1>1. /\ TypeOK /\ InPoll(p) /\ proc[p].pc = "begin" /\ UNCHANGED manifests
      /\ attempts' = Append(attempts, [key |-> proc[p].key, attempted |-> clock, completed |-> 0,
                                       outcome |-> "open", manifest |-> NoPayload])
  BY DEF IInv, Local, Begin
<1>2. proc[p].key \in Key /\ clock \in Time
  BY <1>1 DEF InPoll, TypeOK
<1>3. Published' = Published
  BY <1>1 DEF Published
<1>4. Ledger!Open(proc[p].key, clock)
  BY <1>1, <1>3 DEF Ledger!Open, Published
<1> QED BY <1>2, <1>4 DEF LedgerStep, Ledger!Next

(* A row that only its own transaction sees is not published *)
LEMMA PrivateRefines ==
    ASSUME IInv, NEW p \in Ingest, RegisterKnown(p) \/ Insert(p) \/ Seal(p) \/ Stamp(p)
    PROVE  LedgerStep
<1>1. TypeOK /\ Rows /\ InPoll(p) /\ proc[p] \in Process
  BY DEF IInv, Local, TypeOK
<1>2. CASE RegisterKnown(p) /\ Conflicting(p)
  <2>1. attempts' = Closed(proc[p].attempt, "failed", NoPayload) /\ UNCHANGED <<clock, manifests>>
        /\ proc[p].pc = "register"
    BY <1>2 DEF RegisterKnown, PollFails
  <2> QED BY <2>1, CurrentOwned, FailedRefines DEF Attempting
<1>3. CASE RegisterKnown(p) /\ ~Conflicting(p)
  <2>1. UNCHANGED attempts /\ manifests' = [manifests EXCEPT ![proc[p].payload].lock = p]
    BY <1>3 DEF RegisterKnown
  <2>2. \A x \in Payload : manifests'[x].txn = manifests[x].txn /\ manifests'[x].key = manifests[x].key
    BY <1>1, <2>1 DEF TypeOK, Manifest
  <2> QED BY <2>1, <2>2, QuietRefines
<1>4. CASE Insert(p)
  <2> DEFINE z == proc[p].payload
             row == [Absent EXCEPT !.key = proc[p].key, !.supersedes = proc[p].head, !.fetched = clock,
                                   !.attempt = proc[p].attempt, !.txn = p]
  <2>1. UNCHANGED attempts /\ manifests' = [manifests EXCEPT ![z] = row]
        /\ z \in Payload /\ ~Present(z)
    BY <1>1, <1>4 DEF Insert, Rivals, InPoll
  <2>2. row.txn = p
    BY DEF Absent
  <2> HIDE DEF row
  <2>3. manifests[z].txn = NoTxn /\ manifests'[z].txn = p
        /\ \A x \in Payload : x # z => manifests'[x] = manifests[x]
    BY <1>1, <2>1, <2>2 DEF TypeOK, Rows, Present
  <2> QED BY <2>1, <2>3, QuietRefines, FetchAssumption
<1>5. CASE Seal(p)
  <2>1. UNCHANGED attempts /\ manifests' = [manifests EXCEPT ![proc[p].payload].sealed = TRUE]
    BY <1>5 DEF Seal
  <2>2. \A x \in Payload : manifests'[x].txn = manifests[x].txn /\ manifests'[x].key = manifests[x].key
    BY <1>1, <2>1 DEF TypeOK, Manifest
  <2> QED BY <2>1, <2>2, QuietRefines
<1>6. CASE Stamp(p)
  <2>1. UNCHANGED attempts /\ manifests' = [manifests EXCEPT ![proc[p].payload].stamp = p]
    BY <1>6 DEF Stamp
  <2>2. \A x \in Payload : manifests'[x].txn = manifests[x].txn /\ manifests'[x].key = manifests[x].key
    BY <1>1, <2>1 DEF TypeOK, Manifest
  <2> QED BY <2>1, <2>2, QuietRefines
<1> QED BY <1>2, <1>3, <1>4, <1>5, <1>6

LEMMA FailuresRefine ==
    ASSUME IInv, NEW p \in Ingest,
           DownloadFails(p) \/ RegisterFails(p) \/ SealFails(p) \/ FailUnresolved(p)
              \/ \E x \in Payload : Download(p, x)
    PROVE  LedgerStep
<1>1. CASE DownloadFails(p) \/ RegisterFails(p) \/ SealFails(p)
  <2>1. /\ proc[p].pc \in Attempting /\ UNCHANGED <<clock, manifests>>
        /\ attempts' = Closed(proc[p].attempt, "failed", NoPayload)
    BY <1>1 DEF DownloadFails, RegisterFails, SealFails, PollFails, Attempting
  <2> QED BY <2>1, CurrentOwned, FailedRefines
<1>2. CASE FailUnresolved(p)
  <2>1. PICK c \in proc[p].pending : attempts' = Closed(c.attempt, "failed", NoPayload)
    BY <1>2 DEF FailUnresolved
  <2>2. IsOpen(c.attempt)
    BY DEF IInv, Local, Answers, Awaited
  <2> QED BY <1>2, <2>1, <2>2, FailedRefines DEF FailUnresolved
<1>3. ASSUME NEW x \in Payload, Download(p, x)
      PROVE  LedgerStep
  <2>1. proc[p].pc = "download" /\ UNCHANGED <<clock, manifests>>
    BY <1>3 DEF Download
  <2>2. UNCHANGED attempts \/ attempts' = Closed(proc[p].attempt, "failed", NoPayload)
    BY <1>3 DEF Download, PollFails
  <2> QED BY <2>1, <2>2, CurrentOwned, FailedRefines, QuietRefines DEF Attempting
<1> QED BY <1>1, <1>2, <1>3

LEMMA StepRefines == IInv /\ [Next]_vars => LedgerStep
<1> SUFFICES ASSUME IInv, [Next]_vars
             PROVE  LedgerStep
  OBVIOUS
<1>1. ASSUME NEW p \in Ingest, Polling(p)
      PROVE  LedgerStep
  <2>1. ASSUME BeginHorizon(p) \/ ReadHead(p) \/ \E k \in Key : Poll(p, k)
        PROVE  LedgerStep
    BY <2>1, QuietRefines DEF BeginHorizon, ReadHead, Poll
  <2> QED BY <1>1, <2>1, SweepRefines, BeginRefines, FailuresRefine, PrivateRefines DEF Polling
<1>2. ASSUME NEW p \in Ingest, Ending(p)
      PROVE  LedgerStep
  <2>1. ASSUME Exit(p)
        PROVE  LedgerStep
    BY <2>1, QuietRefines DEF Exit
  <2>2. ASSUME Commit(p) \/ Depart(p) \/ RetryTransfer(p) \/ CommitAndRaise(p)
        PROVE  LedgerStep
    BY <2>2, CommitRefines DEF Commit, Depart, RetryTransfer, CommitAndRaise
  <2>3. ASSUME Unwind(p) \/ \E recorded \in BOOLEAN : LoadFails(p, recorded)
        PROVE  LedgerStep
    BY <2>3, RollbackRefines DEF Unwind, LoadFails
  <2> QED BY <1>2, <2>1, <2>2, <2>3, FailuresRefine, PrivateRefines DEF Ending
<1>3. ASSUME NEW p \in Ingest, Kill(p) \/ CommitLost(p)
      PROVE  LedgerStep
  BY <1>3, RollbackRefines, CommitRefines DEF Kill, CommitLost
<1>4. CASE Advance \/ UNCHANGED vars
  BY <1>4, QuietRefines DEF Advance, vars
<1> QED BY <1>1, <1>2, <1>3, <1>4 DEF Next

(* The polls keep what migration 050 promises of the ledger: an attempt is  *)
(* closed once, as a success only over a committed manifest of its key,    *)
(* and a committed manifest is never withdrawn.                            *)
THEOREM PollsKeepTheLedger == Spec => ImplementsLedger
<1>1. Init => Ledger!Init
  BY FetchAssumption DEF Init, Ledger!Init, Absent
<1>2. IInv /\ [Next]_vars => [Ledger!Next]_<<attempts, Published>>
  BY StepRefines DEF LedgerStep
<1> QED BY <1>1, <1>2, Invariant, PTL DEF Spec, ImplementsLedger, Ledger!Spec, Published
=============================================================================
