--------------------------- MODULE Migrations_proofs ---------------------------
(* What a database has applied is always a beginning of the files, for      *)
(* every number of workers and databases; and a worker alone on its        *)
(* database loses no race for a role that a second attempt would not win.  *)
EXTENDS Migrations, TLAPS

WorkerRecord ==
    [pc : {"start", "next", "roles", "create", "record", "commit", "done", "failed"},
     version : 0..LastFile, attempt : 0..RaceAttempts,
     already : SUBSET (1..LastFile), made : BOOLEAN]

Inside == {"roles", "create", "record", "commit"}

(* A worker in a file has every earlier one behind it *)
Good(record, done) ==
    /\ record.already \subseteq done
    /\ record.pc = "start" => record.version = 0
    /\ record.pc = "next" => 1..record.version \subseteq done
    /\ record.pc \in Inside => /\ record.version \in 1..LastFile
                              /\ \A k \in 1..LastFile : k < record.version => k \in done
    /\ record.pc = "create" => record.version \in Creates
    /\ record.made => record.version \in Creates /\ record.pc \in {"record", "commit"}

Behind(w) == Good(workers[w], AppliedTo(w))

MigrationInv == MigrationTypeOK /\ InOrder /\ \A w \in Worker : Behind(w)

(* Steps that change one worker's record and nothing else *)
LEMMA MovedKeeps ==
    ASSUME MigrationInv, NEW w \in Worker, NEW record \in WorkerRecord, Moved(w, record),
           Good(record, AppliedTo(w))
    PROVE  MigrationInv'
<1>1. /\ workers' = [workers EXCEPT ![w] = record] /\ applied' = applied /\ roles' = roles
      /\ workers \in [Worker -> WorkerRecord]
  BY DEF Moved, MigrationInv, MigrationTypeOK, WorkerRecord
<1>2. MigrationTypeOK'
  BY <1>1 DEF MigrationInv, MigrationTypeOK, WorkerRecord
<1>3. ASSUME NEW q \in Worker PROVE Behind(q)'
  <2>1. CASE q = w
    BY <1>1, <2>1 DEF Behind, AppliedTo
  <2>2. CASE q # w
    BY <1>1, <2>2 DEF MigrationInv, Behind, AppliedTo
  <2> QED  BY <2>1, <2>2
<1> QED  BY <1>1, <1>2, <1>3 DEF MigrationInv, InOrder

LEMMA CommitKeeps ==
    ASSUME MigrationInv, NEW w \in Worker, Commit(w)
    PROVE  MigrationInv'
<1> DEFINE k == workers[w].version
           d == DatabaseOf[w]
<1>1. /\ workers[w].pc = "commit" /\ workers \in [Worker -> WorkerRecord]
      /\ applied' = [applied EXCEPT ![d] = @ \cup {k}]
      /\ roles' = IF workers[w].made THEN roles \cup {k} ELSE roles
      /\ workers' = [workers EXCEPT ![w].pc = "next", ![w].made = FALSE]
  BY DEF Commit, MigrationInv, MigrationTypeOK, WorkerRecord, AppliedTo
<1>2. k \in 1..LastFile /\ d \in Database /\ LastFile \in Nat
  BY <1>1, MigrationsAssumption DEF MigrationInv, Behind, Good, Inside
<1>3. applied' \in [Database -> SUBSET (1..LastFile)]
  BY <1>1, <1>2 DEF MigrationInv, MigrationTypeOK
<1>4. \A e \in Database : applied[e] \subseteq applied'[e]
  BY <1>1 DEF MigrationInv, MigrationTypeOK
<1>5. 1..k \subseteq applied'[d]
  <2>1. applied'[d] = applied[d] \cup {k}
    BY <1>1, <1>2 DEF MigrationInv, MigrationTypeOK
  <2>2. \A j \in 1..LastFile : j < k => j \in applied[d]
    BY <1>1 DEF MigrationInv, Behind, Good, Inside, AppliedTo
  <2> QED  BY <1>2, <2>1, <2>2
<1>6. InOrder'
  <2> SUFFICES ASSUME NEW e \in Database, NEW j \in applied'[e]
               PROVE  1..j \subseteq applied'[e]
    BY DEF InOrder
  <2>1. CASE e = d /\ j = k
    BY <1>5, <2>1
  <2>2. CASE ~(e = d /\ j = k)
    <3>1. j \in applied[e]
      BY <1>1, <1>2, <2>2 DEF MigrationInv, MigrationTypeOK
    <3> QED  BY <1>4, <3>1 DEF MigrationInv, InOrder
  <2> QED  BY <2>1, <2>2
<1>7. /\ workers' \in [Worker -> WorkerRecord]
      /\ workers'[w].version = k /\ workers'[w].already = workers[w].already
      /\ workers'[w].pc = "next" /\ ~workers'[w].made
      /\ \A q \in Worker : q # w => workers'[q] = workers[q]
  BY <1>1 DEF WorkerRecord
<1>8. ASSUME NEW q \in Worker PROVE Behind(q)'
  <2>1. AppliedTo(q) \subseteq AppliedTo(q)'
    BY <1>4, MigrationsAssumption DEF AppliedTo
  <2>2. CASE q = w
    <3>1. workers'[q].already \subseteq AppliedTo(q)'
      BY <1>7, <2>1, <2>2 DEF MigrationInv, Behind, Good
    <3> QED  BY <1>5, <1>7, <2>2, <3>1 DEF Behind, Good, Inside, AppliedTo
  <2>3. CASE q # w
    BY <1>7, <2>1, <2>3 DEF MigrationInv, Behind, Good
  <2> QED  BY <2>2, <2>3
<1>9. roles' \subseteq Creates
  BY <1>1 DEF MigrationInv, MigrationTypeOK, Behind, Good
<1> QED  BY <1>3, <1>6, <1>7, <1>8, <1>9 DEF MigrationInv, MigrationTypeOK, WorkerRecord

LEMMA MigrationInvariant == MigrationSpec => []MigrationInv
<1>1. MigrationInit => MigrationInv
  BY MigrationsAssumption DEF MigrationInit, MigrationInv, MigrationTypeOK, InOrder,
                              Behind, Good, Inside, Resting, AppliedTo
<1>2. MigrationInv /\ [MigrationNext]_migrationVars => MigrationInv'
  <2> SUFFICES ASSUME MigrationInv, [MigrationNext]_migrationVars PROVE MigrationInv'
    OBVIOUS
  <2>1. ASSUME NEW w \in Worker
        PROVE  /\ workers[w] \in WorkerRecord /\ Good(workers[w], AppliedTo(w))
               /\ AppliedTo(w) \subseteq 1..LastFile
    BY MigrationsAssumption DEF MigrationInv, MigrationTypeOK, WorkerRecord, Behind, AppliedTo
  <2>2. ASSUME NEW w \in Worker, Read(w) PROVE MigrationInv'
    <3> DEFINE record == [workers[w] EXCEPT !.pc = "next", !.already = AppliedTo(w)]
    <3>1. workers[w].pc = "start" /\ Moved(w, record)
      BY <2>2 DEF Read
    <3>2. record \in WorkerRecord
      BY <2>1 DEF WorkerRecord
    <3>3. workers[w].version = 0 /\ ~workers[w].made /\ 1..0 = {}
      BY <2>1, <3>1 DEF Good
    <3>4. /\ record.already = AppliedTo(w) /\ record.pc = "next"
          /\ record.version = 0 /\ record.made = FALSE
      BY <2>1, <3>3 DEF WorkerRecord
    <3>5. Good(record, AppliedTo(w))
      BY <3>3, <3>4 DEF Good, Inside
    <3> QED  BY <3>1, <3>2, <3>5, MovedKeeps
  <2>3. ASSUME NEW w \in Worker, NextFile(w) PROVE MigrationInv'
    <3> DEFINE k == workers[w].version + 1
               record == IF k > LastFile THEN [workers[w] EXCEPT !.pc = "done"]
                         ELSE IF k \in workers[w].already THEN [workers[w] EXCEPT !.version = k]
                         ELSE [workers[w] EXCEPT !.version = k, !.attempt = 1, !.pc = "roles"]
    <3>1. workers[w].pc = "next" /\ Moved(w, record)
      BY <2>3 DEF NextFile
    <3>2. record \in WorkerRecord
      <4>1. workers[w] \in WorkerRecord /\ workers[w].version \in 0..LastFile
        BY <2>1 DEF WorkerRecord
      <4>2. k > LastFile \/ k \in 0..LastFile
        BY <4>1, MigrationsAssumption
      <4>3. 1 \in 0..RaceAttempts
        BY MigrationsAssumption
      <4> QED  BY <4>1, <4>2, <4>3 DEF WorkerRecord
    <3>3. Good(record, AppliedTo(w))
      BY <2>1, <3>1, MigrationsAssumption DEF WorkerRecord, Good, Inside
    <3> QED  BY <3>1, <3>2, <3>3, MovedKeeps
  <2>4. ASSUME NEW w \in Worker, LookForRole(w) PROVE MigrationInv'
    <3> DEFINE record == [workers[w] EXCEPT !.pc =
                            IF workers[w].version \in Creates \ roles THEN "create" ELSE "record"]
    <3>1. workers[w].pc = "roles" /\ Moved(w, record)
      BY <2>4 DEF LookForRole
    <3>2. record \in WorkerRecord /\ Good(record, AppliedTo(w))
      BY <2>1, <3>1 DEF WorkerRecord, Good, Inside
    <3> QED  BY <3>1, <3>2, MovedKeeps
  <2>5. ASSUME NEW w \in Worker, workers[w].pc \in Inside
        PROVE  /\ Retried(w) \in WorkerRecord /\ Good(Retried(w), AppliedTo(w))
               /\ Failed(w) \in WorkerRecord /\ Good(Failed(w), AppliedTo(w))
    <3>1. Failed(w) \in WorkerRecord /\ Good(Failed(w), AppliedTo(w))
      BY <2>1 DEF WorkerRecord, Good, Inside, Failed
    <3>2. CASE workers[w].attempt = RaceAttempts
      BY <3>1, <3>2 DEF Retried
    <3>3. CASE workers[w].attempt # RaceAttempts
      <4>1. Retried(w) = [workers[w] EXCEPT !.pc = "roles", !.attempt = @ + 1, !.made = FALSE]
        BY <3>3 DEF Retried
      <4>2. workers[w] \in WorkerRecord /\ workers[w].attempt + 1 \in 0..RaceAttempts
        BY <2>1, <3>3, MigrationsAssumption DEF WorkerRecord
      <4>3. Retried(w) \in WorkerRecord
        BY <4>1, <4>2 DEF WorkerRecord
      <4>4. Good(Retried(w), AppliedTo(w))
        BY <2>1, <2>5, <4>1, <4>2 DEF WorkerRecord, Good, Inside
      <4> QED  BY <3>1, <4>3, <4>4
    <3> QED  BY <3>2, <3>3
  <2>6. ASSUME NEW w \in Worker, CreateRole(w) PROVE MigrationInv'
    <3> DEFINE record == [workers[w] EXCEPT !.pc = "record", !.made = TRUE]
    <3>1. /\ workers[w].pc = "create"
          /\ Moved(w, Retried(w)) \/ Moved(w, record)
      BY <2>6 DEF CreateRole
    <3>2. record \in WorkerRecord /\ Good(record, AppliedTo(w))
      BY <2>1, <3>1 DEF WorkerRecord, Good, Inside
    <3>3. workers[w].pc \in Inside
      BY <3>1 DEF Inside
    <3> QED  BY <2>5, <3>1, <3>2, <3>3, MovedKeeps
  <2>7. ASSUME NEW w \in Worker, RecordVersion(w) PROVE MigrationInv'
    <3> DEFINE record == [workers[w] EXCEPT !.pc = "commit"]
    <3>1. /\ workers[w].pc = "record"
          /\ Moved(w, Retried(w)) \/ Moved(w, Failed(w)) \/ Moved(w, record)
      BY <2>7 DEF RecordVersion
    <3>2. record \in WorkerRecord /\ Good(record, AppliedTo(w))
      BY <2>1, <3>1 DEF WorkerRecord, Good, Inside
    <3>3. workers[w].pc \in Inside
      BY <3>1 DEF Inside
    <3> QED  BY <2>5, <3>1, <3>2, <3>3, MovedKeeps
  <2>8. ASSUME NEW w \in Worker, Kill(w) PROVE MigrationInv'
    <3>1. Resting \in WorkerRecord /\ Good(Resting, AppliedTo(w))
      BY MigrationsAssumption DEF WorkerRecord, Good, Inside, Resting
    <3> QED  BY <2>8, <3>1, MovedKeeps DEF Kill
  <2>9. CASE UNCHANGED migrationVars
    BY <2>9 DEF migrationVars, MigrationInv, MigrationTypeOK, InOrder, Behind, AppliedTo
  <2> QED  BY <2>2, <2>3, <2>4, <2>6, <2>7, <2>8, <2>9, CommitKeeps DEF MigrationNext
<1> QED  BY <1>1, <1>2, PTL DEF MigrationSpec

(* What a database has is a beginning of the files, whoever applied them   *)
(* and wherever a worker died (migrate.py, migrate).                       *)
THEOREM AppliedInOrder == MigrationSpec => []InOrder
<1>1. MigrationInv => InOrder
  BY DEF MigrationInv
<1> QED  BY <1>1, MigrationInvariant, PTL

-----------------------------------------------------------------------------
Alone(w) == \A q \in Others(w) : DatabaseOf[q] # DatabaseOf[w]

(* A worker alone finds nothing applied that it did not read or apply, and  *)
(* after one lost race it finds the role.                                  *)
Won(record, done) ==
    /\ record.pc # "failed"
    /\ record.pc = "next" => \A k \in done : k \in record.already \/ k <= record.version
    /\ record.pc \in Inside =>
          /\ record.attempt >= 1 /\ record.version \notin record.already
          /\ \A k \in done : k \in record.already \/ k < record.version
          /\ record.attempt > 1 => record.version \in roles
    /\ record.pc = "create" => record.attempt = 1

RaceInv == \A w \in Worker : Alone(w) => Won(workers[w], AppliedTo(w))

LEMMA MovedWins ==
    ASSUME MigrationInv, RaceInv, NEW w \in Worker, NEW record, Moved(w, record),
           Alone(w) => Won(record, AppliedTo(w))
    PROVE  RaceInv'
<1>1. /\ workers' = [workers EXCEPT ![w] = record] /\ applied' = applied /\ roles' = roles
      /\ workers \in [Worker -> WorkerRecord]
  BY DEF Moved, MigrationInv, MigrationTypeOK, WorkerRecord
<1>2. ASSUME NEW q \in Worker, Alone(q) PROVE Won(workers[q], AppliedTo(q))'
  <2>1. CASE q = w
    BY <1>1, <1>2, <2>1 DEF Won, AppliedTo
  <2>2. CASE q # w
    <3>1. Won(workers[q], AppliedTo(q)) /\ workers'[q] = workers[q]
      BY <1>1, <1>2, <2>2 DEF RaceInv
    <3> QED  BY <1>1, <3>1 DEF Won, AppliedTo
  <2> QED  BY <2>1, <2>2
<1> QED  BY <1>2 DEF RaceInv, Alone, Others

LEMMA CommitWins ==
    ASSUME MigrationInv, RaceInv, NEW w \in Worker, Commit(w)
    PROVE  RaceInv'
<1> DEFINE k == workers[w].version
<1>1. /\ workers[w].pc = "commit" /\ workers \in [Worker -> WorkerRecord]
      /\ applied' = [applied EXCEPT ![DatabaseOf[w]] = @ \cup {k}]
      /\ roles \subseteq roles' /\ LastFile \in Nat
      /\ workers' = [workers EXCEPT ![w].pc = "next", ![w].made = FALSE]
  BY MigrationsAssumption DEF Commit, MigrationInv, MigrationTypeOK, WorkerRecord, AppliedTo
<1>2. ASSUME NEW q \in Worker, Alone(q) PROVE Won(workers[q], AppliedTo(q))'
  <2>1. Won(workers[q], AppliedTo(q)) /\ DatabaseOf[q] \in Database
    BY <1>2, MigrationsAssumption DEF RaceInv
  <2>2. CASE q = w
    <3>1. AppliedTo(w)' = AppliedTo(w) \cup {k}
      BY <1>1, <2>1, <2>2 DEF MigrationInv, MigrationTypeOK, AppliedTo
    <3>2. /\ workers'[w].version = k /\ workers'[w].already = workers[w].already
          /\ workers'[w].pc = "next" /\ k \in 0..LastFile
      BY <1>1 DEF WorkerRecord
    <3>3. \A j \in AppliedTo(w) : j \in workers[w].already \/ j < k
      BY <1>1, <2>1, <2>2 DEF Won, Inside
    <3>4. AppliedTo(w) \subseteq 1..LastFile
      BY <2>1, <2>2 DEF MigrationInv, MigrationTypeOK, AppliedTo
    <3>5. \A j \in AppliedTo(w)' : j \in workers'[w].already \/ j <= workers'[w].version
      BY <1>1, <3>1, <3>2, <3>3, <3>4
    <3> QED  BY <2>2, <3>2, <3>5 DEF Won, Inside
  <2>3. CASE q # w
    <3>1. DatabaseOf[w] # DatabaseOf[q]
      BY <1>2, <2>3 DEF Alone, Others
    <3>2. AppliedTo(q)' = AppliedTo(q) /\ workers'[q] = workers[q]
      BY <1>1, <2>1, <2>3, <3>1 DEF MigrationInv, MigrationTypeOK, AppliedTo
    <3> QED  BY <1>1, <2>1, <3>2 DEF Won
  <2> QED  BY <2>2, <2>3
<1> QED  BY <1>2 DEF RaceInv, Alone, Others

LEMMA RaceStep == ASSUME MigrationInv, RaceInv, [MigrationNext]_migrationVars PROVE RaceInv'
<1>1. ASSUME NEW w \in Worker
      PROVE  /\ workers[w] \in WorkerRecord /\ Good(workers[w], AppliedTo(w))
             /\ AppliedTo(w) \subseteq 1..LastFile
             /\ Alone(w) => Won(workers[w], AppliedTo(w))
  BY MigrationsAssumption
     DEF MigrationInv, MigrationTypeOK, WorkerRecord, Behind, AppliedTo, RaceInv
<1>2. ASSUME NEW w \in Worker, Read(w) PROVE RaceInv'
  <2> DEFINE record == [workers[w] EXCEPT !.pc = "next", !.already = AppliedTo(w)]
  <2>1. Moved(w, record)
    BY <1>2 DEF Read
  <2>2. record.pc = "next" /\ record.already = AppliedTo(w)
    BY <1>1 DEF WorkerRecord
  <2>3. Won(record, AppliedTo(w))
    BY <2>2 DEF Won, Inside
  <2> QED  BY <2>1, <2>3, MovedWins
<1>3. ASSUME NEW w \in Worker, NextFile(w) PROVE RaceInv'
  <2> DEFINE k == workers[w].version + 1
             record == IF k > LastFile THEN [workers[w] EXCEPT !.pc = "done"]
                       ELSE IF k \in workers[w].already THEN [workers[w] EXCEPT !.version = k]
                       ELSE [workers[w] EXCEPT !.version = k, !.attempt = 1, !.pc = "roles"]
  <2>1. workers[w].pc = "next" /\ Moved(w, record)
    BY <1>3 DEF NextFile
  <2>2. Alone(w) => Won(record, AppliedTo(w))
    <3> SUFFICES ASSUME Alone(w) PROVE Won(record, AppliedTo(w))
      OBVIOUS
    <3>1. \A j \in AppliedTo(w) : j \in workers[w].already \/ j < k
      BY <1>1, <2>1, MigrationsAssumption DEF Won, WorkerRecord
    <3>2. CASE k > LastFile
      BY <1>1, <3>2 DEF WorkerRecord, Won, Inside
    <3>3. CASE k <= LastFile /\ k \in workers[w].already
      <4>1. record = [workers[w] EXCEPT !.version = k]
        BY <1>1, <3>3, MigrationsAssumption DEF WorkerRecord
      <4> HIDE DEF record
      <4>2. record.pc = "next" /\ record.version = k /\ record.already = workers[w].already
        BY <1>1, <2>1, <4>1 DEF WorkerRecord
      <4> QED  BY <1>1, <3>1, <4>2, MigrationsAssumption DEF Won, Inside, WorkerRecord
    <3>4. CASE k <= LastFile /\ k \notin workers[w].already
      <4>1. record = [workers[w] EXCEPT !.version = k, !.attempt = 1, !.pc = "roles"]
        BY <1>1, <3>4, MigrationsAssumption DEF WorkerRecord
      <4> HIDE DEF record
      <4>2. /\ record.pc = "roles" /\ record.version = k /\ record.attempt = 1
            /\ record.already = workers[w].already
        BY <1>1, <4>1 DEF WorkerRecord
      <4> QED  BY <3>1, <3>4, <4>2 DEF Won, Inside
    <3> QED  BY <1>1, <3>2, <3>3, <3>4, MigrationsAssumption DEF WorkerRecord
  <2> QED  BY <2>1, <2>2, MovedWins
<1>4. ASSUME NEW w \in Worker, LookForRole(w) PROVE RaceInv'
  <2> DEFINE record == [workers[w] EXCEPT !.pc =
                          IF workers[w].version \in Creates \ roles THEN "create" ELSE "record"]
  <2>1. workers[w].pc = "roles" /\ Moved(w, record)
    BY <1>4 DEF LookForRole
  <2>2. /\ record.version = workers[w].version /\ record.attempt = workers[w].attempt
        /\ record.already = workers[w].already /\ workers[w].attempt \in Nat
        /\ record.pc = IF workers[w].version \in Creates \ roles THEN "create" ELSE "record"
    BY <1>1, MigrationsAssumption DEF WorkerRecord
  <2>3. Alone(w) => Won(record, AppliedTo(w))
    <3> HIDE DEF record
    <3> QED  BY <1>1, <2>1, <2>2 DEF Won, Inside
  <2> QED  BY <2>1, <2>3, MovedWins
<1>5. ASSUME NEW w \in Worker, CreateRole(w) PROVE RaceInv'
  <2> DEFINE record == [workers[w] EXCEPT !.pc = "record", !.made = TRUE]
  <2>1. /\ workers[w].pc = "create"
        /\ Moved(w, IF workers[w].version \in roles THEN Retried(w) ELSE record)
    BY <1>5 DEF CreateRole
  <2>2. Alone(w) => Won(record, AppliedTo(w))
    <3>1. /\ record.pc = "record" /\ record.version = workers[w].version
          /\ record.attempt = workers[w].attempt /\ record.already = workers[w].already
      BY <1>1 DEF WorkerRecord
    <3> HIDE DEF record
    <3> QED  BY <1>1, <2>1, <3>1 DEF Won, Inside
  <2>3. Alone(w) /\ workers[w].version \in roles => Won(Retried(w), AppliedTo(w))
    <3> SUFFICES ASSUME Alone(w), workers[w].version \in roles PROVE Won(Retried(w), AppliedTo(w))
      OBVIOUS
    <3>1. workers[w].attempt = 1 /\ RaceAttempts # 1
      BY <1>1, <2>1, MigrationsAssumption DEF Won
    <3>2. Retried(w) = [workers[w] EXCEPT !.pc = "roles", !.attempt = @ + 1, !.made = FALSE]
      BY <3>1 DEF Retried
    <3>3. /\ Retried(w).pc = "roles" /\ Retried(w).version = workers[w].version
          /\ Retried(w).attempt = 2 /\ Retried(w).already = workers[w].already
      BY <1>1, <3>1, <3>2 DEF WorkerRecord
    <3> QED  BY <1>1, <2>1, <3>3 DEF Won, Inside
  <2> QED  BY <2>1, <2>2, <2>3, MovedWins
<1>6. ASSUME NEW w \in Worker, RecordVersion(w) PROVE RaceInv'
  <2> DEFINE record == [workers[w] EXCEPT !.pc = "commit"]
  <2>1. /\ workers[w].pc = "record"
        /\ workers[w].version \notin AppliedTo(w) => Moved(w, record)
        /\ Moved(w, Retried(w)) \/ Moved(w, Failed(w)) \/ Moved(w, record)
    BY <1>6 DEF RecordVersion
  <2>2. Alone(w) => workers[w].version \notin AppliedTo(w)
    BY <1>1, <2>1, MigrationsAssumption DEF Won, Inside, WorkerRecord
  <2>3. Alone(w) => Won(record, AppliedTo(w))
    <3>1. /\ record.pc = "commit" /\ record.version = workers[w].version
          /\ record.attempt = workers[w].attempt /\ record.already = workers[w].already
      BY <1>1 DEF WorkerRecord
    <3> HIDE DEF record
    <3> QED  BY <1>1, <2>1, <3>1 DEF Won, Inside
  <2> QED  BY <2>1, <2>2, <2>3, MovedWins
<1>7. ASSUME NEW w \in Worker, Kill(w) PROVE RaceInv'
  <2>1. Won(Resting, AppliedTo(w))
    BY DEF Won, Resting, Inside
  <2> QED  BY <1>7, <2>1, MovedWins DEF Kill
<1>8. CASE UNCHANGED migrationVars
  BY <1>8 DEF migrationVars, RaceInv, Won, AppliedTo, Alone, Others
<1> QED  BY <1>2, <1>3, <1>4, <1>5, <1>6, <1>7, <1>8, CommitWins DEF MigrationNext

(* A worker alone on its database never fails over a role another database *)
(* created first: with two attempts or more, the second finds the role     *)
(* (migrate.py, _apply).                                                   *)
THEOREM RacesAreWon == MigrationSpec => []RaceIsWon
<1>1. MigrationInit => RaceInv
  BY MigrationsAssumption
     DEF MigrationInit, RaceInv, Won, Resting, Inside, AppliedTo
<1>2. RaceInv => RaceIsWon
  BY DEF RaceInv, RaceIsWon, Alone, Won
<1> QED  BY <1>1, <1>2, RaceStep, MigrationInvariant, PTL DEF MigrationSpec
=============================================================================
