------------------------------ MODULE Migrations ------------------------------
(***************************************************************************)
(* The migration runner (db/migrate.py).  Workers migrate databases of one  *)
(* cluster at the same time.  Each reads what is applied once, then runs   *)
(* the missing files in order, one transaction each.  A file may create    *)
(* roles, which belong to the cluster and which it creates only if a read  *)
(* finds none; a transaction that creates or records what another one has  *)
(* not committed yet waits for it.                                         *)
(***************************************************************************)
EXTENDS Integers, FiniteSets

CONSTANTS
    Worker, Database,
    DatabaseOf,   \* the database a worker migrates
    LastFile,         \* the files are numbered 1..LastFile
    Creates,      \* the versions that create a role, each its own
    RaceAttempts  \* RACE_ATTEMPTS

ASSUME MigrationsAssumption ==
    /\ DatabaseOf \in [Worker -> Database]
    /\ LastFile \in Nat /\ Creates \subseteq 1..LastFile /\ RaceAttempts \in Nat \ {0, 1}

VARIABLES
    applied,  \* the versions recorded, by database
    roles,    \* the roles of the cluster, by the version that creates them
    workers

migrationVars == <<applied, roles, workers>>

Resting == [pc |-> "start", version |-> 0, attempt |-> 0, already |-> {}, made |-> FALSE]

MigrationTypeOK ==
    /\ applied \in [Database -> SUBSET (1..LastFile)]
    /\ roles \subseteq Creates
    /\ workers \in [Worker -> [pc : {"start", "next", "roles", "create", "record", "commit",
                                     "done", "failed"},
                               version : 0..LastFile, attempt : 0..RaceAttempts,
                               already : SUBSET (1..LastFile), made : BOOLEAN]]

MigrationInit ==
    /\ applied = [d \in Database |-> {}]
    /\ roles = {}
    /\ workers = [w \in Worker |-> Resting]

-----------------------------------------------------------------------------
AppliedTo(w) == applied[DatabaseOf[w]]
Others(w)   == Worker \ {w}

Moved(w, record) == workers' = [workers EXCEPT ![w] = record] /\ UNCHANGED <<applied, roles>>

(* applied_migrations *)
Read(w) ==
    /\ workers[w].pc = "start"
    /\ Moved(w, [workers[w] EXCEPT !.pc = "next", !.already = AppliedTo(w)])

(* The loop of migrate: the next file that was not recorded when it read *)
NextFile(w) ==
    LET k    == workers[w].version + 1
    IN  /\ workers[w].pc = "next"
        /\ Moved(w, IF k > LastFile THEN [workers[w] EXCEPT !.pc = "done"]
                     ELSE IF k \in workers[w].already THEN [workers[w] EXCEPT !.version = k]
                     ELSE [workers[w] EXCEPT !.version = k, !.attempt = 1, !.pc = "roles"])

(* if not exists (select 1 from pg_roles ...) *)
LookForRole(w) ==
    LET k == workers[w].version IN
    /\ workers[w].pc = "roles"
    /\ Moved(w, [workers[w] EXCEPT !.pc = IF k \in Creates \ roles THEN "create" ELSE "record"])

Failed(w) == [workers[w] EXCEPT !.pc = "failed", !.made = FALSE]

(* mutant: a lost race is raised at once *)
RaisedAtOnce(w) == Failed(w)

(* mutant: the last lost race is left behind *)
PassedOver(w) == [workers[w] EXCEPT !.pc = "next", !.made = FALSE]

(* The except clause of _apply: the transaction is rolled back and tried   *)
(* again, RACE_ATTEMPTS times in all.                                      *)
Retried(w) ==
    IF workers[w].attempt = RaceAttempts THEN Failed(w)
    ELSE [workers[w] EXCEPT !.pc = "roles", !.attempt = @ + 1, !.made = FALSE]

CreateRole(w) ==
    LET k == workers[w].version IN
    /\ workers[w].pc = "create"
    /\ \A q \in Others(w) : workers[q].version = k => ~workers[q].made
    /\ Moved(w, IF k \in roles THEN Retried(w)
                 ELSE [workers[w] EXCEPT !.pc = "record", !.made = TRUE])

(* The rest of the file and its insert into schema_migrations.  What another *)
(* worker applied to the same database shows as a unique violation or as a *)
(* table that is already there, which is not retried.                      *)
RecordVersion(w) ==
    LET k == workers[w].version IN
    /\ workers[w].pc = "record"
    /\ \A q \in Others(w) : DatabaseOf[q] = DatabaseOf[w] /\ workers[q].version = k
                               => workers[q].pc # "commit"
    /\ IF k \in AppliedTo(w) THEN Moved(w, Retried(w)) \/ Moved(w, Failed(w))
       ELSE Moved(w, [workers[w] EXCEPT !.pc = "commit"])

Commit(w) ==
    LET k == workers[w].version IN
    /\ workers[w].pc = "commit"
    /\ applied' = [applied EXCEPT ![DatabaseOf[w]] = @ \cup {k}]
    /\ roles' = IF workers[w].made THEN roles \cup {k} ELSE roles
    /\ workers' = [workers EXCEPT ![w].pc = "next", ![w].made = FALSE]

(* A deploy is interrupted, and run again *)
Kill(w) ==
    /\ workers[w].pc \notin {"start", "done", "failed"}
    /\ Moved(w, Resting)

MigrationNext ==
    \E w \in Worker : \/ Read(w) \/ NextFile(w) \/ LookForRole(w) \/ CreateRole(w)
                      \/ RecordVersion(w) \/ Commit(w) \/ Kill(w)

MigrationSpec == MigrationInit /\ [][MigrationNext]_migrationVars

-----------------------------------------------------------------------------
(* What a database has is a beginning of the files, whoever applied them   *)
(* and wherever a worker died (migrate.py, "Apply every unapplied          *)
(* migration in order").                                                   *)
InOrder == \A d \in Database : \A k \in applied[d] : 1..k \subseteq applied[d]

(* A worker alone on its database never fails over a role another database *)
(* created first (migrate.py, "the retry takes the branch the winner has   *)
(* by then committed").                                                    *)
RaceIsWon ==
    \A w \in Worker :
        (\A q \in Others(w) : DatabaseOf[q] # DatabaseOf[w]) => workers[w].pc # "failed"
=============================================================================
