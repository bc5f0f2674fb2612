------------------------------- MODULE Accounts -------------------------------
(***************************************************************************)
(* The accounts of a deployment and their sessions: the handlers of        *)
(* api/routers/session.py, sessions.py and users.py and the two commands   *)
(* of api/bootstrap.py, each one PostgreSQL transaction at read committed. *)
(*                                                                         *)
(* A request locks the rows it writes or selects "for update" one at a     *)
(* time and keeps them until it ends; what it wrote is seen when it        *)
(* commits.  Passwords are not kept: who presents the right one is a       *)
(* choice of the environment, and so is the credential of an owner.        *)
(***************************************************************************)
EXTENDS Naturals

CONSTANTS
    User,       \* accounts that exist or may be created
    Rank,       \* the order of their user_id
    Session,
    Request,    \* requests and commands that may run at once
    NoUser, NoSession

ASSUME AccountsAssumption ==
    /\ Rank \in [User -> Nat]
    /\ NoUser \notin User /\ NoSession \notin Session

VARIABLES
    users,      \* lineage.users
    sessions,   \* lineage.sessions
    proc        \* the open transactions

vars == <<users, sessions, proc>>

Role == {"owner", "viewer"}

Account == [role : Role \cup {"none"}, enabled : BOOLEAN]  \* "none": no such row
Login   == [user : User \cup {NoUser}, live : BOOLEAN]     \* live: revoked_at is null

Absent == [role |-> "none", enabled |-> FALSE]
Unused == [user |-> NoUser, live |-> FALSE]

Operation == {"role", "enable", "disable", "reset", "change", "login", "end",
              "create", "bootstrap", "recover", "none"}

Process ==
    [pc : {"idle", "owners", "again", "row", "rotate", "revoke", "open", "commit"},
     op : Operation, user : User \cup {NoUser}, role : Role \cup {"kept"},
     cookie : Session \cup {NoSession}, \* what the caller presented
     queue : SUBSET User,               \* owner rows still to be locked
     counted : SUBSET User,             \* enabled owners the last walk returned
     held : SUBSET User,                \* account rows locked
     want : SUBSET Session, rows : SUBSET Session, \* session rows to lock, and locked
     fresh : Session \cup {NoSession}]  \* the session a login inserts

Idle ==
    [pc |-> "idle", op |-> "none", user |-> NoUser, role |-> "kept", cookie |-> NoSession,
     queue |-> {}, counted |-> {}, held |-> {}, want |-> {}, rows |-> {}, fresh |-> NoSession]

TypeOK ==
    /\ users \in [User -> Account]
    /\ sessions \in [Session -> Login]
    /\ proc \in [Request -> Process]

Init ==
    /\ users = [u \in User |-> Absent]
    /\ sessions = [s \in Session |-> Unused]
    /\ proc = [r \in Request |-> Idle]

-----------------------------------------------------------------------------
Exists(u)  == users[u].role # "none"
Owners     == {u \in User : users[u].role = "owner" /\ users[u].enabled}
LiveOf(u)  == {s \in Session : sessions[s].user = u /\ sessions[s].live}
Others(r)  == Request \ {r}
Free(r, u) == \A q \in Others(r) : u \notin proc[q].held

(* resolve_session: revoked rows and disabled accounts answer nothing *)
Resolves(s) == sessions[s].live /\ users[sessions[s].user].enabled

-----------------------------------------------------------------------------
(* Requests                                                                *)

Receive(r, p) ==
    /\ proc[r].pc = "idle"
    /\ proc' = [proc EXCEPT ![r] = p]
    /\ UNCHANGED <<users, sessions>>

Asked(step, op, u, role) == [Idle EXCEPT !.pc = step, !.op = op, !.user = u, !.role = role]

(* PATCH and DELETE /v1/users/{user_id} begin with _locked: the walk of the *)
(* owner rows is over the owners of its snapshot.                          *)
UpdateUser(r) ==
    \E u \in User : /\ Exists(u)
                    /\ \/ \E role \in Role :
                             Receive(r, [Asked("owners", "role", u, role) EXCEPT !.queue = Owners])
                       \/ Receive(r, [Asked("owners", "enable", u, "kept") EXCEPT !.queue = Owners])

DisableUser(r) ==
    \E u \in User :
        /\ Exists(u)
        /\ Receive(r, [Asked("owners", "disable", u, "kept") EXCEPT !.queue = Owners])

(* POST /v1/users/{user_id}/password and glasswell-owner-reset *)
SetUserPassword(r) == \E u \in User : Exists(u) /\ Receive(r, Asked("row", "reset", u, "kept"))
Recover(r) ==
    \E u \in User, role \in Role \cup {"kept"} :
        Exists(u) /\ Receive(r, Asked("row", "recover", u, role))

(* POST /v1/session/password, by the holder of a session that resolved *)
ChangeOwnPassword(r) ==
    \E s \in Session :
        /\ Resolves(s)
        /\ Receive(r, [Asked("row", "change", sessions[s].user, "kept") EXCEPT !.cookie = s])

(* POST /v1/users and glasswell-owner-bootstrap, after their checks *)
CreateUser(r) ==
    \E u \in User, role \in Role : ~Exists(u) /\ Receive(r, Asked("row", "create", u, role))
Bootstrap(r) ==
    /\ Owners = {}
    /\ \E u \in User : ~Exists(u) /\ Receive(r, Asked("row", "bootstrap", u, "owner"))

(* DELETE /v1/session and /v1/sessions/{session_id} *)
EndSession(r) ==
    \E s \in Session :
        /\ sessions[s].user # NoUser
        /\ Receive(r, [Asked("revoke", "end", NoUser, "kept") EXCEPT !.want = {s}])

(* POST /v1/session once authenticate has accepted the password, with      *)
(* whatever session cookie the browser still holds                         *)
LogIn(r) ==
    \E u \in User, c \in {s \in Session : sessions[s].user # NoUser} \cup {NoSession} :
        /\ Exists(u) /\ users[u].enabled
        /\ Receive(r, [Asked("rotate", "login", u, "kept") EXCEPT !.cookie = c])

-----------------------------------------------------------------------------
(* Statements                                                              *)

Step(r, p) == proc' = [proc EXCEPT ![r] = p] /\ UNCHANGED <<users, sessions>>

(* _LOCK_ENABLED_OWNERS: one row more, in user_id order.  A row that is no  *)
(* longer an enabled owner's when its lock is granted is locked and not    *)
(* returned.                                                               *)
LockOwner(r) ==
    /\ proc[r].pc \in {"owners", "again"}
    /\ \E u \in proc[r].queue :
          /\ \A v \in proc[r].queue : Rank[u] <= Rank[v]
          /\ Free(r, u)
          /\ Step(r, [proc[r] EXCEPT !.queue = @ \ {u}, !.held = @ \cup {u},
                                     !.counted = IF u \in Owners THEN @ \cup {u} ELSE @])

Revoking(p) == [p EXCEPT !.pc = "revoke", !.want = LiveOf(p.user)]

(* What the handlers write after their guards *)
Writes(p) == IF p.op = "disable" THEN Revoking(p) ELSE [p EXCEPT !.pc = "commit"]

(* The request takes an enabled owner, or an owner, out of the set *)
Guarded(p) ==
    /\ users[p.user].role = "owner"
    /\ \/ p.op = "disable"
       \/ p.op = "role" /\ p.role # "owner"

(* _LOCK_TARGET, and what the handler decides on the row it now holds.     *)
(* Re-enabling an active account is refused; disabling a disabled one      *)
(* commits nothing.                                                        *)
LockTarget(r) ==
    LET p == [proc[r] EXCEPT !.held = @ \cup {proc[r].user}]
        u == p.user
    IN  /\ p.pc = "owners" /\ p.queue = {} /\ Free(r, u)
        /\ Step(r, IF \/ p.op = "enable" /\ users[u].enabled
                      \/ p.op = "disable" /\ ~users[u].enabled
                   THEN Idle
                   ELSE IF Guarded(p) THEN [p EXCEPT !.pc = "again", !.queue = Owners, !.counted = {}]
                   ELSE Writes(p))

(* mutant: the guard is about a set that is empty already *)
EmptiedOwners(p) == p.counted = {}

(* _refuse_emptying_the_owners *)
LastOwner(p) == p.counted = {p.user}

Guard(r) ==
    /\ proc[r].pc = "again" /\ proc[r].queue = {}
    /\ Step(r, IF LastOwner(proc[r]) THEN Idle ELSE Writes(proc[r]))

(* The row of the account: set_password and then its live sessions, or the  *)
(* insert of an account, which waits for another one of its username       *)
WriteRow(r) ==
    LET p == [proc[r] EXCEPT !.held = @ \cup {proc[r].user}]
        inserts == p.op \in {"create", "bootstrap"}
    IN  /\ p.pc = "row" /\ Free(r, p.user)
        /\ Step(r, IF ~inserts THEN [Revoking(p) EXCEPT !.want = @ \ {p.cookie}]
                   ELSE IF Exists(p.user) THEN Idle  \* unique violation
                   ELSE [p EXCEPT !.pc = "commit"])

(* The session of the cookie a login came with *)
Rotate(r) ==
    LET c == proc[r].cookie IN
    /\ proc[r].pc = "rotate"
    /\ Step(r, [proc[r] EXCEPT !.pc = "revoke",
                               !.want = IF c # NoSession THEN {c} \cap {s \in Session : Resolves(s)}
                                        ELSE {}])

(* One row of an update of lineage.sessions, in any order *)
Revoke(r) ==
    /\ proc[r].pc = "revoke"
    /\ \E s \in proc[r].want :
          /\ \A q \in Others(r) : s \notin proc[q].rows
          /\ Step(r, [proc[r] EXCEPT !.want = @ \ {s}, !.rows = @ \cup {s}])

(* mutant: last_login_at is not written *)
InsertOnly(r) ==
    LET p == proc[r] IN
    /\ p.op = "login" /\ p.pc = "revoke" /\ p.want = {}
    /\ \E s \in Session :
          /\ sessions[s].user = NoUser /\ \A q \in Others(r) : proc[q].fresh # s
          /\ Step(r, [p EXCEPT !.pc = "commit", !.fresh = s])

(* create_session inserts the row and updates its account's *)
Open(r) ==
    LET p == proc[r] IN
    /\ p.op = "login" /\ p.pc = "revoke" /\ p.want = {} /\ Free(r, p.user)
    /\ \E s \in Session :
          /\ sessions[s].user = NoUser /\ \A q \in Others(r) : proc[q].fresh # s
          /\ Step(r, [p EXCEPT !.pc = "commit", !.fresh = s, !.held = @ \cup {p.user}])

Ready(p) == p.pc = "commit" \/ (p.pc = "revoke" /\ p.want = {} /\ p.op # "login")

(* mutant: a --role that was not given is written as well *)
RewrittenAlways(p, row) ==
    [role    |-> IF p.op \in {"role", "create", "bootstrap", "recover"} THEN p.role ELSE row.role,
     enabled |-> IF p.op \in {"enable", "recover", "create", "bootstrap"} THEN TRUE
                 ELSE row.enabled /\ p.op # "disable"]

(* What a transaction leaves in the row of its account *)
Rewritten(p, row) ==
    [role    |-> IF p.op \in {"role", "create", "bootstrap", "recover"} /\ p.role # "kept"
                 THEN p.role ELSE row.role,
     enabled |-> IF p.op \in {"enable", "recover", "create", "bootstrap"} THEN TRUE
                 ELSE row.enabled /\ p.op # "disable"]

Commit(r) ==
    LET p == proc[r] IN
    /\ Ready(p)
    /\ users' = [u \in User |-> IF u = p.user THEN Rewritten(p, users[u]) ELSE users[u]]
    /\ sessions' = [s \in Session |->
                      IF s = p.fresh THEN [user |-> p.user, live |-> TRUE]
                      ELSE IF s \in p.rows THEN [sessions[s] EXCEPT !.live = FALSE]
                      ELSE sessions[s]]
    /\ proc' = [proc EXCEPT ![r] = Idle]

(* A worker killed, a connection lost, the victim of a deadlock *)
Abort(r) ==
    /\ proc[r].pc # "idle"
    /\ Step(r, Idle)

Next ==
    \E r \in Request :
        \/ UpdateUser(r) \/ DisableUser(r) \/ SetUserPassword(r) \/ Recover(r)
        \/ ChangeOwnPassword(r) \/ CreateUser(r) \/ Bootstrap(r) \/ EndSession(r) \/ LogIn(r)
        \/ LockOwner(r) \/ LockTarget(r) \/ Guard(r) \/ WriteRow(r) \/ Rotate(r) \/ Revoke(r)
        \/ Open(r) \/ Commit(r) \/ Abort(r)

Spec == Init /\ [][Next]_vars

-----------------------------------------------------------------------------
(* A deployment that has an enabled owner keeps one, whatever requests of   *)
(* owners overlap; only the operator's reset command may give the last one *)
(* away (users.py, _refuse_emptying_the_owners).                           *)
OwnerRemains ==
    [][Owners # {} =>
          \/ Owners' # {}
          \/ \E r \in Request : Commit(r) /\ proc[r].op = "recover" /\ proc[r].role = "viewer"]_vars

(* When a password change or a disabled account takes effect, no session of *)
(* the account stays live but the one that made the change: a login that   *)
(* commits before is among those revoked, since it held the account's row  *)
(* (session.py, "every other session this account holds is revoked";       *)
(* users.py, "in the same transaction").                                   *)
ShutOut ==
    [][\A r \in Request, u \in User :
          (/\ Commit(r) /\ proc[r].user = u
           /\ proc[r].op \in {"change", "reset", "recover", "disable"}) =>
              LiveOf(u)' \subseteq {proc[r].cookie}]_vars

(* The row a request waits for while it walks the owners or locks its target *)
WaitsFor(r, q) ==
    LET p == proc[r] IN
    /\ p.pc \in {"owners", "again"}
    /\ IF p.queue = {} THEN p.pc = "owners" /\ p.user \in proc[q].held
       ELSE \E u \in p.queue : u \in proc[q].held /\ \A v \in p.queue : Rank[u] <= Rank[v]

(* Two owners' requests never wait for each other: the rows are locked in  *)
(* user_id order "so two transactions walk the owner rows the same way and *)
(* cannot each hold what the other wants" (users.py).                      *)
NoOwnerCycle ==
    \A r, q \in Request : r # q => ~(WaitsFor(r, q) /\ WaitsFor(q, r))
=============================================================================
