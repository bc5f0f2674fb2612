---------------------------- MODULE Accounts_proofs ----------------------------
(* The accounts keep an enabled owner, and a password change shuts every    *)
(* other session out, for every number of accounts, sessions and requests. *)
(* Both rest on the row locks: whoever is about to write an account's row  *)
(* holds it, so what a request read of it under the lock is still true.    *)
EXTENDS Accounts, TLAPS

(* Operations that write the row of an account they hold *)
RowOps  == {"role", "enable", "disable", "reset", "change", "create", "bootstrap", "recover"}
ShutOps == {"change", "reset", "recover", "disable"}

Takes(p) == p.op = "disable" \/ (p.op = "role" /\ p.role # "owner")

Phases(p) ==
    /\ p.pc \in {"owners", "again"} => p.op \in {"role", "enable", "disable"}
    /\ p.pc = "row" => p.op \in {"reset", "change", "recover", "create", "bootstrap"}
    /\ p.pc = "rotate" => p.op = "login"
    /\ p.op \in {"create", "bootstrap"} => p.pc \in {"row", "commit"}
    /\ p.op \in RowOps \cup {"login"} => p.user \in User

Holding(p) ==
    /\ p.counted \subseteq p.held /\ \A u \in p.counted : u \in Owners
    /\ p.op \in RowOps /\ p.pc \in {"again", "revoke", "commit"} => p.user \in p.held
    /\ p.fresh # NoSession => p.op = "login" /\ p.pc = "commit" /\ p.user \in p.held

Guarding(p) ==
    /\ p.pc = "again" /\ p.user \in Owners => p.user \in p.counted \cup p.queue
    /\ p.pc \in {"revoke", "commit"} /\ Takes(p) /\ p.user \in Owners =>
          \E u \in p.counted : u # p.user
    /\ p.op \in {"create", "bootstrap"} /\ p.pc = "commit" => ~Exists(p.user)

Shutting(p) ==
    p.op \in ShutOps => /\ p.pc # "commit"
                        /\ p.pc = "revoke" =>
                              \A s \in LiveOf(p.user) : s \in p.want \cup p.rows \cup {p.cookie}

Local(p) == Phases(p) /\ Holding(p) /\ Guarding(p) /\ Shutting(p)

Exclusive == \A r, q \in Request : r # q => \A u \in proc[r].held : u \notin proc[q].held

Named == \A s \in Session : sessions[s].live => sessions[s].user \in User

AccountsInv == TypeOK /\ Named /\ Exclusive /\ \A r \in Request : Local(proc[r])

LEMMA IdleLocal == Idle \in Process /\ Local(Idle) /\ Idle.held = {}
BY DEF Idle, Process, Operation, Local, Phases, Holding, Guarding, Takes, Shutting, ShutOps, RowOps

(* A statement changes one open transaction, and locks free rows only *)
LEMMA StatementKeeps ==
    ASSUME AccountsInv, NEW r \in Request, NEW p \in Process,
           proc' = [proc EXCEPT ![r] = p], UNCHANGED <<users, sessions>>,
           Local(p), \A u \in p.held : u \in proc[r].held \/ Free(r, u)
    PROVE  AccountsInv'
<1>1. TypeOK' /\ Named'
  BY DEF AccountsInv, TypeOK, Named
<1>2. proc'[r] = p /\ \A q \in Request : q # r => proc'[q] = proc[q]
  BY DEF AccountsInv, TypeOK
<1>3. Exclusive'
  <2> SUFFICES ASSUME NEW q \in Request, q # r, NEW u \in p.held
               PROVE  u \notin proc[q].held
    BY <1>2 DEF AccountsInv, Exclusive
  <2> QED  BY DEF AccountsInv, Exclusive, Free, Others
<1>4. ASSUME NEW q \in Request PROVE Local(proc[q])'
  BY <1>2 DEF AccountsInv, Local, Phases, Holding, Guarding, Takes, Shutting,
              Owners, Exists, LiveOf
<1> QED  BY <1>1, <1>3, <1>4 DEF AccountsInv

(* A request that has locked nothing yet *)
New(p) == /\ p.held = {} /\ p.counted = {} /\ p.fresh = NoSession /\ Phases(p)
          /\ p.pc \in {"owners", "row", "rotate"} \/ p.op = "end"

LEMMA NewLocal == ASSUME NEW p \in Process, New(p) PROVE Local(p)
<1>1. Phases(p)
  BY DEF New
<1>2. Holding(p)
  BY DEF New, Holding, RowOps
<1>3. Guarding(p)
  BY DEF New, Guarding, Takes, Phases
<1>4. Shutting(p)
  BY DEF New, Shutting, ShutOps
<1> QED  BY <1>1, <1>2, <1>3, <1>4 DEF Local

LEMMA AskedFields ==
    ASSUME NEW step \in {"owners", "row", "rotate", "revoke"}, NEW op \in Operation,
           NEW u \in User \cup {NoUser}, NEW role \in Role \cup {"kept"}
    PROVE  /\ Asked(step, op, u, role) \in Process
           /\ Asked(step, op, u, role).pc = step /\ Asked(step, op, u, role).op = op
           /\ Asked(step, op, u, role).user = u
           /\ Asked(step, op, u, role).held = {} /\ Asked(step, op, u, role).counted = {}
           /\ Asked(step, op, u, role).fresh = NoSession
<1>1. Asked(step, op, u, role) \in Process
  BY DEF Asked, Idle, Process, Operation
<1>2. /\ Asked(step, op, u, role).pc = step /\ Asked(step, op, u, role).op = op
      /\ Asked(step, op, u, role).held = {} /\ Asked(step, op, u, role).counted = {}
  BY DEF Asked, Idle
<1>3. Asked(step, op, u, role).fresh = NoSession /\ Asked(step, op, u, role).user = u
  BY DEF Asked, Idle
<1> QED  BY <1>1, <1>2, <1>3

LEMMA WithFields ==
    ASSUME NEW p \in Process, NEW queue \in SUBSET User,
           NEW cookie \in Session \cup {NoSession}, NEW want \in SUBSET Session
    PROVE  /\ [p EXCEPT !.queue = queue] \in Process
           /\ [p EXCEPT !.cookie = cookie] \in Process
           /\ [p EXCEPT !.want = want] \in Process
           /\ New(p) => /\ New([p EXCEPT !.queue = queue])
                        /\ New([p EXCEPT !.cookie = cookie])
                        /\ New([p EXCEPT !.want = want])
<1>1. /\ [p EXCEPT !.queue = queue] \in Process
      /\ [p EXCEPT !.cookie = cookie] \in Process
      /\ [p EXCEPT !.want = want] \in Process
  BY DEF Process
<1>2. New(p) => New([p EXCEPT !.queue = queue])
  BY DEF Process, New, Phases, RowOps
<1>3. New(p) => New([p EXCEPT !.cookie = cookie])
  BY DEF Process, New, Phases, RowOps
<1>4. New(p) => New([p EXCEPT !.want = want])
  BY DEF Process, New, Phases, RowOps
<1> QED  BY <1>1, <1>2, <1>3, <1>4

LEMMA ReceiveKeeps ==
    ASSUME AccountsInv, NEW r \in Request,
           \/ UpdateUser(r) \/ DisableUser(r) \/ SetUserPassword(r) \/ Recover(r)
           \/ ChangeOwnPassword(r) \/ CreateUser(r) \/ Bootstrap(r)
           \/ EndSession(r) \/ LogIn(r)
    PROVE  AccountsInv'
<1> SUFFICES \E p \in Process : New(p) /\ Receive(r, p)
  BY NewLocal, StatementKeeps DEF Receive, New
<1>1. Owners \in SUBSET User
  BY DEF Owners
<1>2. ASSUME NEW u \in User, NEW role \in Role \cup {"kept"},
             NEW op \in {"role", "enable", "disable"}
      PROVE  LET p == [Asked("owners", op, u, role) EXCEPT !.queue = Owners]
             IN  p \in Process /\ New(p)
  <2>1. Asked("owners", op, u, role) \in Process /\ New(Asked("owners", op, u, role))
    BY AskedFields DEF New, Phases, Operation, RowOps
  <2> QED  BY <1>1, <2>1, WithFields
<1>3. ASSUME NEW u \in User, NEW role \in Role \cup {"kept"},
             NEW op \in {"reset", "change", "recover", "create", "bootstrap"}
      PROVE  Asked("row", op, u, role) \in Process /\ New(Asked("row", op, u, role))
  BY AskedFields DEF New, Phases, Operation, RowOps
<1>4. CASE UpdateUser(r)
  BY <1>2, <1>4 DEF UpdateUser
<1>5. CASE DisableUser(r)
  BY <1>2, <1>5 DEF DisableUser
<1>6. CASE SetUserPassword(r) \/ Recover(r)
  BY <1>3, <1>6 DEF SetUserPassword, Recover
<1>7. CASE CreateUser(r) \/ Bootstrap(r)
  BY <1>3, <1>7 DEF CreateUser, Bootstrap, Role
<1>8. CASE ChangeOwnPassword(r)
  <2>1. PICK s \in Session :
          /\ Resolves(s)
          /\ Receive(r, [Asked("row", "change", sessions[s].user, "kept") EXCEPT !.cookie = s])
    BY <1>8 DEF ChangeOwnPassword
  <2>2. sessions[s].user \in User
    BY <2>1 DEF AccountsInv, Named, Resolves
  <2>3. /\ Asked("row", "change", sessions[s].user, "kept") \in Process
        /\ New(Asked("row", "change", sessions[s].user, "kept"))
    BY <2>2, AskedFields DEF New, Phases, Operation, RowOps
  <2> QED  BY <2>1, <2>3, WithFields
<1>9. CASE EndSession(r)
  <2>1. PICK s \in Session :
          Receive(r, [Asked("revoke", "end", NoUser, "kept") EXCEPT !.want = {s}])
    BY <1>9 DEF EndSession
  <2>2. /\ Asked("revoke", "end", NoUser, "kept") \in Process
        /\ New(Asked("revoke", "end", NoUser, "kept"))
    BY AskedFields DEF New, Phases, Operation, RowOps
  <2> QED  BY <2>1, <2>2, WithFields
<1>10. CASE LogIn(r)
  <2>1. PICK u \in User, c \in Session \cup {NoSession} :
          Receive(r, [Asked("rotate", "login", u, "kept") EXCEPT !.cookie = c])
    BY <1>10 DEF LogIn
  <2>2. /\ Asked("rotate", "login", u, "kept") \in Process
        /\ New(Asked("rotate", "login", u, "kept"))
    BY AskedFields DEF New, Phases, Operation, RowOps
  <2> QED  BY <2>1, <2>2, WithFields
<1> QED  BY <1>4, <1>5, <1>6, <1>7, <1>8, <1>9, <1>10

LEMMA LockOwnerKeeps == ASSUME AccountsInv, NEW r \in Request, LockOwner(r) PROVE AccountsInv'
<1>1. PICK u \in proc[r].queue :
        /\ proc[r].pc \in {"owners", "again"} /\ Free(r, u)
        /\ Step(r, [proc[r] EXCEPT !.queue = @ \ {u}, !.held = @ \cup {u},
                                   !.counted = IF u \in Owners THEN @ \cup {u} ELSE @])
  BY DEF LockOwner
<1> DEFINE p == [proc[r] EXCEPT !.queue = @ \ {u}, !.held = @ \cup {u},
                                !.counted = IF u \in Owners THEN @ \cup {u} ELSE @]
<1>2. proc[r] \in Process /\ Local(proc[r]) /\ u \in User
  BY DEF AccountsInv, TypeOK, Process
<1>3. /\ p.pc = proc[r].pc /\ p.op = proc[r].op /\ p.user = proc[r].user
      /\ p.queue = proc[r].queue \ {u} /\ p.held = proc[r].held \cup {u}
      /\ p.counted = IF u \in Owners THEN proc[r].counted \cup {u} ELSE proc[r].counted
      /\ p.fresh = proc[r].fresh
  BY <1>2 DEF Process
<1>4. p \in Process
  BY <1>2 DEF Process
<1> HIDE DEF p
<1>5. Phases(p) /\ Holding(p)
  BY <1>2, <1>3 DEF Local, Phases, Holding
<1>6. Guarding(p) /\ Shutting(p)
  BY <1>1, <1>2, <1>3 DEF Local, Guarding, Shutting, Phases, ShutOps
<1>7. Local(p) /\ \A v \in p.held : v \in proc[r].held \/ Free(r, v)
  BY <1>1, <1>3, <1>5, <1>6 DEF Local
<1> QED  BY <1>1, <1>4, <1>7, StatementKeeps DEF Step, p

(* A request about to write what its handlers decided *)
LEMMA WritesFields ==
    ASSUME NEW p \in Process, p.op \in {"role", "enable", "disable"}
    PROVE  /\ Writes(p) \in Process
           /\ Writes(p).op = p.op /\ Writes(p).user = p.user /\ Writes(p).role = p.role
           /\ Writes(p).counted = p.counted /\ Writes(p).held = p.held
           /\ Writes(p).fresh = p.fresh
           /\ IF p.op = "disable" THEN Writes(p).pc = "revoke" /\ Writes(p).want = LiveOf(p.user)
              ELSE Writes(p).pc = "commit"
<1>1. LiveOf(p.user) \in SUBSET Session
  BY DEF LiveOf
<1>2. CASE p.op = "disable"
  <2>1. Writes(p) = [p EXCEPT !.pc = "revoke", !.want = LiveOf(p.user)]
    BY <1>2 DEF Writes, Revoking
  <2>2. [p EXCEPT !.pc = "revoke", !.want = LiveOf(p.user)] \in Process
    BY <1>1 DEF Process
  <2> QED  BY <1>2, <2>1, <2>2 DEF Process
<1>3. CASE p.op # "disable"
  <2>1. Writes(p) = [p EXCEPT !.pc = "commit"]
    BY <1>3 DEF Writes
  <2>2. [p EXCEPT !.pc = "commit"] \in Process
    BY DEF Process
  <2> QED  BY <1>3, <2>1, <2>2 DEF Process
<1> QED  BY <1>2, <1>3

(* It holds the row of its account, and another owner's if it takes one out *)
LEMMA WritesLocal ==
    ASSUME NEW p \in Process, p.op \in {"role", "enable", "disable"},
           p.counted \subseteq p.held, \A u \in p.counted : u \in Owners,
           p.user \in p.held, p.user \in User, p.fresh = NoSession,
           Takes(p) /\ p.user \in Owners => \E u \in p.counted : u # p.user
    PROVE  Writes(p) \in Process /\ Local(Writes(p)) /\ Writes(p).held = p.held
<1> DEFINE w == Writes(p)
<1>1. /\ w \in Process /\ w.op = p.op /\ w.user = p.user /\ w.role = p.role
      /\ w.counted = p.counted /\ w.held = p.held /\ w.fresh = p.fresh
      /\ IF p.op = "disable" THEN w.pc = "revoke" /\ w.want = LiveOf(p.user) ELSE w.pc = "commit"
  BY WritesFields
<1> HIDE DEF w
<1>2. Phases(w) /\ Holding(w)
  BY <1>1 DEF Phases, Holding, RowOps
<1>3. Guarding(w)
  BY <1>1 DEF Guarding, Takes
<1>4. Shutting(w)
  BY <1>1 DEF Shutting, ShutOps
<1> QED  BY <1>1, <1>2, <1>3, <1>4 DEF Local, w

LEMMA GuardKeeps == ASSUME AccountsInv, NEW r \in Request, Guard(r) PROVE AccountsInv'
<1>1. /\ proc[r].pc = "again" /\ proc[r].queue = {}
      /\ Step(r, Idle) \/ (~LastOwner(proc[r]) /\ Step(r, Writes(proc[r])))
  BY DEF Guard
<1>2. proc[r] \in Process /\ Local(proc[r])
  BY DEF AccountsInv, TypeOK
<1>3. CASE Step(r, Idle)
  BY <1>3, IdleLocal, StatementKeeps DEF Step
<1>4. CASE ~LastOwner(proc[r]) /\ Step(r, Writes(proc[r]))
  <2>1. proc[r].op \in {"role", "enable", "disable"} /\ proc[r].fresh = NoSession
    BY <1>1, <1>2 DEF Local, Phases, Holding
  <2>2. /\ proc[r].counted \subseteq proc[r].held /\ \A u \in proc[r].counted : u \in Owners
        /\ proc[r].user \in proc[r].held
    BY <1>1, <1>2, <2>1 DEF Local, Holding, RowOps
  <2>3. proc[r].user \in Owners => \E u \in proc[r].counted : u # proc[r].user
    BY <1>1, <1>2, <1>4 DEF Local, Guarding, LastOwner
  <2>4. Writes(proc[r]) \in Process /\ Local(Writes(proc[r])) /\ Writes(proc[r]).held = proc[r].held
    <3>1. Takes(proc[r]) /\ proc[r].user \in Owners => \E u \in proc[r].counted : u # proc[r].user
      BY <2>3
    <3>2. proc[r].user \in User
      BY <1>2, <2>1 DEF Local, Phases, RowOps
    <3> HIDE <2>3
    <3> QED  BY <1>2, <2>1, <2>2, <3>1, <3>2, WritesLocal
  <2> QED  BY <1>4, <2>4, StatementKeeps DEF Step
<1> QED  BY <1>1, <1>3, <1>4

LEMMA LockTargetKeeps == ASSUME AccountsInv, NEW r \in Request, LockTarget(r) PROVE AccountsInv'
<1> DEFINE u == proc[r].user
           p == [proc[r] EXCEPT !.held = @ \cup {u}]
           a == [p EXCEPT !.pc = "again", !.queue = Owners, !.counted = {}]
<1>1. proc[r] \in Process /\ Local(proc[r])
  BY DEF AccountsInv, TypeOK
<1>2. p.pc = "owners" /\ Free(r, u) /\ p.user = u
  BY <1>1 DEF LockTarget, Process
<1>3. proc[r].pc = "owners" /\ p.op = proc[r].op /\ p.fresh = proc[r].fresh
      /\ p.counted = proc[r].counted /\ p.role = proc[r].role
      /\ p.held = proc[r].held \cup {u}
  BY <1>1, <1>2 DEF Process
<1>4. p.op \in {"role", "enable", "disable"} /\ p.fresh = NoSession
  BY <1>1, <1>3 DEF Local, Phases, Holding
<1>5. u \in User
  BY <1>1, <1>3, <1>4 DEF Local, Phases, RowOps
<1>6. p \in Process
  BY <1>1, <1>5 DEF Process
<1>7. p.counted \subseteq p.held /\ \A v \in p.counted : v \in Owners
  BY <1>1, <1>3 DEF Local, Holding
<1>8. \A v \in p.held : v \in proc[r].held \/ Free(r, v)
  BY <1>2, <1>3
<1>9. \/ Step(r, Idle)
      \/ Guarded(p) /\ Step(r, a)
      \/ ~Guarded(p) /\ Step(r, Writes(p))
  BY <1>2 DEF LockTarget
<1>10. CASE Step(r, Idle)
  BY <1>10, IdleLocal, StatementKeeps DEF Step
<1>11. CASE Guarded(p) /\ Step(r, a)
  <2>1. Owners \in SUBSET User
    BY DEF Owners
  <2>2. /\ a.pc = "again" /\ a.queue = Owners /\ a.counted = {} /\ a.op = p.op
        /\ a.user = u /\ a.held = p.held /\ a.fresh = p.fresh
    BY <1>2, <1>6 DEF Process
  <2>3. a \in Process
    BY <1>6, <2>1 DEF Process
  <2> HIDE DEF a, p
  <2>4. Phases(a) /\ Holding(a)
    BY <1>2, <1>3, <1>4, <1>5, <2>2 DEF Phases, Holding
  <2>5. Guarding(a) /\ Shutting(a)
    BY <1>4, <2>2 DEF Guarding, Shutting, ShutOps
  <2> QED  BY <1>8, <1>11, <2>2, <2>3, <2>4, <2>5, StatementKeeps DEF Step, Local
<1>12. CASE ~Guarded(p) /\ Step(r, Writes(p))
  <2> HIDE DEF p
  <2>1. ~(Takes(p) /\ p.user \in Owners)
    BY <1>12 DEF Guarded, Takes, Owners
  <2>2. Writes(p) \in Process /\ Local(Writes(p)) /\ Writes(p).held = p.held
    BY <1>2, <1>3, <1>4, <1>5, <1>6, <1>7, <2>1, WritesLocal
  <2> QED  BY <1>8, <1>12, <2>2, StatementKeeps DEF Step
<1> QED  BY <1>9, <1>10, <1>11, <1>12

LEMMA WriteRowKeeps == ASSUME AccountsInv, NEW r \in Request, WriteRow(r) PROVE AccountsInv'
<1> DEFINE u == proc[r].user
           p == [proc[r] EXCEPT !.held = @ \cup {u}]
           w == [Revoking(p) EXCEPT !.want = @ \ {p.cookie}]
           c == [p EXCEPT !.pc = "commit"]
<1>1. proc[r] \in Process /\ Local(proc[r])
  BY DEF AccountsInv, TypeOK
<1>2. p.pc = "row" /\ Free(r, u) /\ p.user = u
  BY <1>1 DEF WriteRow, Process
<1>3. /\ proc[r].pc = "row" /\ p.op = proc[r].op /\ p.fresh = proc[r].fresh
      /\ p.counted = proc[r].counted /\ p.held = proc[r].held \cup {u}
  BY <1>1, <1>2 DEF Process
<1>4. p.op \in {"reset", "change", "recover", "create", "bootstrap"} /\ p.fresh = NoSession
  BY <1>1, <1>3 DEF Local, Phases, Holding
<1>5. u \in User
  BY <1>1, <1>3, <1>4 DEF Local, Phases, RowOps
<1>6. p \in Process
  BY <1>1, <1>5 DEF Process
<1>7. p.counted \subseteq p.held /\ \A v \in p.counted : v \in Owners
  BY <1>1, <1>3 DEF Local, Holding
<1>8. \A v \in p.held : v \in proc[r].held \/ Free(r, v)
  BY <1>2, <1>3
<1>9. \/ p.op \notin {"create", "bootstrap"} /\ Step(r, w)
      \/ Step(r, Idle)
      \/ p.op \in {"create", "bootstrap"} /\ ~Exists(p.user) /\ Step(r, c)
  BY <1>2 DEF WriteRow
<1>10. CASE Step(r, Idle)
  BY <1>10, IdleLocal, StatementKeeps DEF Step
<1>11. CASE p.op \in {"create", "bootstrap"} /\ ~Exists(p.user) /\ Step(r, c)
  <2>1. /\ c.pc = "commit" /\ c.op = p.op /\ c.user = u /\ c.held = p.held
        /\ c.counted = p.counted /\ c.fresh = p.fresh
    BY <1>2, <1>6 DEF Process
  <2>2. c \in Process
    BY <1>6 DEF Process
  <2> HIDE DEF c, p
  <2>3. Phases(c) /\ Holding(c)
    BY <1>3, <1>4, <1>5, <1>7, <2>1 DEF Phases, Holding
  <2>4. Guarding(c) /\ Shutting(c)
    BY <1>2, <1>11, <2>1 DEF Guarding, Shutting, ShutOps, Takes
  <2> QED  BY <1>8, <1>11, <2>1, <2>2, <2>3, <2>4, StatementKeeps DEF Step, Local
<1>12. CASE p.op \notin {"create", "bootstrap"} /\ Step(r, w)
  <2>1. LiveOf(u) \in SUBSET Session
    BY DEF LiveOf
  <2> DEFINE v == [p EXCEPT !.pc = "revoke", !.want = LiveOf(u)]
  <2>2. w = [v EXCEPT !.want = @ \ {p.cookie}] /\ v \in Process
    BY <1>2, <1>6, <2>1 DEF Revoking, Process
  <2>3. /\ w.pc = "revoke" /\ w.op = p.op /\ w.user = u /\ w.held = p.held /\ w.cookie = p.cookie
        /\ w.counted = p.counted /\ w.fresh = p.fresh /\ w.want = LiveOf(u) \ {p.cookie}
    BY <1>2, <1>6, <2>2 DEF Process
  <2>4. w \in Process
    <3> HIDE DEF v, p
    <3>1. [v EXCEPT !.want = @ \ {p.cookie}] \in Process
      BY <2>2 DEF Process
    <3> QED  BY <2>2, <3>1
  <2> HIDE DEF w, p
  <2>5. Phases(w) /\ Holding(w)
    BY <1>3, <1>4, <1>5, <1>7, <1>12, <2>3 DEF Phases, Holding
  <2>6. Guarding(w) /\ Shutting(w)
    BY <1>4, <2>3 DEF Guarding, Shutting, ShutOps, Takes
  <2> QED  BY <1>8, <1>12, <2>3, <2>4, <2>5, <2>6, StatementKeeps DEF Step, Local
<1> QED  BY <1>9, <1>10, <1>11, <1>12

LEMMA RotateKeeps == ASSUME AccountsInv, NEW r \in Request, Rotate(r) PROVE AccountsInv'
<1>1. PICK want \in SUBSET Session :
        proc[r].pc = "rotate" /\ Step(r, [proc[r] EXCEPT !.pc = "revoke", !.want = want])
  <2> DEFINE c == proc[r].cookie
             want == IF c # NoSession THEN {c} \cap {s \in Session : Resolves(s)} ELSE {}
  <2>1. proc[r].pc = "rotate" /\ Step(r, [proc[r] EXCEPT !.pc = "revoke", !.want = want])
    BY DEF Rotate
  <2>2. want \in SUBSET Session
    OBVIOUS
  <2> QED  BY <2>1, <2>2
<1> DEFINE p == [proc[r] EXCEPT !.pc = "revoke", !.want = want]
<1>2. proc[r] \in Process /\ Local(proc[r])
  BY DEF AccountsInv, TypeOK
<1>3. /\ p.pc = "revoke" /\ p.op = proc[r].op /\ p.user = proc[r].user /\ p.held = proc[r].held
      /\ p.counted = proc[r].counted /\ p.fresh = proc[r].fresh
  BY <1>2 DEF Process
<1>4. p \in Process
  BY <1>2 DEF Process
<1> HIDE DEF p
<1>5. p.op = "login" /\ Phases(p) /\ Holding(p)
  BY <1>1, <1>2, <1>3 DEF Local, Phases, Holding, RowOps
<1>6. Guarding(p) /\ Shutting(p)
  BY <1>3, <1>5 DEF Guarding, Shutting, ShutOps, Takes
<1> QED  BY <1>1, <1>3, <1>4, <1>5, <1>6, StatementKeeps DEF Step, Local, p

LEMMA RevokeKeeps == ASSUME AccountsInv, NEW r \in Request, Revoke(r) PROVE AccountsInv'
<1>1. PICK s \in proc[r].want :
        /\ proc[r].pc = "revoke"
        /\ Step(r, [proc[r] EXCEPT !.want = @ \ {s}, !.rows = @ \cup {s}])
  BY DEF Revoke
<1> DEFINE p == [proc[r] EXCEPT !.want = @ \ {s}, !.rows = @ \cup {s}]
<1>2. proc[r] \in Process /\ Local(proc[r]) /\ s \in Session
  BY DEF AccountsInv, TypeOK, Process
<1>3. /\ p.pc = "revoke" /\ p.op = proc[r].op /\ p.user = proc[r].user /\ p.held = proc[r].held
      /\ p.counted = proc[r].counted /\ p.fresh = proc[r].fresh /\ p.role = proc[r].role
      /\ p.cookie = proc[r].cookie
      /\ p.want = proc[r].want \ {s} /\ p.rows = proc[r].rows \cup {s}
  BY <1>1, <1>2 DEF Process
<1>4. p \in Process
  BY <1>2 DEF Process
<1> HIDE DEF p
<1>5. Phases(p) /\ Holding(p)
  BY <1>1, <1>2, <1>3 DEF Local, Phases, Holding
<1>6. Guarding(p)
  BY <1>1, <1>2, <1>3 DEF Local, Guarding, Takes
<1>7. Shutting(p)
  BY <1>1, <1>2, <1>3 DEF Local, Shutting
<1> QED  BY <1>1, <1>3, <1>4, <1>5, <1>6, <1>7, StatementKeeps DEF Step, Local, p

LEMMA OpenKeeps == ASSUME AccountsInv, NEW r \in Request, Open(r) PROVE AccountsInv'
<1>1. PICK s \in Session :
        /\ proc[r].op = "login" /\ proc[r].pc = "revoke" /\ Free(r, proc[r].user)
        /\ Step(r, [proc[r] EXCEPT !.pc = "commit", !.fresh = s, !.held = @ \cup {proc[r].user}])
  BY DEF Open
<1> DEFINE p == [proc[r] EXCEPT !.pc = "commit", !.fresh = s, !.held = @ \cup {proc[r].user}]
<1>2. proc[r] \in Process /\ Local(proc[r])
  BY DEF AccountsInv, TypeOK
<1>3. proc[r].user \in User
  BY <1>1, <1>2 DEF Local, Phases
<1>4. /\ p.pc = "commit" /\ p.op = "login" /\ p.user = proc[r].user
      /\ p.held = proc[r].held \cup {proc[r].user} /\ p.counted = proc[r].counted
  BY <1>1, <1>2 DEF Process
<1>5. p \in Process
  BY <1>2, <1>3 DEF Process
<1> HIDE DEF p
<1>6. Phases(p) /\ Holding(p)
  BY <1>2, <1>3, <1>4 DEF Local, Phases, Holding, RowOps
<1>7. Guarding(p) /\ Shutting(p)
  BY <1>4 DEF Guarding, Shutting, ShutOps, Takes
<1> QED  BY <1>1, <1>4, <1>5, <1>6, <1>7, StatementKeeps DEF Step, Local, p

LEMMA AbortKeeps == ASSUME AccountsInv, NEW r \in Request, Abort(r) PROVE AccountsInv'
BY IdleLocal, StatementKeeps DEF Abort, Step

(* What a commit leaves of the accounts and sessions another request holds *)
LEMMA CommitEffect ==
    ASSUME AccountsInv, NEW r \in Request, Commit(r), NEW u \in User
    PROVE  /\ users'[u] = IF u = proc[r].user THEN Rewritten(proc[r], users[u]) ELSE users[u]
           /\ u \notin proc[r].held => users'[u].role = users[u].role
                                    /\ users'[u].enabled = users[u].enabled
                                    /\ LiveOf(u)' \subseteq LiveOf(u)
<1>1. proc[r] \in Process /\ Local(proc[r])
  BY DEF AccountsInv, TypeOK
<1>2. users'[u] = IF u = proc[r].user THEN Rewritten(proc[r], users[u]) ELSE users[u]
  BY DEF Commit
<1>3. ASSUME u \notin proc[r].held
      PROVE  users'[u].role = users[u].role /\ users'[u].enabled = users[u].enabled
  <2>1. users[u].enabled \in BOOLEAN
    BY DEF AccountsInv, TypeOK, Account
  <2>2. u = proc[r].user => proc[r].op \notin RowOps
    BY <1>1, <1>3 DEF Commit, Ready, Local, Holding
  <2>3. u = proc[r].user => /\ Rewritten(proc[r], users[u]).role = users[u].role
                            /\ Rewritten(proc[r], users[u]).enabled = users[u].enabled
    BY <2>1, <2>2 DEF Rewritten, RowOps
  <2> QED  BY <1>2, <2>3
<1>4. ASSUME u \notin proc[r].held, NEW s \in Session, sessions'[s].user = u, sessions'[s].live
      PROVE  sessions[s].user = u /\ sessions[s].live
  <2>1. /\ sessions[s] \in Login
        /\ sessions'[s] = IF s = proc[r].fresh THEN [user |-> proc[r].user, live |-> TRUE]
                          ELSE IF s \in proc[r].rows THEN [sessions[s] EXCEPT !.live = FALSE]
                          ELSE sessions[s]
    BY DEF Commit, AccountsInv, TypeOK
  <2>2. s # proc[r].fresh
    BY <1>1, <1>4, <2>1, AccountsAssumption DEF Local, Holding
  <2> QED  BY <1>4, <2>1, <2>2 DEF Login
<1> QED  BY <1>2, <1>3, <1>4 DEF LiveOf

LEMMA CommitKeeps == ASSUME AccountsInv, NEW r \in Request, Commit(r) PROVE AccountsInv'
<1>1. proc[r] \in Process /\ Local(proc[r])
  BY DEF AccountsInv, TypeOK
<1>2. proc'[r] = Idle /\ \A q \in Request : q # r => proc'[q] = proc[q]
  BY DEF Commit, AccountsInv, TypeOK
<1>3. TypeOK'
  <2>1. ASSUME NEW u \in User PROVE users'[u] \in Account
    <3>1. users[u] \in Account
      BY DEF AccountsInv, TypeOK
    <3>2. Rewritten(proc[r], users[u]) \in Account
      BY <1>1, <3>1 DEF Rewritten, Account, Process
    <3> QED  BY <3>1, <3>2, CommitEffect
  <2>2. ASSUME NEW s \in Session PROVE sessions'[s] \in Login
    <3>1. proc[r].user \in User \cup {NoUser} /\ sessions[s] \in Login
      BY <1>1 DEF AccountsInv, TypeOK, Process
    <3>2. \/ sessions'[s] = [user |-> proc[r].user, live |-> TRUE]
          \/ sessions'[s] = [sessions[s] EXCEPT !.live = FALSE]
          \/ sessions'[s] = sessions[s]
      BY DEF Commit
    <3>3. [user |-> proc[r].user, live |-> TRUE] \in Login
      BY <3>1 DEF Login
    <3>4. [sessions[s] EXCEPT !.live = FALSE] \in Login
      BY <3>1 DEF Login
    <3> QED  BY <3>1, <3>2, <3>3, <3>4
  <2>3. proc' \in [Request -> Process]
    BY IdleLocal DEF Commit, AccountsInv, TypeOK
  <2> QED  BY <2>1, <2>2, <2>3 DEF TypeOK, Commit
<1>4. Named'
  <2> SUFFICES ASSUME NEW s \in Session, sessions'[s].live PROVE sessions'[s].user \in User
    BY DEF Named
  <2>1. /\ sessions[s] \in Login
        /\ sessions'[s] = IF s = proc[r].fresh THEN [user |-> proc[r].user, live |-> TRUE]
                          ELSE IF s \in proc[r].rows THEN [sessions[s] EXCEPT !.live = FALSE]
                          ELSE sessions[s]
    BY DEF Commit, AccountsInv, TypeOK
  <2>2. s = proc[r].fresh => proc[r].user \in User
    BY <1>1, AccountsAssumption DEF Local, Holding, Phases
  <2> QED  BY <2>1, <2>2 DEF Login, AccountsInv, Named
<1>5. Exclusive'
  BY <1>2, IdleLocal DEF AccountsInv, Exclusive
<1>6. Local(proc[r])'
  BY <1>2 DEF Idle, Local, Phases, Holding, Guarding, Takes, Shutting, ShutOps, RowOps
<1>7. ASSUME NEW q \in Request, q # r PROVE Local(proc[q])'
  <2>1. proc[q] \in Process /\ Local(proc[q]) /\ proc'[q] = proc[q]
    BY <1>2, <1>7 DEF AccountsInv, TypeOK
  <2>2. \A u \in proc[q].held : u \in User /\ u \notin proc[r].held
    BY <1>7, <2>1 DEF AccountsInv, Exclusive, Process
  <2>3. \A u \in proc[q].held : /\ (u \in Owners) <=> (u \in Owners')
                                /\ Exists(u) <=> Exists(u)'
                                /\ LiveOf(u)' \subseteq LiveOf(u)
    BY <2>2, CommitEffect DEF Owners, Exists
  <2>4. Phases(proc[q])' /\ Holding(proc[q])'
    BY <2>1, <2>3 DEF Local, Phases, Holding
  <2>5. Guarding(proc[q])'
    <3>1. proc[q].pc \in {"again", "revoke", "commit"} /\ proc[q].op \in RowOps =>
             /\ proc[q].user \in Owners' => proc[q].user \in Owners
             /\ Exists(proc[q].user)' => Exists(proc[q].user)
      BY <2>1, <2>3 DEF Local, Holding
    <3>2. proc[q].pc = "again" => proc[q].op \in RowOps
      BY <2>1 DEF Local, Phases, RowOps
    <3>3. Takes(proc[q]) => proc[q].op \in RowOps
      BY DEF Takes, RowOps
    <3>4. Takes(proc[q])' <=> Takes(proc[q])
      BY <2>1 DEF Takes
    <3>5. proc[q].op \in {"create", "bootstrap"} /\ proc[q].pc = "commit" => ~Exists(proc[q].user)'
      BY <2>1, <3>1 DEF Local, Guarding, RowOps
    <3>6. proc[q].pc = "again" /\ proc[q].user \in Owners' =>
             proc[q].user \in proc[q].counted \cup proc[q].queue
      BY <2>1, <3>1, <3>2 DEF Local, Guarding
    <3>7. proc[q].pc \in {"revoke", "commit"} /\ Takes(proc[q]) /\ proc[q].user \in Owners' =>
             \E u \in proc[q].counted : u # proc[q].user
      BY <2>1, <3>1, <3>3 DEF Local, Guarding
    <3> QED  BY <2>1, <3>4, <3>5, <3>6, <3>7 DEF Guarding
  <2>6. Shutting(proc[q])'
    BY <2>1, <2>3 DEF Local, Holding, Shutting, RowOps, ShutOps
  <2> QED  BY <2>4, <2>5, <2>6 DEF Local
<1> QED  BY <1>3, <1>4, <1>5, <1>6, <1>7 DEF AccountsInv

LEMMA Invariant == Spec => []AccountsInv
<1>1. Init => AccountsInv
  <2>1. Init => TypeOK
    BY IdleLocal DEF Init, TypeOK, Account, Login, Absent, Unused
  <2>2. Init => Named /\ Exclusive
    BY IdleLocal DEF Init, Named, Exclusive, Unused
  <2>3. Init => \A r \in Request : Local(proc[r])
    BY IdleLocal DEF Init
  <2> QED  BY <2>1, <2>2, <2>3 DEF AccountsInv
<1>2. AccountsInv /\ [Next]_vars => AccountsInv'
  <2> SUFFICES ASSUME AccountsInv, [Next]_vars PROVE AccountsInv'
    OBVIOUS
  <2>1. CASE UNCHANGED vars
    BY <2>1 DEF vars, AccountsInv, TypeOK, Named, Exclusive, Local, Phases, Holding, Guarding,
                Takes, Shutting, Owners, Exists, LiveOf
  <2>2. CASE Next
    BY <2>2, ReceiveKeeps, LockOwnerKeeps, LockTargetKeeps, GuardKeeps, WriteRowKeeps, RotateKeeps,
       RevokeKeeps, OpenKeeps, CommitKeeps, AbortKeeps DEF Next
  <2> QED  BY <2>1, <2>2
<1> QED  BY <1>1, <1>2, PTL DEF Spec

(* The rows keep their types, for every number of accounts and requests. *)
THEOREM AccountTypes == Spec => []TypeOK
BY Invariant, PTL DEF AccountsInv

LEMMA OnlyCommitWrites ==
    ASSUME [Next]_vars
    PROVE  UNCHANGED users \/ \E r \in Request : Commit(r)
BY DEF Next, vars, Receive, Step, UpdateUser, DisableUser, SetUserPassword, Recover, ChangeOwnPassword,
       CreateUser, Bootstrap, EndSession, LogIn, LockOwner, LockTarget, Guard, WriteRow, Rotate,
       Revoke, Open, Abort

(* A deployment with an enabled owner keeps one, whatever its owners'       *)
(* requests overlap with: whoever takes one out of the set holds the row of *)
(* another (users.py, _refuse_emptying_the_owners).                        *)
THEOREM OwnersNeverEmptied == Spec => OwnerRemains
<1>1. AccountsInv /\ [Next]_vars =>
        (Owners # {} =>
          \/ Owners' # {}
          \/ \E r \in Request : Commit(r) /\ proc[r].op = "recover" /\ proc[r].role = "viewer")
  <2> SUFFICES ASSUME AccountsInv, [Next]_vars, Owners # {},
                      ~\E r \in Request : Commit(r) /\ proc[r].op = "recover" /\ proc[r].role = "viewer"
               PROVE  Owners' # {}
    OBVIOUS
  <2>1. CASE UNCHANGED users
    BY <2>1 DEF Owners
  <2>2. ASSUME NEW r \in Request, Commit(r) PROVE Owners' # {}
    <3> DEFINE p == proc[r]
    <3>1. p \in Process /\ Local(p)
      BY DEF AccountsInv, TypeOK
    <3>2. ~(p.op = "recover" /\ p.role = "viewer")
      BY <2>2
    <3>3. \A u \in Owners : u # p.user => u \in Owners'
      BY <2>2, CommitEffect DEF Owners
    <3>4. CASE p.user \notin Owners
      BY <3>3, <3>4
    <3>5. CASE p.user \in Owners /\ Takes(p)
      <4>1. PICK u \in p.counted : u # p.user
        BY <2>2, <3>1, <3>5 DEF Commit, Ready, Local, Guarding
      <4>2. u \in Owners
        BY <3>1 DEF Local, Holding
      <4> QED  BY <3>3, <4>1, <4>2
    <3>6. CASE p.user \in Owners /\ ~Takes(p)
      <4>1. users[p.user].role = "owner" /\ users[p.user].enabled = TRUE /\ p.user \in User
        BY <3>6 DEF Owners, AccountsInv, TypeOK, Account
      <4>2. p.op \notin {"create", "bootstrap"}
        BY <2>2, <3>1, <4>1 DEF Commit, Ready, Local, Guarding, Phases, Exists
      <4>3. p.op \in {"role", "recover"} => p.role \in {"owner", "kept"}
        BY <3>1, <3>2, <3>6 DEF Process, Role, Takes
      <4>4. Rewritten(p, users[p.user]).role = "owner"
        BY <4>1, <4>2, <4>3 DEF Rewritten
      <4>5. Rewritten(p, users[p.user]).enabled = TRUE
        BY <3>6, <4>1 DEF Rewritten, Takes
      <4>6. users'[p.user] = Rewritten(p, users[p.user])
        BY <2>2, <4>1, CommitEffect
      <4> QED  BY <4>1, <4>4, <4>5, <4>6 DEF Owners
    <3> QED  BY <3>4, <3>5, <3>6
  <2> QED  BY <2>1, <2>2, OnlyCommitWrites
<1> QED  BY <1>1, Invariant, PTL DEF Spec, OwnerRemains

(* Whoever changes, resets or disables has revoked every session the account *)
(* has when the change takes effect, but the one it was made with          *)
(* (session.py, change_own_password; users.py, disable_user).              *)
THEOREM ChangeShutsOut == Spec => ShutOut
<1>1. AccountsInv /\ [Next]_vars =>
        \A r \in Request, u \in User :
            (/\ Commit(r) /\ proc[r].user = u
             /\ proc[r].op \in {"change", "reset", "recover", "disable"}) =>
                LiveOf(u)' \subseteq {proc[r].cookie}
  <2> SUFFICES ASSUME AccountsInv, NEW r \in Request, NEW u \in User, Commit(r), proc[r].user = u,
                      proc[r].op \in ShutOps,
                      NEW s \in Session, sessions'[s].user = u, sessions'[s].live
               PROVE  s = proc[r].cookie
    BY DEF LiveOf, ShutOps
  <2>1. proc[r] \in Process /\ Local(proc[r])
    BY DEF AccountsInv, TypeOK
  <2>2. proc[r].fresh = NoSession /\ s # NoSession
    BY <2>1, AccountsAssumption DEF Local, Holding, ShutOps
  <2>3. proc[r].pc = "revoke" /\ proc[r].want = {}
    BY <2>1 DEF Local, Shutting, Commit, Ready
  <2>4. sessions[s] \in Login /\ sessions'[s] = IF s \in proc[r].rows
                                                THEN [sessions[s] EXCEPT !.live = FALSE]
                                                ELSE sessions[s]
    BY <2>2 DEF Commit, AccountsInv, TypeOK
  <2>5. s \notin proc[r].rows /\ s \in LiveOf(u)
    BY <2>4 DEF LiveOf, Login
  <2> QED  BY <2>1, <2>3, <2>5 DEF Local, Shutting
<1> QED  BY <1>1, Invariant, PTL DEF Spec, ShutOut
=============================================================================
