---------------------------- MODULE SessionWindows ----------------------------
(***************************************************************************)
(* The life of one session (api/accounts.py): each request reads its clock *)
(* once, resolves the session and slides its idle window, in a transaction *)
(* of its own; the writes of overlapping requests land in any order.       *)
(***************************************************************************)
EXTENDS Integers

CONSTANTS
    Visit,                       \* requests that may overlap
    Idle, Absolute, Refresh,     \* IDLE_WINDOW, ABSOLUTE_WINDOW, LAST_SEEN_REFRESH
    Stall,                       \* a request ends within Stall ticks of its clock reading
    SessionSpan

ASSUME SessionAssumption ==
    /\ {Idle, Absolute, Refresh, Stall, SessionSpan} \subseteq Nat
    /\ 0 < Refresh /\ Refresh < Idle /\ Idle < Absolute

VARIABLES
    clock,
    seen, idle,  \* last_seen_at and idle_expires_at of the row, created at 0
    visits,
    used         \* the latest clock of a request that was answered

sessionVars == <<clock, seen, idle, visits, used>>

Waiting == [pc |-> "idle", at |-> 0, seen |-> 0]

SessionTypeOK ==
    /\ {clock, seen, idle, used} \subseteq Nat
    /\ visits \in [Visit -> [pc : {"idle", "resolve", "touch"}, at : Nat, seen : Nat]]

SessionInit ==
    /\ clock = 0 /\ seen = 0 /\ idle = Idle /\ used = 0
    /\ visits = [v \in Visit |-> Waiting]

-----------------------------------------------------------------------------
(* resolve_session's windows, for a session neither revoked nor disabled *)
Resolves(at) == idle > at /\ Absolute > at

Arrive(v) ==
    /\ visits[v].pc = "idle"
    /\ visits' = [visits EXCEPT ![v] = [pc |-> "resolve", at |-> clock, seen |-> 0]]
    /\ UNCHANGED <<clock, seen, idle, used>>

Resolve(v) ==
    /\ visits[v].pc = "resolve"
    /\ visits' = [visits EXCEPT ![v] = IF Resolves(visits[v].at)
                                       THEN [@ EXCEPT !.pc = "touch", !.seen = seen] ELSE Waiting]
    /\ UNCHANGED <<clock, seen, idle, used>>

(* mutant: a window exactly as old as the interval is left alone *)
FreshOrDue(visit) == visit.at - visit.seen <= Refresh

Fresh(visit) == visit.at - visit.seen < Refresh

(* mutant: the window slides from the end of the one before *)
SlidFurther(at) == idle + at - seen + 1

Slid(at) == at + Idle

(* touch_session and the commit: it compares with the row it resolved *)
Touch(v) ==
    LET visit == visits[v] IN
    /\ visit.pc = "touch"
    /\ IF Fresh(visit) THEN UNCHANGED <<seen, idle>>
       ELSE seen' = visit.at /\ idle' = Slid(visit.at)
    /\ used' = IF visit.at > used THEN visit.at ELSE used
    /\ visits' = [visits EXCEPT ![v] = Waiting]
    /\ UNCHANGED clock

SessionTick ==
    /\ clock < SessionSpan
    /\ \A v \in Visit : visits[v].pc # "idle" => clock < visits[v].at + Stall
    /\ clock' = clock + 1
    /\ UNCHANGED <<seen, idle, visits, used>>

SessionNext == SessionTick \/ \E v \in Visit : Arrive(v) \/ Resolve(v) \/ Touch(v)

SessionSpec == SessionInit /\ [][SessionNext]_sessionVars

-----------------------------------------------------------------------------
(* A session used at an instant still answers for IDLE_WINDOW less the      *)
(* refresh interval, or less what a slow request that overlapped takes     *)
(* back when it writes an older clock (accounts.py, touch_session).        *)
KeptWhileUsed == used + Idle < idle + Refresh \/ used + Idle <= idle + Stall

(* A session nobody used for IDLE_WINDOW answers no more, whatever order   *)
(* the touches landed in (accounts.py, touch_session).                     *)
SilenceEnds == idle <= used + Idle
=============================================================================
