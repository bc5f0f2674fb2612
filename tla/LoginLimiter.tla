----------------------------- MODULE LoginLimiter -----------------------------
(***************************************************************************)
(* The login limiter of api/accounts.py.  A call of authenticate reads the  *)
(* attempts recorded for its address, then those for its account, verifies *)
(* the password only if both are open, and records its own attempt; other  *)
(* calls commit theirs in between.  Durations are in ticks of a clock each *)
(* call reads once.                                                        *)
(***************************************************************************)
EXTENDS Integers, Bags, Functions, FiniteSetsExt

CONSTANTS
    Name, Ip, LoginCall,
    UnknownIp,  \* the address of a caller whose own cannot be resolved
    AccountBackoff, AccountLock, AccountWindow,  \* ACCOUNT_BACKOFF_AFTER ...
    IpBackoff, IpLock, IpWindow,
    LockDuration, MaxBackoff, KnownGoodWindow,
    LimiterSpan, MaxAttempts                      \* bounds of the model

ASSUME LimiterAssumption ==
    /\ {AccountBackoff, AccountLock, IpBackoff, IpLock, MaxBackoff} \subseteq Nat \ {0}
    /\ {AccountWindow, IpWindow, LockDuration, KnownGoodWindow} \subseteq Nat \ {0}
    /\ {LimiterSpan, MaxAttempts} \subseteq Nat

(* LOCK_DURATION = IP_LOCK_WINDOW = MAX_BACKOFF = 15 minutes *)
ASSUME WindowsAssumption == IpWindow <= LockDuration /\ MaxBackoff <= LockDuration

ASSUME CallsAssumption == IsFiniteSet(LoginCall)

VARIABLES
    now,
    attempts,  \* lineage.login_attempts as committed
    calls

limiterVars == <<now, attempts, calls>>

(* An attempt's outcome is "success", "failed" (bad_credential, disabled)   *)
(* or "refused" (locked, rate_limited).                                    *)

LimiterInit ==
    /\ now = 0
    /\ attempts = EmptyBag
    /\ calls = [c \in LoginCall |-> [pc |-> "idle"]]

-----------------------------------------------------------------------------
Attempts == BagToSet(attempts)
CountOf(S) == FoldFunctionOnSet(+, 0, attempts, S)

(* mutant: what the limiter refused counts as well *)
Unsuccessful(S) == {a \in S : a.outcome # "success"}

(* _CREDENTIAL_FAILURES *)
Failures(S) == {a \in S : a.outcome = "failed"}

BackoffFor(n, after) == IF n < after THEN 0 ELSE Min({2 ^ (n - after), MaxBackoff})

(* mutant: the lock comes one failure late *)
LocksLate(failures, window, lockAfter, at) ==
    /\ CountOf({a \in failures : a.at > at - window}) > lockAfter
    /\ \E a \in failures : at < a.at + LockDuration

Locks(failures, window, lockAfter, at) ==
    /\ CountOf({a \in failures : a.at > at - window}) >= lockAfter
    /\ \E a \in failures : at < a.at + LockDuration

(* _failure_profile of some of the attempts, and _state_from: the failures *)
(* of the caller's past, those since the last success of any time          *)
StateFrom(some, window, lockAfter, backoffAfter, at) ==
    LET failures == {a \in Failures(some) : a.at <= at}
        consecutive == {a \in failures : \A s \in some : s.outcome = "success" => s.at < a.at}
    IN  IF failures = {} THEN "open"
        ELSE IF Locks(failures, window, lockAfter, at) THEN "locked"
        ELSE IF \E a \in failures : at < a.at + BackoffFor(CountOf(consecutive), backoffAfter)
        THEN "backoff"
        ELSE "open"

IpState(ip, at) ==
    StateFrom({a \in Attempts : a.ip = ip}, IpWindow, IpLock, IpBackoff, at)

IsKnownGood(name, ip, at) ==
    /\ ip # UnknownIp
    /\ \E a \in Attempts : /\ a.name = name /\ a.ip = ip /\ a.outcome = "success"
                           /\ a.at > at - KnownGoodWindow

AccountState(name, ip, at) ==
    LET state == StateFrom({a \in Attempts : a.name = name}, AccountWindow,
                           AccountLock, AccountBackoff, at)
    IN  IF state = "locked" /\ IsKnownGood(name, ip, at) THEN "open" ELSE state

-----------------------------------------------------------------------------
Begin(c) ==
    /\ calls[c].pc = "idle" /\ BagCardinality(attempts) < MaxAttempts
    /\ \E name \in Name, ip \in Ip :
          calls' = [calls EXCEPT ![c] = [pc |-> "ip", at |-> now, name |-> name, ip |-> ip]]
    /\ UNCHANGED <<now, attempts>>

Turned(c, record) == calls' = [calls EXCEPT ![c] = record] /\ UNCHANGED <<now, attempts>>

Verdict(call, outcome) ==
    [pc |-> "record", at |-> call.at, name |-> call.name, ip |-> call.ip, outcome |-> outcome]

CheckIp(c) ==
    LET call == calls[c] IN
    /\ call.pc = "ip"
    /\ Turned(c, IF IpState(call.ip, call.at) = "open" THEN [call EXCEPT !.pc = "account"]
                 ELSE Verdict(call, "refused"))

(* Whether the account exists, is enabled and the password its own is the  *)
(* caller's business.                                                      *)
CheckAccount(c) ==
    LET call == calls[c] IN
    /\ call.pc = "account"
    /\ IF AccountState(call.name, call.ip, call.at) = "open"
       THEN \E outcome \in {"success", "failed"} : Turned(c, Verdict(call, outcome))
       ELSE Turned(c, Verdict(call, "refused"))

(* record_attempt and the commit of the handler *)
RecordAttempt(c) ==
    LET call == calls[c] IN
    /\ call.pc = "record"
    /\ attempts' = attempts (+) SetToBag({[at |-> call.at, name |-> call.name, ip |-> call.ip,
                                          outcome |-> call.outcome]})
    /\ calls' = [calls EXCEPT ![c] = [pc |-> "idle"]]
    /\ UNCHANGED now

(* A worker killed: the handler's transaction is rolled back *)
Drop(c) == calls[c].pc # "idle" /\ Turned(c, [pc |-> "idle"])

LimiterTick == now < LimiterSpan /\ now' = now + 1 /\ UNCHANGED <<attempts, calls>>

LimiterNext ==
    \/ LimiterTick
    \/ \E c \in LoginCall :
          Begin(c) \/ CheckIp(c) \/ CheckAccount(c) \/ RecordAttempt(c) \/ Drop(c)

LimiterSpec == LimiterInit /\ [][LimiterNext]_limiterVars

-----------------------------------------------------------------------------
(* Whoever is refused now, for the address or the account, a password was   *)
(* really tried less than LOCK_DURATION ago: attempts the limiter refused  *)
(* do not prolong its own lock (accounts.py, "otherwise a lock feeds       *)
(* itself and never expires").                                             *)
TimeBoxed ==
    LET tried(some) == \E a \in some : a.outcome = "failed" /\ now < a.at + LockDuration
    IN  \A name \in Name, ip \in Ip :
            /\ IpState(ip, now) # "open" => tried({a \in Attempts : a.ip = ip})
            /\ AccountState(name, ip, now) # "open" => tried({a \in Attempts : a.name = name})

(* However calls overlap, an address tries no more wrong passwords in one   *)
(* IP_LOCK_WINDOW than IP_LOCK_AFTER and the calls that had passed the     *)
(* check when the last of these was recorded (accounts.py, ip_state).      *)
TriesBounded ==
    \A ip \in Ip, start \in 0..now :
        CountOf({a \in Attempts : /\ a.ip = ip /\ a.outcome = "failed"
                                /\ a.at \in start..(start + IpWindow - 1)})
            <= IpLock + Cardinality(LoginCall) - 1
=============================================================================
