----------------------------- MODULE Windows_proofs -----------------------------
(* The promises of the three windows of the API, for every number of        *)
(* overlapping requests and every choice of their lengths: the minutes of  *)
(* the rate limit, a sliding session, and the login limiter.               *)
EXTENDS Extrema, RateWindow, SessionWindows, LoginLimiter, TLAPS

(* The rate limit *)

(* The row counts the minute it names, and no later one was charged *)
Counted ==
    /\ granted[row.window] = row.requests
    /\ \A m \in 0..LastMinute : m > row.window => granted[m] = 0
    /\ \A m \in 0..LastMinute : granted[m] <= Limit

RateInv == RateTypeOK /\ Counted

LEMMA ChargeCounted ==
    ASSUME RateInv, NEW c \in Request, Charge(c)
    PROVE  RateInv'
<1> DEFINE m == charges[c]
<1>1. m \in 0..LastMinute /\ charges' \in [Request -> 0..LastMinute \cup {Unasked}] /\ minute' = minute
  BY LimitAssumption DEF RateInv, RateTypeOK, Charge, Unasked
<1>2. CASE ~Admits(m)
  BY <1>1, <1>2 DEF RateInv, RateTypeOK, Counted, Charge
<1>3. CASE Admits(m)
  <2>1. /\ row' = [window |-> m, requests |-> IF row.window = m THEN row.requests + 1 ELSE 1]
        /\ granted' = [granted EXCEPT ![m] = @ + 1]
    BY <1>3 DEF Charge
  <2>2. granted' \in [0..LastMinute -> Nat] /\ granted'[m] = row'.requests
    BY <1>1, <1>3, <2>1, LimitAssumption DEF RateInv, RateTypeOK, Counted, Admits
  <2>3. row'.requests \in 0..Limit /\ row'.window = m
    BY <1>1, <1>3, <2>1, LimitAssumption DEF RateInv, RateTypeOK, Admits
  <2>4. \A k \in 0..LastMinute : k # m => granted'[k] = granted[k]
    BY <1>1, <2>1 DEF RateInv, RateTypeOK
  <2>5. row.window <= m
    BY <1>1, <1>3, LimitAssumption DEF RateInv, RateTypeOK, Admits
  <2>6. ASSUME NEW k \in 0..LastMinute
        PROVE  granted'[k] <= Limit /\ (k > row'.window => granted'[k] = 0)
    <3>1. CASE k = m
      BY <1>1, <2>2, <2>3, <3>1, LimitAssumption
    <3>2. CASE k # m
      <4>1. granted'[k] = granted[k] /\ granted[k] <= Limit
        BY <2>4, <3>2 DEF RateInv, Counted
      <4>2. k > m => granted[k] = 0
        BY <1>1, <2>5, LimitAssumption DEF RateInv, RateTypeOK, Counted
      <4> QED  BY <2>3, <4>1, <4>2
    <3> QED  BY <3>1, <3>2
  <2>7. Counted'
    BY <2>2, <2>3, <2>6 DEF Counted
  <2> QED  BY <1>1, <2>1, <2>2, <2>3, <2>7 DEF RateInv, RateTypeOK
<1> QED  BY <1>2, <1>3

LEMMA RateInvariant == RateSpec => []RateInv
<1>1. RateInit => RateInv
  BY LimitAssumption DEF RateInit, RateInv, RateTypeOK, Counted, Unasked
<1>2. RateInv /\ [RateNext]_rateVars => RateInv'
  <2> SUFFICES ASSUME RateInv, [RateNext]_rateVars PROVE RateInv'
    OBVIOUS
  <2>1. CASE Minute
    BY <2>1, LimitAssumption DEF Minute, RateInv, RateTypeOK, Counted
  <2>2. ASSUME NEW c \in Request, Ask(c) PROVE RateInv'
    BY <2>2 DEF Ask, RateInv, RateTypeOK, Counted
  <2>3. ASSUME NEW c \in Request, Charge(c) PROVE RateInv'
    BY <2>3, ChargeCounted
  <2>4. CASE UNCHANGED rateVars
    BY <2>4 DEF rateVars, RateInv, RateTypeOK, Counted
  <2> QED  BY <2>1, <2>2, <2>3, <2>4 DEF RateNext
<1> QED  BY <1>1, <1>2, PTL DEF RateSpec

(* No minute lets more than its limit through: rate_limit.py, _CONSUME *)
THEOREM MinutesWithinLimit == RateSpec => []WithinLimit
<1>1. RateInv => WithinLimit
  BY DEF RateInv, Counted, WithinLimit
<1> QED  BY <1>1, RateInvariant, PTL

-----------------------------------------------------------------------------
(* A session *)

(* A request in flight began a moment ago, and the row it resolved has only *)
(* been set back by one that began not much earlier.                       *)
InFlight(v) ==
    /\ visits[v].pc # "idle" =>
          visits[v].at <= clock /\ clock <= visits[v].at + Stall
    /\ visits[v].pc = "touch" =>
          visits[v].seen <= seen \/ visits[v].at <= seen + Stall

Row ==
    /\ idle = seen + Idle
    /\ seen <= used /\ used <= clock
    /\ used < seen + Refresh \/ used <= seen + Stall

SessionInv == SessionTypeOK /\ Row /\ \A v \in Visit : InFlight(v)

LEMMA TouchKeeps ==
    ASSUME SessionInv, NEW v \in Visit, Touch(v)
    PROVE  SessionInv'
<1> DEFINE visit == visits[v]
<1>1. /\ visit \in [pc : {"idle", "resolve", "touch"}, at : Nat, seen : Nat]
      /\ visit.pc = "touch" /\ clock' = clock /\ clock \in Nat
      /\ visits' = [visits EXCEPT ![v] = Waiting]
      /\ used' = IF visit.at > used THEN visit.at ELSE used
  BY DEF Touch, SessionInv, SessionTypeOK
<1>2. visit.at <= clock /\ clock <= visit.at + Stall
  BY <1>1 DEF SessionInv, InFlight
<1>3. visits' \in [Visit -> [pc : {"idle", "resolve", "touch"}, at : Nat, seen : Nat]]
  BY <1>1 DEF SessionInv, SessionTypeOK, Waiting
<1>4. \A w \in Visit : w # v => visits'[w] = visits[w]
  BY <1>1 DEF SessionInv, SessionTypeOK
<1>5. visits'[v].pc = "idle"
  BY <1>1 DEF SessionInv, SessionTypeOK, Waiting
<1>6. CASE Fresh(visit)
  <2>1. seen' = seen /\ idle' = idle
    BY <1>6 DEF Touch
  <2>2. Row'
    <3>1. visit.seen <= seen \/ visit.at <= seen + Stall
      BY <1>1 DEF SessionInv, InFlight
    <3>2. visit.at < visit.seen + Refresh
      BY <1>1, <1>6, SessionAssumption DEF Fresh
    <3> QED  BY <1>1, <1>2, <2>1, <3>1, <3>2, SessionAssumption
             DEF SessionInv, SessionTypeOK, Row
  <2>3. \A w \in Visit : InFlight(w)'
    BY <1>1, <1>4, <1>5, <2>1 DEF SessionInv, InFlight
  <2> QED  BY <1>1, <1>3, <2>1, <2>2, <2>3 DEF SessionInv, SessionTypeOK
<1>7. CASE ~Fresh(visit)
  <2>1. seen' = visit.at /\ idle' = visit.at + Idle
    BY <1>7 DEF Touch, Slid
  <2>2. Row'
    BY <1>1, <1>2, <2>1, SessionAssumption DEF SessionInv, SessionTypeOK, Row
  <2>3. ASSUME NEW w \in Visit PROVE InFlight(w)'
    <3>1. CASE w = v
      BY <3>1, <1>5 DEF InFlight
    <3>2. CASE w # v
      <4>1. visits'[w] = visits[w] /\ InFlight(w)
        BY <3>2, <1>4 DEF SessionInv
      <4>2. visits[w] \in [pc : {"idle", "resolve", "touch"}, at : Nat, seen : Nat]
        BY DEF SessionInv, SessionTypeOK
      <4>3. visits[w].pc # "idle" => visits[w].at <= visit.at + Stall
        BY <1>1, <1>2, <4>1, <4>2, SessionAssumption DEF InFlight
      <4> QED  BY <1>1, <2>1, <4>1, <4>2, <4>3 DEF InFlight
    <3> QED  BY <3>1, <3>2
  <2> QED  BY <1>1, <1>3, <2>1, <2>2, <2>3, SessionAssumption DEF SessionInv, SessionTypeOK
<1> QED  BY <1>6, <1>7

LEMMA SessionInvariant == SessionSpec => []SessionInv
<1>1. SessionInit => SessionInv
  BY SessionAssumption DEF SessionInit, SessionInv, SessionTypeOK, Row, InFlight, Waiting
<1>2. SessionInv /\ [SessionNext]_sessionVars => SessionInv'
  <2> SUFFICES ASSUME SessionInv, [SessionNext]_sessionVars PROVE SessionInv'
    OBVIOUS
  <2>1. CASE SessionTick
    <3>1. clock' = clock + 1 /\ UNCHANGED <<seen, idle, visits, used>>
      BY <2>1 DEF SessionTick
    <3>2. \A v \in Visit : InFlight(v)'
      BY <2>1, <3>1, SessionAssumption DEF SessionTick, SessionInv, SessionTypeOK, InFlight
    <3> QED  BY <3>1, <3>2, SessionAssumption DEF SessionInv, SessionTypeOK, Row
  <2>2. ASSUME NEW v \in Visit, Arrive(v) PROVE SessionInv'
    BY <2>2, SessionAssumption DEF Arrive, SessionInv, SessionTypeOK, Row, InFlight
  <2>3. ASSUME NEW v \in Visit, Resolve(v) PROVE SessionInv'
    <3>1. /\ UNCHANGED <<clock, seen, idle, used>>
          /\ visits[v].pc = "resolve"
          /\ visits' = [visits EXCEPT ![v] =
                IF Resolves(@.at) THEN [@ EXCEPT !.pc = "touch", !.seen = seen] ELSE Waiting]
      BY <2>3 DEF Resolve
    <3>2. visits[v] \in [pc : {"idle", "resolve", "touch"}, at : Nat, seen : Nat] /\ seen \in Nat
      BY DEF SessionInv, SessionTypeOK
    <3>3. \/ visits'[v] = [pc |-> "touch", at |-> visits[v].at, seen |-> seen]
          \/ visits'[v] = Waiting
      BY <3>1, <3>2 DEF SessionInv, SessionTypeOK
    <3>4. visits' \in [Visit -> [pc : {"idle", "resolve", "touch"}, at : Nat, seen : Nat]]
      BY <3>1, <3>2 DEF SessionInv, SessionTypeOK, Waiting
    <3>5. InFlight(v)'
      BY <3>1, <3>2, <3>3 DEF SessionInv, InFlight, Waiting
    <3>6. \A w \in Visit : w # v => visits'[w] = visits[w]
      BY <3>1 DEF SessionInv, SessionTypeOK
    <3>7. \A w \in Visit : InFlight(w)'
      BY <3>1, <3>5, <3>6 DEF SessionInv, InFlight
    <3> QED  BY <3>1, <3>4, <3>7 DEF SessionInv, SessionTypeOK, Row
  <2>4. ASSUME NEW v \in Visit, Touch(v) PROVE SessionInv'
    BY <2>4, TouchKeeps
  <2>5. CASE UNCHANGED sessionVars
    BY <2>5 DEF sessionVars, SessionInv, SessionTypeOK, Row, InFlight
  <2> QED  BY <2>1, <2>2, <2>3, <2>4, <2>5 DEF SessionNext
<1> QED  BY <1>1, <1>2, PTL DEF SessionSpec

(* A session used at an instant still answers for IDLE_WINDOW less the      *)
(* refresh interval or what an overlapping request takes back              *)
(* (accounts.py, touch_session).                                           *)
THEOREM SessionKeptWhileUsed == SessionSpec => []KeptWhileUsed
<1>1. SessionInv => KeptWhileUsed
  BY SessionAssumption DEF SessionInv, SessionTypeOK, Row, KeptWhileUsed
<1> QED  BY <1>1, SessionInvariant, PTL

(* A session nobody used for IDLE_WINDOW answers no more (accounts.py,      *)
(* touch_session).                                                         *)
THEOREM SessionSilenceEnds == SessionSpec => []SilenceEnds
<1>1. SessionInv => SilenceEnds
  BY SessionAssumption DEF SessionInv, SessionTypeOK, Row, SilenceEnds
<1> QED  BY <1>1, SessionInvariant, PTL

-----------------------------------------------------------------------------
(* The login limiter *)

AttemptRow == [at : Nat, name : Name, ip : Ip, outcome : {"success", "failed", "refused"}]

LimiterTypes ==
    /\ now \in Nat
    /\ IsFiniteSet(DOMAIN attempts)
    /\ \A a \in DOMAIN attempts : /\ a \in AttemptRow /\ a.at <= now
                                  /\ attempts[a] \in Nat \ {0}
    /\ DOMAIN calls = LoginCall
    /\ \A c \in LoginCall :
          /\ \/ calls[c] = [pc |-> "idle"]
             \/ calls[c] \in [pc : {"ip", "account"}, at : Nat, name : Name, ip : Ip]
             \/ calls[c] \in [pc : {"record"}, at : Nat, name : Name, ip : Ip,
                              outcome : {"success", "failed", "refused"}]
          /\ calls[c].pc # "idle" => calls[c].at <= now

(* The wrong passwords of an address in one window, *)
Wrong(ip, start) ==
    {a \in Attempts : /\ a.ip = ip /\ a.outcome = "failed"
                     /\ a.at \in start..(start + IpWindow - 1)}

(* those the check of an address reads at an instant, *)
FailuresBy(ip, at) == {a \in Failures({a \in Attempts : a.ip = ip}) : a.at <= at}

(* the instants at which these lock it, and                                *)
Barred(ip) == {at \in Nat : Locks(FailuresBy(ip, at), IpWindow, IpLock, at)}

(* the calls that may add one: those past the check, and those before   *)
(* it that began too early to be locked by what is recorded.               *)
May(ip, start) ==
    {c \in LoginCall :
        /\ calls[c].pc # "idle" /\ calls[c].ip = ip
        /\ calls[c].at \in start..(start + IpWindow - 1)
        /\ \/ calls[c].pc = "ip" /\ calls[c].at \notin Barred(ip)
           \/ calls[c].pc = "account"
           \/ calls[c].pc = "record" /\ calls[c].outcome = "failed"}

(* Once the limit is reached, every further failure takes a call with it. *)
Closing(ip, start) ==
    \/ CountOf(Wrong(ip, start)) < IpLock
    \/ CountOf(Wrong(ip, start)) + Cardinality(May(ip, start)) <= IpLock + Cardinality(LoginCall) - 1

(* One more copy in a bag *)
LEMMA BagGrows ==
    ASSUME NEW B, IsFiniteSet(DOMAIN B), \A x \in DOMAIN B : B[x] \in Nat \ {0}, NEW r
    PROVE  LET G == (B (+) SetToBag({r})) IN
           /\ DOMAIN G = DOMAIN B \cup {r} /\ IsFiniteSet(DOMAIN G)
           /\ \A x \in DOMAIN G : G[x] \in Nat \ {0}
           /\ \A x \in DOMAIN B : x # r => G[x] = B[x]
           /\ G[r] = IF r \in DOMAIN B THEN B[r] + 1 ELSE 1
<1>1. IsFiniteSet(DOMAIN B \cup {r})
  BY FS_AddElement
<1> QED BY <1>1 DEF (+), SetToBag

(* is one more in the count of every set it belongs to. *)
LEMMA BagCounts ==
    ASSUME NEW B, IsFiniteSet(DOMAIN B), \A x \in DOMAIN B : B[x] \in Nat \ {0}, NEW r,
           NEW T \in SUBSET (DOMAIN B \cup {r})
    PROVE  /\ SumOver(B, T \cap DOMAIN B) \in Nat
           /\ SumOver((B (+) SetToBag({r})), T)
                 = SumOver(B, T \cap DOMAIN B) + (IF r \in T THEN 1 ELSE 0)
<1> DEFINE G == (B (+) SetToBag({r}))
           rest == T \ {r}
           old == T \cap DOMAIN B
<1>1. /\ DOMAIN G = DOMAIN B \cup {r} /\ IsFiniteSet(DOMAIN G)
      /\ \A x \in DOMAIN G : G[x] \in Nat \ {0}
      /\ \A x \in DOMAIN B : x # r => G[x] = B[x]
      /\ G[r] = IF r \in DOMAIN B THEN B[r] + 1 ELSE 1
  BY BagGrows
<1> HIDE DEF G
<1>2. /\ IsFiniteSet(T) /\ IsFiniteSet(rest) /\ IsFiniteSet(old)
      /\ old \subseteq DOMAIN B /\ rest \subseteq DOMAIN B
  BY <1>1, FS_Subset
<1>3. (\A x \in old : B[x] \in Nat) /\ (\A x \in rest : B[x] \in Int /\ G[x] = B[x])
      /\ (\A x \in T : G[x] \in Int)
  BY <1>1, <1>2
<1> HIDE DEF old
<1>4. SumOver(B, old) \in Nat
  BY <1>2, <1>3, SumOfNaturals
<1>5. SumOver(G, rest) = SumOver(B, rest) /\ SumOver(B, rest) \in Int
  <2> HIDE DEF rest
  <2> QED BY <1>2, <1>3, SumSame, SumType
<1>6. SumOver(G, T) = SumOver(B, old) + (IF r \in T THEN 1 ELSE 0)
  <2>1. CASE r \notin T
    <3>1. rest = T /\ old = T
      BY <2>1 DEF old
    <3> HIDE DEF rest
    <3> QED BY <1>4, <1>5, <2>1, <3>1
  <2>2. ASSUME r \in T PROVE SumOver(G, T) = G[r] + SumOver(G, rest)
    BY <1>2, <1>3, <2>2, SumRemove
  <2>3. CASE r \in T /\ r \in DOMAIN B
    <3>1. r \in old /\ old \ {r} = rest
      BY <1>2, <2>3 DEF old
    <3>2. SumOver(B, old) = B[r] + SumOver(B, old \ {r})
      <4>1. \A x \in old : B[x] \in Int
        BY <1>3
      <4> QED BY <1>2, <3>1, <4>1, SumRemove
    <3>3. B[r] \in Int
      BY <1>3, <3>1
    <3> HIDE DEF rest
    <3> QED BY <1>1, <1>4, <1>5, <2>2, <2>3, <3>1, <3>2, <3>3
  <2>4. CASE r \in T /\ r \notin DOMAIN B
    <3>1. old = rest
      BY <1>2, <2>4 DEF old
    <3> HIDE DEF rest
    <3> QED BY <1>1, <1>4, <1>5, <2>2, <2>4, <3>1
  <2> QED BY <2>1, <2>3, <2>4
<1> QED BY <1>4, <1>6 DEF old, G

(* A delay never exceeds MAX_BACKOFF (accounts.py, backoff_for). *)
LEMMA BackoffCapped ==
    ASSUME NEW n \in Nat, NEW after \in Nat
    PROVE  BackoffFor(n, after) \in Nat /\ BackoffFor(n, after) <= MaxBackoff
<1>1. MaxBackoff \in Nat
  BY LimiterAssumption
<1>2. CASE n < after
  BY <1>1, <1>2 DEF BackoffFor
<1>3. CASE ~(n < after)
  <2> DEFINE k == n - after
             delay == 2 ^ k
  <2>1. k \in Nat
    BY <1>3
  <2>2. delay \in Nat
    <3> HIDE DEF k
    <3>1. IsFiniteSet(1..k) /\ Cardinality(1..k) = k
      BY <2>1, FS_Interval
    <3>2. IsFiniteSet(SUBSET (1..k)) /\ Cardinality(SUBSET (1..k)) = 2 ^ k
      BY <3>1, FS_SUBSET
    <3> QED BY <3>2, FS_CardinalityType
  <2>3. BackoffFor(n, after) = Min({delay, MaxBackoff})
    BY <1>3 DEF BackoffFor
  <2> HIDE DEF delay
  <2>4. Min({delay, MaxBackoff}) \in {delay, MaxBackoff}
        /\ (\A y \in {delay, MaxBackoff} : Min({delay, MaxBackoff}) <= y)
    BY <1>1, <2>2, LeastNatural DEF Min
  <2> QED BY <1>1, <2>2, <2>3, <2>4
<1> QED BY <1>2, <1>3

(* What a recorded attempt does to the attempts *)
LEMMA AttemptRecorded ==
    ASSUME LimiterTypes, NEW c \in LoginCall, RecordAttempt(c)
    PROVE  \E r \in AttemptRow :
              /\ r.at = calls[c].at /\ r.ip = calls[c].ip /\ r.outcome = calls[c].outcome
              /\ r.at <= now
              /\ attempts' = attempts (+) SetToBag({r})
              /\ Attempts' = Attempts \cup {r} /\ IsFiniteSet(Attempts')
              /\ \A a \in Attempts' : attempts'[a] \in Nat \ {0}
              /\ \A a \in Attempts : attempts'[a] >= attempts[a]
<1> DEFINE r == [at |-> calls[c].at, name |-> calls[c].name, ip |-> calls[c].ip,
                 outcome |-> calls[c].outcome]
<1>1. calls[c].pc = "record"
  BY DEF RecordAttempt
<1>2. /\ calls[c] \in [pc : {"record"}, at : Nat, name : Name, ip : Ip,
                       outcome : {"success", "failed", "refused"}]
      /\ calls[c].at <= now
  BY <1>1 DEF LimiterTypes
<1>3. r \in AttemptRow
  BY <1>2 DEF AttemptRow
<1>4. attempts' = attempts (+) SetToBag({r})
  BY DEF RecordAttempt
<1>5. r.at = calls[c].at /\ r.ip = calls[c].ip /\ r.outcome = calls[c].outcome
  OBVIOUS
<1> HIDE DEF r
<1> DEFINE G == attempts (+) SetToBag({r})
<1>6. /\ DOMAIN G = DOMAIN attempts \cup {r} /\ IsFiniteSet(DOMAIN G)
      /\ \A x \in DOMAIN G : G[x] \in Nat \ {0}
      /\ \A x \in DOMAIN attempts : x # r => G[x] = attempts[x]
      /\ G[r] = IF r \in DOMAIN attempts THEN attempts[r] + 1 ELSE 1
  <2>1. IsFiniteSet(DOMAIN attempts) /\ \A x \in DOMAIN attempts : attempts[x] \in Nat \ {0}
    BY DEF LimiterTypes
  <2> QED BY <2>1, BagGrows
<1> HIDE DEF G
<1>7. \A a \in DOMAIN attempts : attempts[a] \in Nat /\ G[a] >= attempts[a]
  BY <1>6 DEF LimiterTypes
<1>8. attempts' = G
  BY <1>4 DEF G
<1> QED BY <1>2, <1>3, <1>4, <1>5, <1>6, <1>7, <1>8 DEF Attempts, BagToSet

LEMMA LimiterTyped == LimiterSpec => []LimiterTypes
<1>1. LimiterInit => LimiterTypes
  BY FS_EmptySet DEF LimiterInit, LimiterTypes, EmptyBag, SetToBag
<1>2. LimiterTypes /\ [LimiterNext]_limiterVars => LimiterTypes'
  <2> SUFFICES ASSUME LimiterTypes, [LimiterNext]_limiterVars PROVE LimiterTypes'
    OBVIOUS
  <2>1. CASE UNCHANGED limiterVars
    BY <2>1 DEF limiterVars, LimiterTypes
  <2>2. CASE LimiterTick
    BY <2>2 DEF LimiterTick, LimiterTypes, AttemptRow
  <2>3. ASSUME NEW c \in LoginCall, NEW v, Turned(c, v),
               \/ v = [pc |-> "idle"]
               \/ v \in [pc : {"ip", "account"}, at : Nat, name : Name, ip : Ip]
               \/ v \in [pc : {"record"}, at : Nat, name : Name, ip : Ip,
                         outcome : {"success", "failed", "refused"}],
               v.pc # "idle" => v.at <= now
        PROVE  LimiterTypes'
    <3>1. calls' = [calls EXCEPT ![c] = v] /\ UNCHANGED <<now, attempts>>
      BY <2>3 DEF Turned
    <3>2. calls'[c] = v /\ DOMAIN calls' = LoginCall
          /\ \A d \in LoginCall \ {c} : calls'[d] = calls[d]
      BY <3>1 DEF LimiterTypes
    <3> QED BY <2>3, <3>1, <3>2 DEF LimiterTypes
  <2>4. ASSUME NEW c \in LoginCall, Begin(c) PROVE LimiterTypes'
    <3>1. PICK name \in Name, ip \in Ip :
             calls' = [calls EXCEPT ![c] = [pc |-> "ip", at |-> now, name |-> name, ip |-> ip]]
      BY <2>4 DEF Begin
    <3> DEFINE v == [pc |-> "ip", at |-> now, name |-> name, ip |-> ip]
    <3>2. v \in [pc : {"ip", "account"}, at : Nat, name : Name, ip : Ip] /\ v.at <= now
      BY DEF LimiterTypes
    <3>3. Turned(c, v)
      BY <2>4, <3>1 DEF Begin, Turned
    <3> HIDE DEF v
    <3> QED BY <2>3, <3>2, <3>3
  <2>5. ASSUME NEW c \in LoginCall, calls[c].pc \in {"ip", "account"},
               NEW outcome \in {"success", "failed", "refused"}
        PROVE  /\ Verdict(calls[c], outcome) \in [pc : {"record"}, at : Nat, name : Name, ip : Ip,
                                                  outcome : {"success", "failed", "refused"}]
               /\ Verdict(calls[c], outcome).at <= now
    BY <2>5 DEF LimiterTypes, Verdict
  <2>6. ASSUME NEW c \in LoginCall, CheckIp(c) PROVE LimiterTypes'
    <3> DEFINE v == IF IpState(calls[c].ip, calls[c].at) = "open" THEN [calls[c] EXCEPT !.pc = "account"]
                    ELSE Verdict(calls[c], "refused")
    <3>1. calls[c].pc = "ip" /\ Turned(c, v)
      BY <2>6 DEF CheckIp
    <3>2. [calls[c] EXCEPT !.pc = "account"] \in [pc : {"ip", "account"}, at : Nat, name : Name, ip : Ip]
          /\ [calls[c] EXCEPT !.pc = "account"].at <= now
      BY <3>1 DEF LimiterTypes
    <3>3. Verdict(calls[c], "refused") \in [pc : {"record"}, at : Nat, name : Name, ip : Ip,
                                           outcome : {"success", "failed", "refused"}]
          /\ Verdict(calls[c], "refused").at <= now
      BY <2>5, <3>1
    <3>4. v \in {[calls[c] EXCEPT !.pc = "account"], Verdict(calls[c], "refused")}
      OBVIOUS
    <3> HIDE DEF v
    <3> QED BY <2>3, <3>1, <3>2, <3>3, <3>4
  <2>7. ASSUME NEW c \in LoginCall, CheckAccount(c) PROVE LimiterTypes'
    <3>1. calls[c].pc = "account"
          /\ \E outcome \in {"success", "failed", "refused"} : Turned(c, Verdict(calls[c], outcome))
      BY <2>7 DEF CheckAccount
    <3>2. PICK outcome \in {"success", "failed", "refused"} : Turned(c, Verdict(calls[c], outcome))
      BY <3>1
    <3> QED BY <2>3, <2>5, <3>1, <3>2
  <2>8. ASSUME NEW c \in LoginCall, Drop(c) PROVE LimiterTypes'
    BY <2>3, <2>8 DEF Drop
  <2>9. ASSUME NEW c \in LoginCall, RecordAttempt(c) PROVE LimiterTypes'
    <3>1. PICK r \in AttemptRow :
             /\ r.at <= now
             /\ Attempts' = Attempts \cup {r} /\ IsFiniteSet(Attempts')
             /\ \A a \in Attempts' : attempts'[a] \in Nat \ {0}
      BY <2>9, AttemptRecorded
    <3>2. now' = now /\ calls' = [calls EXCEPT ![c] = [pc |-> "idle"]]
      BY <2>9 DEF RecordAttempt
    <3>3. DOMAIN attempts' = DOMAIN attempts \cup {r}
      BY <3>1 DEF Attempts, BagToSet
    <3>4. \A a \in DOMAIN attempts' : a \in AttemptRow /\ a.at <= now
      BY <3>1, <3>3 DEF LimiterTypes
    <3>5. calls'[c] = [pc |-> "idle"] /\ DOMAIN calls' = LoginCall
          /\ \A d \in LoginCall \ {c} : calls'[d] = calls[d]
      BY <3>2 DEF LimiterTypes
    <3>6. IsFiniteSet(DOMAIN attempts') /\ \A a \in DOMAIN attempts' : attempts'[a] \in Nat \ {0}
      BY <3>1 DEF Attempts, BagToSet
    <3>7. \A d \in LoginCall :
             /\ \/ calls'[d] = [pc |-> "idle"]
                \/ calls'[d] \in [pc : {"ip", "account"}, at : Nat, name : Name, ip : Ip]
                \/ calls'[d] \in [pc : {"record"}, at : Nat, name : Name, ip : Ip,
                                  outcome : {"success", "failed", "refused"}]
             /\ calls'[d].pc # "idle" => calls'[d].at <= now
      BY <3>5 DEF LimiterTypes
    <3>8. AttemptRow' = AttemptRow /\ now \in Nat
      BY DEF AttemptRow, LimiterTypes
    <3> QED BY <3>2, <3>4, <3>5, <3>6, <3>7, <3>8 DEF LimiterTypes
  <2> QED BY <2>1, <2>2, <2>4, <2>6, <2>7, <2>8, <2>9 DEF LimiterNext
<1> QED BY <1>1, <1>2, PTL DEF LimiterSpec

(* What a check reads are recorded failures, in finite number. *)
LEMMA CountsNatural ==
    ASSUME LimiterTypes, NEW S \in SUBSET Attempts
    PROVE  CountOf(S) \in Nat /\ \A T \in SUBSET S : CountOf(T) <= CountOf(S)
<1>1. IsFiniteSet(S) /\ \A a \in S : attempts[a] \in Nat
  BY FS_Subset DEF LimiterTypes, Attempts, BagToSet
<1>2. \A T : CountOf(T) = SumOver(attempts, T)
  BY DEF CountOf, SumOver
<1> QED BY <1>1, <1>2, SumOfNaturals

(* A refusal needs a failure younger than LOCK_DURATION. *)
LEMMA RefusedForAFailure ==
    ASSUME LimiterTypes, NEW some \in SUBSET Attempts, NEW window, NEW lockAfter,
           NEW backoffAfter \in Nat, StateFrom(some, window, lockAfter, backoffAfter, now) # "open"
    PROVE  \E a \in some : a.outcome = "failed" /\ now < a.at + LockDuration
<1> DEFINE failures == {a \in Failures(some) : a.at <= now}
           consecutive == {a \in failures : \A s \in some : s.outcome = "success" => s.at < a.at}
           delay == BackoffFor(CountOf(consecutive), backoffAfter)
<1>1. \/ Locks(failures, window, lockAfter, now)
      \/ \E a \in failures : now < a.at + delay
  BY DEF StateFrom
<1>2. failures \subseteq some /\ (\A a \in failures : a.outcome = "failed")
      /\ consecutive \in SUBSET Attempts
  BY DEF Failures
<1>3. delay \in Nat /\ delay <= LockDuration /\ LockDuration \in Nat
  <2>1. CountOf(consecutive) \in Nat
    <3> HIDE DEF consecutive
    <3> QED BY <1>2, CountsNatural
  <2>2. delay \in Nat /\ delay <= MaxBackoff
    <3> HIDE DEF consecutive
    <3> QED BY <2>1, BackoffCapped
  <2> HIDE DEF delay
  <2> QED BY <2>2, LimiterAssumption, WindowsAssumption
<1>4. now \in Nat /\ \A a \in some : a.at \in Nat
  BY DEF LimiterTypes, Attempts, BagToSet, AttemptRow
<1> HIDE DEF delay, failures
<1> QED BY <1>1, <1>2, <1>3, <1>4 DEF Locks

(* Whoever the limiter refuses tried a wrong password less than             *)
(* LOCK_DURATION ago: its own refusals do not prolong its locks            *)
(* (accounts.py, _CREDENTIAL_FAILURES).                                    *)
THEOREM LocksAreTimeBoxed == LimiterSpec => []TimeBoxed
<1>1. LimiterTypes => TimeBoxed
  <2> SUFFICES ASSUME LimiterTypes, NEW name \in Name, NEW ip \in Ip
               PROVE  /\ IpState(ip, now) # "open" =>
                            \E a \in {a \in Attempts : a.ip = ip} :
                               a.outcome = "failed" /\ now < a.at + LockDuration
                      /\ AccountState(name, ip, now) # "open" =>
                            \E a \in {a \in Attempts : a.name = name} :
                               a.outcome = "failed" /\ now < a.at + LockDuration
    BY DEF TimeBoxed
  <2>1. IpBackoff \in Nat /\ AccountBackoff \in Nat
    BY LimiterAssumption
  <2> DEFINE ofIp == {a \in Attempts : a.ip = ip}
             ofName == {a \in Attempts : a.name = name}
  <2>2. ofIp \in SUBSET Attempts /\ ofName \in SUBSET Attempts
    OBVIOUS
  <2>3. IpState(ip, now) = StateFrom(ofIp, IpWindow, IpLock, IpBackoff, now)
    BY DEF IpState
  <2>4. AccountState(name, ip, now) # "open"
          => StateFrom(ofName, AccountWindow, AccountLock, AccountBackoff, now) # "open"
    BY DEF AccountState
  <2> HIDE DEF ofIp, ofName
  <2>5. IpState(ip, now) # "open" => \E a \in ofIp : a.outcome = "failed" /\ now < a.at + LockDuration
    BY <2>1, <2>2, <2>3, RefusedForAFailure
  <2>6. AccountState(name, ip, now) # "open" =>
           \E a \in ofName : a.outcome = "failed" /\ now < a.at + LockDuration
    BY <2>1, <2>2, <2>4, RefusedForAFailure
  <2> QED BY <2>5, <2>6 DEF ofIp, ofName
<1> QED BY <1>1, LimiterTyped, PTL

(* An open check met no lock. *)
LEMMA OpenIsNotBarred ==
    ASSUME NEW ip, NEW at, IpState(ip, at) = "open"
    PROVE  at \notin Barred(ip)
<1> DEFINE failures == FailuresBy(ip, at)
<1>1. failures = {a \in Failures({a \in Attempts : a.ip = ip}) : a.at <= at}
  BY DEF FailuresBy
<1>2. failures = {} \/ ~Locks(failures, IpWindow, IpLock, at)
  BY <1>1 DEF IpState, StateFrom
<1> HIDE DEF failures
<1>3. failures = {} => ~Locks(failures, IpWindow, IpLock, at)
  BY DEF Locks
<1> QED BY <1>2, <1>3 DEF Barred, failures

(* A full window locks its address against every call that begins in it. *)
LEMMA FullBars ==
    ASSUME LimiterTypes, NEW ip \in Ip, NEW start \in Nat,
           now \in start..(start + IpWindow - 1), CountOf(Wrong(ip, start)) >= IpLock
    PROVE  now \in Barred(ip)
<1>1. /\ now \in Nat /\ IpWindow \in Nat \ {0} /\ IpLock \in Nat \ {0} /\ LockDuration \in Nat
      /\ IpWindow <= LockDuration
  BY LimiterAssumption, WindowsAssumption DEF LimiterTypes
<1>2. \A a \in Attempts : a.at \in Nat /\ a.at <= now
  BY DEF LimiterTypes, Attempts, BagToSet, AttemptRow
<1> DEFINE recent == {a \in FailuresBy(ip, now) : a.at > now - IpWindow}
<1>3. Wrong(ip, start) \subseteq recent /\ recent \in SUBSET Attempts
  BY <1>1, <1>2 DEF Wrong, FailuresBy, Failures
<1>4. CountOf(recent) \in Nat /\ CountOf(Wrong(ip, start)) \in Nat
      /\ CountOf(Wrong(ip, start)) <= CountOf(recent)
  <2> HIDE DEF recent
  <2> QED BY <1>3, CountsNatural
<1>5. CountOf(recent) >= IpLock
  <2> HIDE DEF recent
  <2> QED BY <1>1, <1>4
<1>6. Wrong(ip, start) # {}
  <2>1. CountOf({}) = 0
    BY SumOfNone DEF CountOf, SumOver
  <2> QED BY <1>1, <2>1
<1>7. PICK a \in Wrong(ip, start) : TRUE
  BY <1>6
<1>8. a \in FailuresBy(ip, now) /\ now < a.at + LockDuration
  BY <1>1, <1>2, <1>7 DEF Wrong, FailuresBy, Failures
<1> QED BY <1>1, <1>5, <1>8 DEF Barred, Locks

(* A recorded attempt counts in the sets it belongs to. *)
LEMMA CountRecorded ==
    ASSUME LimiterTypes, NEW r, attempts' = attempts (+) SetToBag({r}), NEW T,
           T \subseteq Attempts \cup {r}
    PROVE  /\ CountOf(T \cap Attempts) \in Nat
           /\ SumOver(attempts', T) = CountOf(T \cap Attempts) + (IF r \in T THEN 1 ELSE 0)
<1>1. IsFiniteSet(DOMAIN attempts) /\ \A x \in DOMAIN attempts : attempts[x] \in Nat \ {0}
  BY DEF LimiterTypes
<1>2. CountOf(T \cap Attempts) = SumOver(attempts, T \cap DOMAIN attempts)
  BY DEF CountOf, SumOver, Attempts, BagToSet
<1>3. T \in SUBSET (DOMAIN attempts \cup {r})
  BY DEF Attempts, BagToSet
<1>4. /\ SumOver(attempts, T \cap DOMAIN attempts) \in Nat
      /\ SumOver(attempts (+) SetToBag({r}), T)
            = SumOver(attempts, T \cap DOMAIN attempts) + (IF r \in T THEN 1 ELSE 0)
  BY <1>1, <1>3, BagCounts
<1> QED BY <1>2, <1>4

(* What locked a call out locks it out for good. *)
LEMMA BarredStays ==
    ASSUME LimiterTypes, NEW c \in LoginCall, RecordAttempt(c), NEW ip
    PROVE  Barred(ip) \subseteq Barred(ip)'
<1> SUFFICES ASSUME NEW at \in Nat, Locks(FailuresBy(ip, at), IpWindow, IpLock, at)
             PROVE  Locks(FailuresBy(ip, at), IpWindow, IpLock, at)'
  BY DEF Barred
<1>1. PICK r \in AttemptRow :
         attempts' = attempts (+) SetToBag({r}) /\ Attempts' = Attempts \cup {r}
  BY AttemptRecorded
<1> DEFINE S == {a \in FailuresBy(ip, at) : a.at > at - IpWindow}
           T == {a \in Attempts' : /\ a.ip = ip /\ a.outcome = "failed" /\ a.at <= at
                                  /\ a.at > at - IpWindow}
<1>2. CountOf(S) >= IpLock /\ \E a \in FailuresBy(ip, at) : at < a.at + LockDuration
  BY DEF Locks
<1>3. S = T \cap Attempts /\ T \subseteq Attempts \cup {r}
  BY <1>1 DEF FailuresBy, Failures
<1>4. {a \in FailuresBy(ip, at) : a.at > at - IpWindow}' = T
  BY DEF FailuresBy, Failures
<1>5. FailuresBy(ip, at) \subseteq FailuresBy(ip, at)'
  BY <1>1 DEF FailuresBy, Failures
<1> HIDE DEF S, T
<1>6. SumOver(attempts', T) >= IpLock
  <2>1. CountOf(S) \in Nat /\ SumOver(attempts', T) = CountOf(S) + (IF r \in T THEN 1 ELSE 0)
    BY <1>1, <1>3, CountRecorded
  <2> QED BY <1>2, <2>1, LimiterAssumption
<1>7. CountOf({a \in FailuresBy(ip, at) : a.at > at - IpWindow})' = SumOver(attempts', T)
  BY <1>4 DEF CountOf, SumOver, FoldFunctionOnSet, MapThenFoldSet
<1> QED BY <1>2, <1>5, <1>6, <1>7 DEF Locks

(* The calls that may add a failure, when one call moves *)
LEMMA MayFew ==
    ASSUME NEW c \in LoginCall, NEW ip \in Ip, NEW start \in Nat,
           \A d \in LoginCall \ {c} : calls'[d] = calls[d],
           Barred(ip) \subseteq Barred(ip)',
           c \in May(ip, start)' => c \in May(ip, start)
    PROVE  May(ip, start)' \subseteq May(ip, start)
<1> SUFFICES ASSUME NEW d \in May(ip, start)', d # c PROVE d \in May(ip, start)
  OBVIOUS
<1>1. d \in LoginCall /\ calls'[d] = calls[d]
  BY DEF May
<1>2. /\ calls'[d].pc # "idle" /\ calls'[d].ip = ip
      /\ calls'[d].at \in start..(start + IpWindow - 1)
      /\ \/ calls'[d].pc = "ip" /\ calls'[d].at \notin Barred(ip)'
         \/ calls'[d].pc = "account"
         \/ calls'[d].pc = "record" /\ calls'[d].outcome = "failed"
  BY DEF May
<1> QED BY <1>1, <1>2 DEF May

(* Nothing recorded, nothing counted or locked anew *)
LEMMA NothingRecorded ==
    ASSUME attempts' = attempts, NEW ip, NEW start
    PROVE  /\ CountOf(Wrong(ip, start))' = CountOf(Wrong(ip, start))
           /\ Barred(ip) \subseteq Barred(ip)'
<1>1. CountOf(Wrong(ip, start))' = CountOf(Wrong(ip, start))
  <2>1. CountOf(Wrong(ip, start))' = SumOver(attempts', Wrong(ip, start)')
    BY DEF CountOf, SumOver, FoldFunctionOnSet, MapThenFoldSet
  <2>2. Wrong(ip, start)' = Wrong(ip, start)
    BY DEF Wrong, Attempts, BagToSet
  <2> QED BY <2>1, <2>2 DEF CountOf, SumOver
<1>2. ASSUME NEW at \in Nat, Locks(FailuresBy(ip, at), IpWindow, IpLock, at)
      PROVE  Locks(FailuresBy(ip, at), IpWindow, IpLock, at)'
  <2> DEFINE S == {a \in FailuresBy(ip, at) : a.at > at - IpWindow}
  <2>1. FailuresBy(ip, at)' = FailuresBy(ip, at)
    BY DEF FailuresBy, Failures, Attempts, BagToSet
  <2>2. {a \in FailuresBy(ip, at) : a.at > at - IpWindow}' = S
    BY <2>1
  <2>3. CountOf(S) = SumOver(attempts, S)
    BY DEF CountOf, SumOver
  <2> HIDE DEF S
  <2>4. CountOf({a \in FailuresBy(ip, at) : a.at > at - IpWindow})' = SumOver(attempts', S)
    BY <2>2 DEF CountOf, SumOver, FoldFunctionOnSet, MapThenFoldSet
  <2>5. CountOf(S) >= IpLock /\ \E a \in FailuresBy(ip, at) : at < a.at + LockDuration
    BY <1>2 DEF Locks, S
  <2> QED BY <2>1, <2>3, <2>4, <2>5 DEF Locks
<1> QED BY <1>1, <1>2 DEF Barred

(* As long as no call joins those that may add a failure and none is added, *)
(* the window closes as before.                                            *)
LEMMA ClosingStays ==
    ASSUME NEW ip \in Ip, NEW start \in Nat, Closing(ip, start),
           CountOf(Wrong(ip, start))' = CountOf(Wrong(ip, start)),
           CountOf(Wrong(ip, start)) \in Nat,
           CountOf(Wrong(ip, start)) >= IpLock => May(ip, start)' \subseteq May(ip, start)
    PROVE  Closing(ip, start)'
<1>1. CASE CountOf(Wrong(ip, start)) < IpLock
  BY <1>1 DEF Closing
<1>2. CASE ~(CountOf(Wrong(ip, start)) < IpLock)
  <2>1. May(ip, start)' \subseteq May(ip, start)
    BY <1>2, LimiterAssumption
  <2>2. IsFiniteSet(May(ip, start)) /\ IsFiniteSet(LoginCall)
    BY CallsAssumption, FS_Subset DEF May
  <2>3. /\ Cardinality(May(ip, start)') <= Cardinality(May(ip, start))
        /\ {Cardinality(May(ip, start)'), Cardinality(May(ip, start)), Cardinality(LoginCall)} \subseteq Nat
    BY <2>1, <2>2, FS_Subset, FS_CardinalityType
  <2>4. Cardinality(May(ip, start))' = Cardinality(May(ip, start)')
    BY DEF Cardinality
  <2> QED BY <1>2, <2>3, <2>4, LimiterAssumption DEF Closing
<1> QED BY <1>1, <1>2

(* A failure recorded in the window takes its call out of those that may    *)
(* add one; the one that fills it leaves at most all others.               *)
LEMMA ClosingCounts ==
    ASSUME LimiterTypes, NEW ip \in Ip, NEW start \in Nat, Closing(ip, start),
           NEW c \in LoginCall, RecordAttempt(c)
    PROVE  Closing(ip, start)'
<1>1. PICK r \in AttemptRow :
         /\ r.at = calls[c].at /\ r.ip = calls[c].ip /\ r.outcome = calls[c].outcome
         /\ attempts' = attempts (+) SetToBag({r}) /\ Attempts' = Attempts \cup {r}
  BY AttemptRecorded
<1>2. calls[c].pc = "record" /\ calls' = [calls EXCEPT ![c] = [pc |-> "idle"]]
  BY DEF RecordAttempt
<1>3. calls'[c].pc = "idle" /\ \A d \in LoginCall \ {c} : calls'[d] = calls[d]
  BY <1>2 DEF LimiterTypes
<1>4. c \notin May(ip, start)'
  BY <1>3 DEF May
<1>5. May(ip, start)' \subseteq May(ip, start)
  BY <1>3, <1>4, BarredStays, MayFew
<1> DEFINE T == {a \in Attempts' : /\ a.ip = ip /\ a.outcome = "failed"
                                  /\ a.at \in start..(start + IpWindow - 1)}
           n == CountOf(Wrong(ip, start))
<1>6. Wrong(ip, start) = T \cap Attempts /\ Wrong(ip, start)' = T /\ T \subseteq Attempts \cup {r}
  BY <1>1 DEF Wrong
<1>7. r \in T => c \in May(ip, start)
  BY <1>1, <1>2 DEF May
<1> HIDE DEF T
<1>8. n \in Nat /\ SumOver(attempts', T) = n + (IF r \in T THEN 1 ELSE 0)
  BY <1>1, <1>6, CountRecorded
<1>9. CountOf(Wrong(ip, start))' = SumOver(attempts', T)
  BY <1>6 DEF CountOf, SumOver, FoldFunctionOnSet, MapThenFoldSet
<1>10. CASE r \notin T
  <2>1. CountOf(Wrong(ip, start))' = n
    BY <1>8, <1>9, <1>10
  <2> QED BY <1>5, <1>8, <2>1, ClosingStays
<1>11. CASE r \in T
  <2> DEFINE may == Cardinality(May(ip, start))
             mayNext == Cardinality(May(ip, start)')
             all == Cardinality(LoginCall)
  <2>1. /\ May(ip, start) \subseteq LoginCall
        /\ May(ip, start)' \subseteq May(ip, start) \ {c}
        /\ c \in May(ip, start) /\ c \in LoginCall
    BY <1>4, <1>5, <1>7, <1>11 DEF May
  <2>2. IsFiniteSet(LoginCall) /\ IsFiniteSet(May(ip, start))
    BY <2>1, CallsAssumption, FS_Subset
  <2>3. IsFiniteSet(May(ip, start) \ {c}) /\ Cardinality(May(ip, start) \ {c}) = may - 1
    BY <2>1, <2>2, FS_RemoveElement
  <2>4. may \in Nat /\ all \in Nat /\ mayNext \in Nat /\ may <= all /\ mayNext <= may - 1
    BY <2>1, <2>2, <2>3, FS_Subset, FS_CardinalityType
  <2>5. Cardinality(May(ip, start))' = mayNext
    BY DEF Cardinality
  <2>6. CountOf(Wrong(ip, start))' = n + 1
    BY <1>8, <1>9, <1>11
  <2>7. n < IpLock \/ n + may <= IpLock + all - 1
    BY DEF Closing
  <2>8. n + 1 < IpLock \/ n + 1 + mayNext <= IpLock + all - 1
    <3> HIDE DEF n, may, mayNext, all
    <3> QED BY <1>8, <2>4, <2>7, LimiterAssumption
  <2> QED BY <2>5, <2>6, <2>8 DEF Closing
<1> QED BY <1>10, <1>11

LEMMA ClosingKept ==
    ASSUME LimiterTypes, NEW ip \in Ip, NEW start \in Nat, Closing(ip, start),
           [LimiterNext]_limiterVars
    PROVE  Closing(ip, start)'
<1>1. CountOf(Wrong(ip, start)) \in Nat
  <2>1. Wrong(ip, start) \in SUBSET Attempts
    BY DEF Wrong
  <2> QED BY <2>1, CountsNatural
<1>2. ASSUME NEW c \in LoginCall, attempts' = attempts,
             \A d \in LoginCall \ {c} : calls'[d] = calls[d],
             CountOf(Wrong(ip, start)) >= IpLock /\ c \in May(ip, start)' => c \in May(ip, start)
      PROVE  Closing(ip, start)'
  <2>1. /\ CountOf(Wrong(ip, start))' = CountOf(Wrong(ip, start))
        /\ Barred(ip) \subseteq Barred(ip)'
    BY <1>2, NothingRecorded
  <2>2. CountOf(Wrong(ip, start)) >= IpLock => May(ip, start)' \subseteq May(ip, start)
    BY <1>2, <2>1, MayFew
  <2> QED BY <1>1, <2>1, <2>2, ClosingStays
<1>3. CASE LimiterTick \/ UNCHANGED limiterVars
  <2>1. attempts' = attempts /\ calls' = calls
    BY <1>3 DEF LimiterTick, limiterVars
  <2>2. /\ CountOf(Wrong(ip, start))' = CountOf(Wrong(ip, start))
        /\ Barred(ip) \subseteq Barred(ip)'
    BY <2>1, NothingRecorded
  <2>3. May(ip, start)' \subseteq May(ip, start)
    BY <2>1, <2>2 DEF May
  <2> QED BY <1>1, <2>2, <2>3, ClosingStays
<1>4. ASSUME NEW c \in LoginCall, NEW v, Turned(c, v),
             CountOf(Wrong(ip, start)) >= IpLock /\ c \in May(ip, start)' => c \in May(ip, start)
      PROVE  Closing(ip, start)'
  <2>1. attempts' = attempts /\ \A d \in LoginCall \ {c} : calls'[d] = calls[d]
    BY <1>4 DEF Turned, LimiterTypes
  <2> QED BY <1>2, <1>4, <2>1
<1>5. ASSUME NEW c \in LoginCall, Begin(c) PROVE Closing(ip, start)'
  <2>1. PICK name \in Name, from \in Ip :
           calls' = [calls EXCEPT ![c] = [pc |-> "ip", at |-> now, name |-> name, ip |-> from]]
    BY <1>5 DEF Begin
  <2>2. /\ calls'[c] = [pc |-> "ip", at |-> now, name |-> name, ip |-> from]
        /\ \A d \in LoginCall \ {c} : calls'[d] = calls[d]
    BY <2>1 DEF LimiterTypes
  <2>3. attempts' = attempts
    BY <1>5 DEF Begin
  <2>4. ASSUME CountOf(Wrong(ip, start)) >= IpLock, c \in May(ip, start)' PROVE FALSE
    <3>1. now \in start..(start + IpWindow - 1) /\ now \notin Barred(ip)'
      BY <2>2, <2>4 DEF May
    <3>2. now \in Barred(ip)
      BY <2>4, <3>1, FullBars
    <3> QED BY <2>3, <3>1, <3>2, NothingRecorded
  <2> QED BY <1>2, <2>2, <2>3, <2>4
<1>6. ASSUME NEW c \in LoginCall, CheckIp(c) PROVE Closing(ip, start)'
  <2> DEFINE passed == [calls[c] EXCEPT !.pc = "account"]
             refused == Verdict(calls[c], "refused")
  <2>1. calls[c].pc = "ip"
        /\ Turned(c, IF IpState(calls[c].ip, calls[c].at) = "open" THEN passed ELSE refused)
    BY <1>6 DEF CheckIp
  <2>2. calls[c] \in [pc : {"ip", "account"}, at : Nat, name : Name, ip : Ip]
    BY <2>1 DEF LimiterTypes
  <2>3. CASE IpState(calls[c].ip, calls[c].at) = "open"
    <3>1. Turned(c, passed)
      BY <2>1, <2>3
    <3>2. calls'[c] = passed
      BY <3>1 DEF Turned, LimiterTypes
    <3>3. calls'[c].at = calls[c].at /\ calls'[c].ip = calls[c].ip
      BY <2>2, <3>2
    <3>4. calls[c].at \notin Barred(calls[c].ip)
      BY <2>3, OpenIsNotBarred
    <3>5. c \in May(ip, start)' => c \in May(ip, start)
      BY <2>1, <3>3, <3>4 DEF May
    <3> QED BY <1>4, <3>1, <3>5
  <2>4. CASE IpState(calls[c].ip, calls[c].at) # "open"
    <3>1. Turned(c, refused)
      BY <2>1, <2>4
    <3>2. calls'[c].pc = "record" /\ calls'[c].outcome = "refused"
      BY <3>1 DEF Turned, LimiterTypes, Verdict
    <3>3. c \notin May(ip, start)'
      BY <3>2 DEF May
    <3> QED BY <1>4, <3>1, <3>3
  <2> QED BY <2>3, <2>4
<1>7. ASSUME NEW c \in LoginCall, CheckAccount(c) PROVE Closing(ip, start)'
  <2>1. calls[c].pc = "account"
        /\ \E outcome \in {"success", "failed", "refused"} : Turned(c, Verdict(calls[c], outcome))
    BY <1>7 DEF CheckAccount
  <2>2. PICK outcome \in {"success", "failed", "refused"} : Turned(c, Verdict(calls[c], outcome))
    BY <2>1
  <2>3. calls'[c].at = calls[c].at /\ calls'[c].ip = calls[c].ip
    BY <2>2 DEF Turned, LimiterTypes, Verdict
  <2>4. c \in May(ip, start)' => c \in May(ip, start)
    BY <2>1, <2>3 DEF May
  <2> QED BY <1>4, <2>2, <2>4
<1>8. ASSUME NEW c \in LoginCall, Drop(c) PROVE Closing(ip, start)'
  <2>1. Turned(c, [pc |-> "idle"])
    BY <1>8 DEF Drop
  <2>2. calls'[c].pc = "idle"
    BY <2>1 DEF Turned, LimiterTypes
  <2>3. c \notin May(ip, start)'
    BY <2>2 DEF May
  <2> QED BY <1>4, <2>1, <2>3
<1> QED BY <1>3, <1>5, <1>6, <1>7, <1>8, ClosingCounts DEF LimiterNext

(* However calls overlap, die or read the clock late, an address tries no   *)
(* more wrong passwords in one window than IP_LOCK_AFTER and the calls     *)
(* that had passed the check (accounts.py, ip_state).                      *)
THEOREM TriesAreBounded == LimiterSpec => []TriesBounded
<1> DEFINE AllClosing == \A ip \in Ip, start \in Nat : Closing(ip, start)
<1>1. LimiterInit => AllClosing
  <2> SUFFICES ASSUME LimiterInit, NEW ip \in Ip, NEW start \in Nat PROVE Closing(ip, start)
    OBVIOUS
  <2>1. Wrong(ip, start) = {}
    BY DEF LimiterInit, Wrong, Attempts, BagToSet, EmptyBag, SetToBag
  <2>2. CountOf(Wrong(ip, start)) = 0
    BY <2>1, SumOfNone DEF CountOf, SumOver
  <2> QED BY <2>2, LimiterAssumption DEF Closing
<1>2. LimiterTypes /\ AllClosing /\ [LimiterNext]_limiterVars => AllClosing'
  BY ClosingKept
<1>3. LimiterTypes /\ AllClosing => TriesBounded
  <2> SUFFICES ASSUME LimiterTypes, AllClosing, NEW ip \in Ip, NEW start \in 0..now
               PROVE  CountOf(Wrong(ip, start)) <= IpLock + Cardinality(LoginCall) - 1
    BY DEF TriesBounded, Wrong
  <2>1. start \in Nat /\ Closing(ip, start)
    BY DEF LimiterTypes
  <2>2. CountOf(Wrong(ip, start)) \in Nat
    <3>1. Wrong(ip, start) \in SUBSET Attempts
      BY DEF Wrong
    <3> QED BY <3>1, CountsNatural
  <2>3. Cardinality(LoginCall) \in Nat /\ Cardinality(May(ip, start)) \in Nat
    BY CallsAssumption, FS_Subset, FS_CardinalityType DEF May
  <2> QED BY <2>1, <2>2, <2>3, LimiterAssumption DEF Closing
<1> HIDE DEF AllClosing
<1> QED BY <1>1, <1>2, <1>3, LimiterTyped, PTL DEF LimiterSpec

=============================================================================
