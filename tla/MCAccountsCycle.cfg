CONSTANTS
    u1 = u1  u2 = u2  u3 = u3  s1 = s1  s2 = s2  r1 = r1  r2 = r2
    User = {u1, u2, u3}
    Session = {}
    Request = {r1, r2}
    NoUser = NoUser  NoSession = NoSession
    Rank <- MCRank
SPECIFICATION Spec
INVARIANT NoOwnerCycle
CHECK_DEADLOCK FALSE
