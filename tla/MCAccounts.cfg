CONSTANTS
    u1 = u1  u2 = u2  u3 = u3  s1 = s1  s2 = s2  r1 = r1  r2 = r2
    User = {u1, u2}
    Session = {s1, s2}
    Request = {r1, r2}
    NoUser = NoUser  NoSession = NoSession
    Rank <- MCRank
SPECIFICATION Spec
SYMMETRY Symmetric
INVARIANT TypeOK
PROPERTIES OwnerRemains ShutOut
CHECK_DEADLOCK FALSE
