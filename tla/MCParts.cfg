SPECIFICATION Spec
CONSTANTS
    a = a
    b = b
    c = c
    d = d
    Job <- MCJob
    JobRank <- MCRank
    Registry <- NoRegistry
    Source <- NoJob
    SourceInterval <- NoRegistry
    HourLen = 1
    MonthLen = 1
    n1 = n1
    i1 = i1
    i2 = i2
    c1 = c1
    c2 = c2
    Name = {n1}
    Ip = {i1, i2}
    UnknownIp = i2
    LoginCall = {c1, c2}
    AccountBackoff = 3
    AccountLock = 2
    AccountWindow = 4
    IpBackoff = 2
    IpLock = 2
    IpWindow = 2
    LockDuration = 2
    MaxBackoff = 2
    KnownGoodWindow = 4
    LimiterSpan = 3
    MaxAttempts = 4
    Visit = {1, 2, 3}
    Idle = 4
    Absolute = 9
    Refresh = 2
    Stall = 1
    SessionSpan = 10
    Request = {1, 2, 3}
    Limit = 2
    LastMinute = 3
    lone = lone
    pair = pair
    Worker = {1, 2, 3}
    Database = {lone, pair}
    DatabaseOf <- MCDatabaseOf
    LastFile = 3
    Creates = {1, 3}
    RaceAttempts = 3
    Filing <- MCFiling
    Month = 2
    NoDate = 9
    Parts = 2
    Population <- MCPopulation
    NoPlace = NoPlace
    NoUnit = "none"
    Radius = 2
    Window = 2
    HalfYear = 2
    Calibration = 1
    Boundary = 3
    MaxMembers = 2
INVARIANTS ParentsFirst CycleFreeRuns TimeBoxed TriesBounded
    KeptWhileUsed SilenceEnds WithinLimit InOrder RaceIsWon
    Conserved ObservedIsWhole CauseTrue PadsAreComponents PadsUnsplit
SYMMETRY PartsSymmetry
CHECK_DEADLOCK FALSE
