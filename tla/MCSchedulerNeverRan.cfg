SPECIFICATION Spec
CONSTANTS
    gis = gis
    wells = wells
    tiles = tiles
    prune = prune
    counts = counts
    header = header
    NoProc = NoProc
    Job <- MCJob
    JobRank <- MCRank
    Registry <- ChangedMartRegistry
    Source <- MCSource
    SourceInterval <- MCSourceInterval
    HourLen = 2
    MonthLen = 2
    Proc = {p1}
    Missing = {}
    Unreachable = {}
    Budget = 3
    HandRun = {}
    Legacy = {}
    Endings <- AllSucceed
    MaxTime = 6
    MaxRuns = 4
    FaultMixes <- Faultless
PROPERTY NeverRanIsTrue
