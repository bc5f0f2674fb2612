SPECIFICATION FairSpec
CONSTANTS
    gis = gis
    wells = wells
    tiles = tiles
    prune = prune
    counts = counts
    header = header
    NoProc = NoProc
    Job <- MCJob
    JobRank <- MCRank
    Registry <- PairRegistry
    Source <- MCSource
    SourceInterval <- HourlySource
    HourLen = 2
    MonthLen = 2
    Proc = {p1}
    Missing = {}
    Unreachable = {}
    Budget = 3
    HandRun = {}
    Legacy = {}
    Endings <- AllSucceed
    MaxTime = 6
    MaxRuns = 6
    FaultMixes <- OneDeath
INVARIANT NoFetchMasked
PROPERTIES OpenRowsClose MartsReact
