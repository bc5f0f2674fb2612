SPECIFICATION Spec
CONSTANTS
    gis = gis
    wells = wells
    tiles = tiles
    prune = prune
    counts = counts
    header = header
    NoProc = NoProc
    Job <- MCJob
    JobRank <- MCRank
    Registry <- MixedRegistry
    Source <- MCSource
    SourceInterval <- MCSourceInterval
    HourLen = 2
    MonthLen = 2
    Proc = {p1, p2}
    Missing = {counts}
    Unreachable = {}
    Budget = 3
    HandRun = {wells, prune}
    Legacy = {header}
    Endings <- MayFail
    MaxTime = 3
    MaxRuns = 2
    FaultMixes <- AnyFault
INVARIANTS TypeOK LedgerTruthful ActiveIsOpen
PROPERTIES ClosedRowsStay OneCopy
SYMMETRY ProcSymmetry
