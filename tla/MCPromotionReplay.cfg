SPECIFICATION Spec
CONSTANTS
    Run = {p1}
    jan1 = jan1
    jan2 = jan2
    feb = feb
    january = january
    february = february
    upper = upper
    lower = lower
    Workbook = {jan1, jan2, feb}
    Month = {january, february}
    MonthOf <- MCMonthOf
    Rank <- MCRank
    Filings <- MCFilings
    Pool = {upper, lower}
    MaxDay = 2
    KeyedFrom = 1
    NoPool = NoPool
    Well = Well
INVARIANTS WithheldIsKnown
CHECK_DEADLOCK FALSE
