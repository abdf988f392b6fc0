SPECIFICATION FairSpec
CONSTANTS
    Devices = {d1}
    Collectors <- BothEngines
    Polls = {p1}
    FineLength = 1
    HourLength = 2
    DayLength = 4
    FineKept = 0
    HourKept = 1
    CutAfter = {}
    MaxTime = 4
    MaxBytes <- FewBytes
    MaxRestarts = 1
    MaxFaults = 1
INVARIANTS
    TypeOK
    CountedOnce
    CountedExactly
    TotalsKept
PROPERTIES
    DaysKeepTheirTraffic
    TrafficIsRecorded
CHECK_DEADLOCK FALSE
