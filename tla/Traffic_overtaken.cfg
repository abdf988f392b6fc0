SPECIFICATION Spec
CONSTANTS
    Devices = {d1}
    Collectors <- BothEngines
    Polls = {p1, p2}
    FineLength = 1
    HourLength = 2
    DayLength = 4
    FineKept = 0
    HourKept = 1
    CutAfter = {}
    MaxTime = 4
    MaxBytes <- FewBytes
    MaxRestarts = 0
    MaxFaults = 0
INVARIANT
    CountedOnce
CHECK_DEADLOCK FALSE
