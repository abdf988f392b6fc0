CONSTANTS
    d1 = d1
    p1 = p1
    Devices = {d1}
    Polls = {p1}
    Window = 1
    Day = 3
    MaxTime = 5
    MaxBreaks = 1
    Services = {"nginx"}
    Percents = {79, 80, 85, 95}
    Days = {6, 30}
    Unread = Unread
    MaxKills = 1

SPECIFICATION WatchSpec
CHECK_DEADLOCK FALSE

INVARIANTS
    NewsAlternate
    LastSeenIsActivity
    IncidentsAlternate
    IncidentsTold

PROPERTIES
    AbsenceIsReal
    IncidentsConfirmed
