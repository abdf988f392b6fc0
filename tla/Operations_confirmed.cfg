SPECIFICATION Spec
CONSTANTS
    v1 = v1
    v2 = v2
    v3 = v3
    Versions = {v1, v2, v3}
    Shipped = v1
    Unfit = {v3}
    Kept = 2
    Overlap = FALSE
    MaxPreviews = 2
    MaxOperations = 2
    MaxPins = 2
    MaxFaults = 2
    NoVersion = NoVersion
INVARIANTS
    ConfirmedOnce
    LinkIsComplete
    RecordedIsInstalled
PROPERTY
    DecidedOnce
CHECK_DEADLOCK FALSE
