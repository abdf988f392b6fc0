SPECIFICATION Spec
CONSTANTS
    default = default
    rejected = rejected
    crashing = crashing
    Templates = {default}
    Default = default
    Invalid = {}
    Unfit = {}
    Devices = {d1, d2}
    Calls = {c1, c2}
    MaxRevisions = 2
    MaxFaults = 0
    NoDevice = NoDevice
INVARIANT
    DatabaseIsTruth
CHECK_DEADLOCK FALSE
