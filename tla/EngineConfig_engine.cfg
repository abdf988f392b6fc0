SPECIFICATION Spec
CONSTANTS
    default = default
    rejected = rejected
    crashing = crashing
    Templates = {default, crashing, rejected}
    Default = default
    Invalid = {rejected}
    Unfit = {crashing}
    Devices = {d1}
    Calls = {c1, c2}
    MaxRevisions = 2
    MaxFaults = 1
    NoDevice = NoDevice
INVARIANTS
    ActiveIsInstalled
    RefusalRestores
SYMMETRY Alike
CHECK_DEADLOCK FALSE
