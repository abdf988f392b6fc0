CONSTANTS
    c1 = c1
    c2 = c2
    d1 = d1
    d2 = d2
    Calls = {c1}
    Domains = {d1}
    Address = Address
    NoName = NoName
    Overlap = FALSE
    MaxFaults = 0
    Releases = {1, 2}
    Installed = 1
    Broken = {2}
    Kept = 3
    InOrder = TRUE
    NoRelease = 0
    MaxWrites = 1
    MaxMishaps = 0

SPECIFICATION HostSpec
CHECK_DEADLOCK FALSE

INVARIANTS
    RollbackRestores
