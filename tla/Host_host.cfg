CONSTANTS
    c1 = c1
    c2 = c2
    d1 = d1
    d2 = d2
    Calls = {c1, c2}
    Domains = {d1, d2}
    Address = Address
    NoName = NoName
    Overlap = FALSE
    MaxFaults = 2
    Releases = {1, 2, 3, 4}
    Installed = 1
    Broken = {2}
    Kept = 2
    InOrder = TRUE
    NoRelease = 0
    MaxWrites = 2
    MaxMishaps = 2

SPECIFICATION HostSpec
CHECK_DEADLOCK FALSE

INVARIANTS
    DomainTogether
    NameIsGivenOnce
    CurrentIsWhole
    ReleaseTogether
    WritesKept

PROPERTIES
    SetupEnds
    ServiceComesBack
