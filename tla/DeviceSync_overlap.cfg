SPECIFICATION Spec
CONSTANTS
    d1 = d1
    d2 = d2
    i1 = i1
    i2 = i2
    i3 = i3
    Devices <- TwoDevices
    Invitations <- ThreeLinks
    DeviceOf <- TwoAndOne
    Handlers = {h1, h2}
    MaxJobs = 3
    MaxFaults = 2
    DrainLimit = 1
    NoDevice = NoDevice
    NoInvitation = NoInvitation
INVARIANTS
    OneOpenJob
    ReservationIsBacked
    RunningIsAwaited
    RevokedIsClean
    EnginesAgree
PROPERTY
    AccessSpec
SYMMETRY Alike
CHECK_DEADLOCK FALSE
