SPECIFICATION FairSpec
CONSTANTS
    d1 = d1
    d2 = d2
    i1 = i1
    i2 = i2
    i3 = i3
    Devices <- OneDevice
    Invitations <- TwoLinks
    DeviceOf <- BothForOne
    Handlers = {h1, h2}
    MaxJobs = 3
    MaxFaults = 2
    DrainLimit = 1
    NoDevice = NoDevice
    NoInvitation = NoInvitation
PROPERTIES
    QueuedWorkFinishes
    WaitingPageIsAnswered
CHECK_DEADLOCK FALSE
