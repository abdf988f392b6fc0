CONSTANTS
    c1 = c1
    c2 = c2
    c3 = c3
    k1 = k1
    k2 = k2
    s1 = s1
    s2 = s2
    r1 = r1
    r2 = r2
    r3 = r3
    r4 = r4
    Challenges = {c1, c2, c3}
    Keys = {k1, k2}
    Sessions = {s1, s2}
    Limit = 1
    Nobody = Nobody
    MaxLinks = 2
    Rules = {r1, r2, r3, r4}
    NumLocals = 1
    Looks = {"plain", "changed"}
    Complete = TRUE
    MaxRevisions = 2
    kindA = kindA
    kindB = kindB
    EventKinds = {kindA, kindB}
    Filters = {{kindA, kindB}, {kindA}}
    Everything = {kindA, kindB}
    PageSize = 1
    Preview = 1
    MaxAt = 2
    MaxEvents = 3
    MaxLoads = 3

SPECIFICATION PanelSpec
CHECK_DEADLOCK FALSE

INVARIANTS
    OwnerKeepsTheKeys
    ChallengesLimited
    LinkIsSpent
    EverythingElseIsLast
    PagesJoin

PROPERTIES
    CleanWhenPublished
