SPECIFICATION FairSpec
CONSTANTS
    Submitters = {s1, s2, s3}
    Cancellers = {c1}
    Keys = {k1}
    Payloads = {p1, p2}
    p1 = p1
    p2 = p2
    Stages <- MCStages
    Engine = "SQLITE"
    Capacity = 1
    ConnectionMayFail = FALSE
    MaxCrashes = 1
    Nobody = Nobody
INVARIANTS
    ArtifactBeforeRelease
    OneJobPerKey
CHECK_DEADLOCK FALSE
PROPERTIES
    RequestsAnswered
    AcceptedJobEnds
