SPECIFICATION FairSpec
CONSTANTS
    p1 = p1
    o1 = o1
    u1 = u1
    b1 = b1
    Publishers = {p1, p2}
    SealedRecoveries = {s1}
    StagingRecoveries = {t1}
    Operations = {o1, o2}
    Uris = {u1, u2}
    Contents = {b1, b2}
    MayPublish <- MCAnything
    None = None
CHECK_DEADLOCK FALSE
INVARIANTS
    RegisteredExact
    
PROPERTIES
    OrphansReclaimed
