SPECIFICATION Spec
CONSTANTS
    p1 = p1
    o1 = o1
    u1 = u1
    b1 = b1
    Publishers = {p1}
    SealedRecoveries = {s1}
    StagingRecoveries = {}
    Operations = {o1}
    Uris = {u1, u2}
    Contents = {b1, b2}
    MayPublish <- MCAnything
    None = None
SYMMETRY Symmetry
CHECK_DEADLOCK FALSE
INVARIANTS
    RegisteredNeverDeleted
