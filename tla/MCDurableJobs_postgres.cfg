SPECIFICATION Spec
CONSTANTS
    Submitters = {s1, s2}
    Cancellers = {c1}
    Keys = {k1, k2}
    Payloads = {p1, p2}
    p1 = p1
    p2 = p2
    Stages <- MCStages
    Engine = "POSTGRES"
    Capacity = 1
    ConnectionMayFail = TRUE
    MaxCrashes = 1
    Nobody = Nobody
SYMMETRY Symmetry
CHECK_DEADLOCK FALSE
INVARIANTS
    TypeOK
    OutcomeAtomic
    AtMostOneExecution
    AuditAgrees
    ReplyStands
PROPERTIES
    ImplementsLifecycle
