SPECIFICATION FairSpec
CONSTANTS
    Dispatchers = {d1, d2}
    Cancellers = {c1, c2}
    Jobs = {j1, j2}
    Capacity = 1
    Nobody = Nobody
CHECK_DEADLOCK FALSE
INVARIANTS
    SlotsMatchDispatches
    WorkersSettled
PROPERTIES
    ImplementsPool
    DispatchEnds
