SPECIFICATION Spec
CONSTANTS
    Ports = {"p1", "p2"}
    Starts = 3
INVARIANTS
    NoBackendLeft
PROPERTIES
    ReadyServes
    CallsEnd
    OrphanEnds
CHECK_DEADLOCK FALSE
