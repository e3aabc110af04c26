SPECIFICATION Spec
CONSTANTS
    Tracks = {k1, k2, k3}
    Targets = {g1, g2}
    Horizon = 4
    MaxRows = 5
    Persistence = 2
    MaxGap = 1
    Modulus = 4
    MaxSent = 5
    MaxReceived = 4
    Metrics = {1, 2, 3, 4}
    MaxBindings = 3
SYMMETRY Interchangeable
INVARIANTS
    DwellsExact
    EpisodesExact
    SwapsExact
    SequencesExact
    LineageComplete
CHECK_DEADLOCK FALSE
