SPECIFICATION RecoverySpec
CONSTANTS
    Uris = {u1, u2, u3}
    Attempts = 2
SYMMETRY Symmetry
INVARIANTS
    BackupResolves
    RestoreAllOrNothing
CHECK_DEADLOCK FALSE
