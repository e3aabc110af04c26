SPECIFICATION Spec
CONSTANTS
    Portfolios <- MCPortfolios
    Calls = {c1, c2, c3}
    Requests = {q1, q2}
    Stamps = {t1, t2}
    Lives = 2
SYMMETRY Symmetry
INVARIANTS
    ReplyStands
    ConflictsRefused
    ReleasedOnce
    ResultFollows
    RevisedOnce
CHECK_DEADLOCK FALSE
