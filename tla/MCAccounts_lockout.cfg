SPECIFICATION Spec
CONSTANTS
    Calls = {c1, c2, c3}
    MaxFailedAttempts = 3
    LockDuration = 2
    AccessLife = 1
    RefreshLife = 2
    ComparedWhole = FALSE
    MaxTokens = 2
    MaxNow = 2
SYMMETRY CallSymmetry
INVARIANTS
    TypeOK
    GuessesBounded
    CreatedOnce
    LockStopsLogins
CHECK_DEADLOCK FALSE
