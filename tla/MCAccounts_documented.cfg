SPECIFICATION Spec
CONSTANTS
    Calls = {c1, c2}
    MaxFailedAttempts = 3
    LockDuration = 2
    AccessLife = 1
    RefreshLife = 2
    ComparedWhole = FALSE
    MaxTokens = 3
    MaxNow = 2
PROPERTIES
    RotatedTokensRefused
    ReuseIsDetected
    LogoutSticks
    SuspendedGetNoTokens
    LocksLast
CHECK_DEADLOCK FALSE
