SPECIFICATION FairSpec
CONSTANTS
    second = second
    again = again
    third = third
    Submissions = {second, again}
    Target <- MCTarget
    Overrides = {0}
    Attempts = 3
    MaxStalls = 1
INVARIANTS
    TypeOK
    GrantsMatchVerdicts
    DuplicatesNeedOverlap
PROPERTY
    QueuedIsReviewed
CHECK_DEADLOCK FALSE
