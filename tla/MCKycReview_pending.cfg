SPECIFICATION Spec
CONSTANTS
    second = second
    again = again
    third = third
    Submissions = {second, again}
    Target <- MCTarget
    Overrides = {}
    Attempts = 1
    MaxStalls = 0
INVARIANT
    OnePendingPerTier
CHECK_DEADLOCK FALSE
