SPECIFICATION Spec
CONSTANTS
    second = second
    again = again
    third = third
    Submissions = {second, third}
    Target <- MCTarget
    Overrides = {}
    Attempts = 1
    MaxStalls = 0
PROPERTY
    ReviewsOnlyRaise
CHECK_DEADLOCK FALSE
