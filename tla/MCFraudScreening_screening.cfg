SPECIFICATION Spec
CONSTANTS
    velocity = velocity
    large = large
    Processes = {p1}
    Screenings = {s1, s2, s3}
    Rules = {velocity, large}
    Velocity = {velocity}
    Blocking = {velocity}
    Priority <- DefaultPriority
    Seeded = {velocity, large}
    MaxCount = 1
    Window = 1
    RulesTTL = 1
    MaxTime = 2
    MaxSwitches = 1
SYMMETRY Interchangeable
INVARIANTS
    TypeOK
    CountIsStreak
    RulesAreRecent
    AlertsPrecedeVerdict
CHECK_DEADLOCK FALSE
