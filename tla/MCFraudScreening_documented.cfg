SPECIFICATION Spec
CONSTANTS
    velocity = velocity
    large = large
    Processes = {p1}
    Screenings = {s1, s2, s3}
    Rules = {velocity}
    Velocity = {velocity}
    Blocking = {velocity}
    Priority <- DefaultPriority
    Seeded = {velocity}
    MaxCount = 2
    Window = 1
    RulesTTL = 1
    MaxTime = 2
    MaxSwitches = 1
SYMMETRY Interchangeable
INVARIANTS
    WindowIsRolling
    RulesTakeEffectImmediately
CHECK_DEADLOCK FALSE
