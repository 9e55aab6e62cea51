SPECIFICATION Spec
CONSTANTS
    k = k
    low = low
    high = high
    small = small
    Int8AsText = TRUE
    BigIntMax = 999
    PowersOfTen <- MCPowersOfTen
    Processes = {p1}
    Keys = {k}
    RuleIds = {low, high}
    KeyOf <- MCKeyOf
    PriorityOf <- MCPriorityOf
    Seeded <- MCSeeded
    Configs <- MCConfigs
    Quotes = {small, q2}
    Asks <- MCAsks
    Admins = {a1}
    TTL = 1
    FetchTime = 1
    MaxTime = 1
INVARIANTS
    FeeWithinCap
    InvalidatedImmediately
CHECK_DEADLOCK FALSE
