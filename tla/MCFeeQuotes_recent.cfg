SPECIFICATION Spec
CONSTANTS
    k = k
    low = low
    high = high
    small = small
    Int8AsText = TRUE
    BigIntMax = 999
    PowersOfTen <- MCPowersOfTen
    Processes = {p1, p2}
    Keys = {k}
    RuleIds = {low, high}
    KeyOf <- MCKeyOf
    PriorityOf <- MCPriorityOf
    Seeded <- MCSeeded
    Configs <- MCConfigs
    Quotes = {small, q2, q3}
    Asks <- MCAsks
    Admins = {a1}
    TTL = 1
    FetchTime = 1
    MaxTime = 3
SYMMETRY Interchangeable
INVARIANTS
    TypeOK
    QuotesAreRecent
    OnlyRacesKeepStale
    NumericFeesAreExact
CHECK_DEADLOCK FALSE
