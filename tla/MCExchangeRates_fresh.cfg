SPECIFICATION Spec
CONSTANTS
    Pairs <- MCPairs
    MockRates <- MCMockRates
    Refreshes <- MCRefreshes
    Jitters = {199, 201}
    Processes = {p1, p2}
    Calls = {c1, c2}
    Amounts = {1, 100, 195}
    RowLife = 2
    CacheLife = 1
    FetchTime = 1
    MaxRows = 2
    MaxNow = 4
SYMMETRY RatesSymmetry
INVARIANTS
    TypeOK
    ExpiryIsNear
    NewerRatesPrevail
    RoundTripsLose
CHECK_DEADLOCK FALSE
