SPECIFICATION TransfersSpec
CONSTANTS
    w1 = w1
    w2 = w2
    alice = alice
    bob = bob
    ngn = ngn
    usd = usd
    NoSession = none
    Wallets = {w1, w2}
    Users = {alice, bob}
    Sessions = {s1, s2}
    Owner <- MCOwner
    Opening <- MCOpening
    Transactions <- MCTransactions
    CurrencyOf <- MCCurrencyOf
    Requests <- Mismatched
    FeeOf <- MCFeeOf
    DailyLimit <- MCDailyLimit
    Unlimited = 3
    PowersOfTen <- MCPowersOfTen
    Int8AsText = TRUE
    BigIntMax = 999
    MaxTransactions = 2
    StatusesByHand = {}
    TicksPerDay = 2
    MaxTime = 2
    TiersByHand <- Verified
    Deposits <- NoDeposits
    MaxRows = 2
INVARIANTS
    DailyLimitKept
    RollingLimitKept
    CurrencyMatches
    DebitIsAmountPlusFee
