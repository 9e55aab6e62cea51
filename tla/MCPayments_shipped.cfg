SPECIFICATION FairSpec
CONSTANTS
    w1 = w1
    alice = alice
    Wallets = {w1}
    Users = {alice}
    Wallet = w1
    Owner <- MCOwner
    Opening <- MCOpening
    Transactions = {}
    PowersOfTen <- MCPowersOfTen
    Int8AsText = TRUE
    BigIntMax = 999
    Transfers = {1, 2, 3}
    Payment <- MCPayment
    Repaired = {3}
    Attempts = 2
    MaxStalls = 1
    Hooks = {h1, h2}
    HookAttempts = 1
    MaxPayments = 1
INVARIANTS
    TypeOK
    ChargesBounded
    EndedWithdrawalsAreDecided
PROPERTIES
    ImplementsSettlement
    JobsEnd
    JobsCountDown
CHECK_DEADLOCK FALSE
