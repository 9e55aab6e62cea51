SPECIFICATION Spec
CONSTANTS
    w1 = w1
    alice = alice
    Wallets = {w1}
    Users = {alice}
    Wallet = w1
    Owner <- MCOwner
    Opening <- MCOpening
    Transactions = {}
    PowersOfTen <- MCPowersOfTen
    Int8AsText = TRUE
    BigIntMax = 999
    Transfers = {1, 3}
    Payment <- MCPayment
    Repaired = {}
    Attempts = 3
    MaxStalls = 1
    Hooks = {h1}
    HookAttempts = 1
    MaxPayments = 1
INVARIANTS
    DebitedIsQueued
    GivenUpIsDecided
    DebitIsAmountPlusFee
PROPERTIES
    PermanentlyFailed
    FailedByNews
CHECK_DEADLOCK FALSE
