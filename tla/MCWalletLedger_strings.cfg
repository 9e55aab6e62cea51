SPECIFICATION Spec
CONSTANTS
    w1 = w1
    w2 = w2
    alice = alice
    bob = bob
    NoSession = none
    Wallets = {w1, w2}
    Users = {alice, bob}
    Sessions = {s1, s2}
    Owner <- MCOwner
    Opening <- MCOpening
    Transactions <- MCTransactions
    PowersOfTen <- MCPowersOfTen
    Int8AsText = TRUE
    BigIntMax = 99
    MaxTransactions = 2
    StatusesByHand = {"active", "closed"}
INVARIANT
    Reconciles
