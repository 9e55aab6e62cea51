SPECIFICATION Spec
CONSTANTS
    c1 = c1
    c2 = c2
    c3 = c3
    c4 = c4
    k1 = k1
    transfer = transfer
    withdraw = withdraw
    Calls = {c1, c2, c3, c4}
    Keys = {k1}
    Endpoints = {transfer, withdraw}
    KeyOf <- MCKeyOf
    EndpointOf <- MCEndpointOf
    KeepFor = 2
    Promised = 2
    MaxTime = 6
SYMMETRY CallSymmetry
INVARIANTS
    TypeOK
    OneExecution
    EffectOncePerWindow
    ReplaysAreExact
CHECK_DEADLOCK FALSE
