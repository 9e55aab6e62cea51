---------------------------- MODULE MCFeeQuotes ----------------------------
(***************************************************************************)
(* Small instances of FeeQuotes: one key, two rows of different priority,  *)
(* a percentage with floor and cap, like the seeded dollar withdrawal, and *)
(* tiers with a tax, like the seeded naira transfer.  The large requests   *)
(* reach the cap, the small one stays between floor and cap.               *)
(***************************************************************************)
EXTENDS FeeQuotes, TLC

CONSTANTS k, low, high, small

MCKeyOf == [i \in RuleIds |-> k]
MCPriorityOf == low :> 5 @@ high :> 10
MCAsks == [q \in Quotes |-> [key |-> k, amount |-> IF q = small THEN 40 ELSE 60]]

Plain ==
    [feeType |-> "flat", flatAmount |-> 0, percentage |-> 0, cap |-> Null,
     floor |-> Null, tierConfig |-> <<>>, taxRate |-> 0,
     minTransferAmount |-> 0, maxTransferAmount |-> Null]

Withdrawals ==
    [Plain EXCEPT !.feeType = "percentage", !.percentage = 10, !.floor = {2}, !.cap = {5}]

Transfers ==
    [Plain EXCEPT !.feeType = "tiered", !.taxRate = 10,
                  !.tierConfig = << [minAmount |-> 0, maxAmount |-> {50}, flatFee |-> 10],
                                    [minAmount |-> 51, maxAmount |-> Null, flatFee |-> 20] >>]

MCConfigs == {Withdrawals, Transfers}

MCSeeded == low :> [active |-> TRUE, config |-> {Transfers}] @@ high :> NoRow

MCPowersOfTen == {10, 100, 1000, 10000}

Interchangeable ==
    Permutations(Processes) \union Permutations(Quotes \ {small}) \union Permutations(Admins)
=============================================================================
