-------------------------- MODULE MCFraudScreening --------------------------
(***************************************************************************)
(* Small instances of FraudScreening: a velocity rule that blocks and a    *)
(* rule on the transfers that flags.                                       *)
(***************************************************************************)
EXTENDS FraudScreening, TLC

CONSTANTS velocity, large

(* The priorities of fraud.service.ts:289 and 299.                         *)
DefaultPriority == [r \in Rules |-> IF r = velocity THEN 10 ELSE 5]

Interchangeable == Permutations(Processes) \union Permutations(Screenings)
=============================================================================
