----------------------------- MODULE MCAccounts -----------------------------
(***************************************************************************)
(* Small instances of Accounts; the constants are in the configurations.   *)
(***************************************************************************)
EXTENDS Accounts, TLC

(* Calls are interchangeable.                                              *)
CallSymmetry == Permutations(Calls)
=============================================================================
