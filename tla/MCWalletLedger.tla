--------------------------- MODULE MCWalletLedger ---------------------------
(***************************************************************************)
(* Small instances of WalletLedger.  alice owns w1, bob owns w2; transfers *)
(* in both directions lock the wallets in opposite orders.                 *)
(***************************************************************************)
EXTENDS Reconciliation, TLC

CONSTANTS w1, w2, alice, bob

MCOwner == w1 :> alice @@ w2 :> bob
MCOpening == w1 :> 5 @@ w2 :> 0

Debit(w, n) == [wallet |-> w, type |-> "debit", amount |-> n]
Credit(w, n) == [wallet |-> w, type |-> "credit", amount |-> n]
By(u, ps) == [user |-> u, postings |-> ps]

(* amount + fee leaves the source and amount reaches the destination.      *)
Transfers ==
    { By(alice, << Debit(w1, 3), Credit(w2, 2) >>),
      By(bob, << Debit(w2, 2), Credit(w1, 1) >>) }

(* A withdrawal, a deposit, and a deposit that its fee eats up.            *)
External ==
    { By(alice, << Debit(w1, 4) >>),
      By(bob, << Credit(w2, 4) >>),
      By(bob, << Credit(w2, 0) >>) }

(* alice names bob's wallet as the source.                                 *)
Foreign == { By(alice, << Debit(w2, 1) >>) }

MCTransactions == Transfers \union External \union Foreign

MCPowersOfTen == {10, 100, 1000, 10000}
=============================================================================
