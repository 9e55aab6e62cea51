----------------------------- MODULE MCPayments -----------------------------
(***************************************************************************)
(* Small instances of Payments on one wallet: a withdrawal of 3 whose fee  *)
(* is the string of 1, so that 31 is debited (transfer 1), and deposits of *)
(* 5 with a fee of the number 2, through either provider (2 and 3).        *)
(***************************************************************************)
EXTENDS Payments, TLC

CONSTANTS w1, alice

MCOwner == w1 :> alice
MCOpening == w1 :> 40

TakesIn(provider) ==
    [kind |-> "deposit", provider |-> provider, amount |-> 5,
     fee |-> Number(2)]

MCPayment ==
    [t \in Transfers |->
        CASE t = 1 -> [kind |-> "withdrawal", provider |-> "flutterwave",
                       amount |-> 3, fee |-> FromColumn(1)]
          [] t = 2 -> TakesIn("flutterwave")
          [] t = 3 -> TakesIn("stripe")]

MCPowersOfTen == {10, 100, 1000, 10000}
=============================================================================
