------------------------ MODULE MCInternalTransfers ------------------------
(***************************************************************************)
(* Small instances of InternalTransfers.  alice owns a naira wallet with   *)
(* money, bob an empty one.  The fee is 1: a string for amounts from 4 on  *)
(* (a rule's floor, say), so that 41 is debited for 4, a number below.     *)
(***************************************************************************)
EXTENDS InternalTransfers, TLC

CONSTANTS w1, w2, alice, bob, ngn, usd

MCOwner == w1 :> alice @@ w2 :> bob
MCOpening == w1 :> 130 @@ w2 :> 0
MCCurrencyOf == [w \in {w1, w2} |-> ngn]
MCDailyLimit == 0 :> 0 @@ 1 :> 5 @@ 2 :> 9
MCFeeOf(r) == IF r.amount >= 4 THEN FromColumn(1) ELSE Number(1)

(* Verified, and set back by an administrator.                             *)
MixedTiers == alice :> {0, 1} @@ bob :> {3}
Verified == alice :> {1} @@ bob :> {0}

Request(u, from, to, n, c) ==
    [user |-> u, source |-> from, destination |-> to, amount |-> n, currency |-> c]

(* Sessions are interchangeable: only invariants are checked with it.     *)
SessionSymmetry == Permutations(Sessions)

Repeated == { Request(alice, w1, w2, 4, ngn) }
Matching == { Request(alice, w1, w2, 3, ngn), Request(alice, w1, w2, 4, ngn) }
Mismatched == Matching \union { Request(alice, w1, w2, 3, usd) }

(* Requests that ReadParties turns away.                                   *)
Refused ==
    { Request(alice, w1, w1, 3, ngn), Request(alice, w2, w1, 3, ngn),
      Request(alice, w1, w2, 0, ngn) }

(* bob sends the other way, so the two wallets are locked in both orders.  *)
Mixed == Repeated \union { Request(bob, w2, w1, 1, ngn) } \union Refused

MCTransactions == {TransactionOf(r) : r \in SoundRequests}

NoDeposits == {}
OneDeposit == { [user |-> alice, currency |-> ngn, amount |-> 2] }

MCPowersOfTen == {10, 100, 1000, 10000}
=============================================================================
