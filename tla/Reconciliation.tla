--------------------------- MODULE Reconciliation ---------------------------
(***************************************************************************)
(* WalletsService.reconcileBalance: the stored balance against the sum of  *)
(* the wallet's ledger rows, read outside any transaction (no code calls   *)
(* it).                                                                    *)
(***************************************************************************)
EXTENDS WalletLedger

Signed(e) == IF e.type = "credit" THEN e.amount ELSE -e.amount

(* SUM(CASE WHEN type = 'credit' THEN amount ELSE -amount END).            *)
CalculatedBalance(w) == Total([i \in DOMAIN ledger[w] |-> Signed(ledger[w][i])])

(* `===` between the column, a string as shipped, and a parsed number.     *)
IsConsistent(w) == ~Int8AsText /\ balance[w] = CalculatedBalance(w)

(* README.md:400: SUM(credits) - SUM(debits) must equal wallet.balance.    *)
(* It holds of every committed state when BIGINT columns are numbers, and  *)
(* fails as shipped, where a credit concatenates.                          *)
Reconciles == \A w \in Wallets : balance[w] = CalculatedBalance(w)

(* Also as shipped, a wallet never holds less than its ledger says: the    *)
(* digits appended by a credit are worth at least the amount.              *)
CoversLedger == \A w \in Wallets : balance[w] >= CalculatedBalance(w)
=============================================================================
