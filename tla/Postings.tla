------------------------------ MODULE Postings ------------------------------
(***************************************************************************)
(* What WalletsService.debit and WalletsService.credit accept and compute, *)
(* as operators on one wallet row: shared by the ledger as it is promised  *)
(* (AtomicLedger) and the ledger as it runs (WalletLedger).                *)
(*                                                                         *)
(* A posting is one call of debit or credit.  A transaction is the list of *)
(* postings a caller makes between startTransaction and commitTransaction, *)
(* on behalf of one user:                                                  *)
(*   internal transfer      << debit(source), credit(destination) >>       *)
(*   withdrawal             << debit(wallet) >>                            *)
(*   deposit completion     << credit(wallet) >>                           *)
(* No caller names a wallet that does not exist (each looks it up first    *)
(* and wallets are never deleted), and none names one wallet twice.  What  *)
(* is credited comes from a column or is inserted into one; what is        *)
(* debited may be a concatenation of any size.                             *)
(***************************************************************************)
EXTENDS Money, Sequences

CONSTANTS
    Wallets,
    Users,
    Owner,          \* Owner[w]: the user the wallet belongs to
    Transactions,   \* the transactions callers may ask for
    Opening         \* Opening[w]: the amount of the first credit, 0 for none

WalletStatus == {"active", "frozen", "closed"}
EntryType == {"debit", "credit"}

Posting == [wallet : Wallets, type : EntryType, amount : Int]

TouchesOnce(t) ==
    \A i, j \in 1..Len(t.postings) :
        t.postings[i].wallet = t.postings[j].wallet => i = j

ASSUME PostingsAssumption ==
    /\ Owner \in [Wallets -> Users]
    /\ Opening \in [Wallets -> Column]
    /\ \A t \in Transactions :
          /\ t.user \in Users
          /\ t.postings \in Seq(Posting)
          /\ Len(t.postings) > 0
          /\ \A i \in 1..Len(t.postings) :
                t.postings[i].type = "credit" => t.postings[i].amount <= BigIntMax
          /\ TouchesOnce(t)

-----------------------------------------------------------------------------
(* One ledger row.                                                         *)
Entry == [type : EntryType, amount : Int, balanceAfter : Nat, transferId : Nat]

(* heldBalance is written once, as 0, when the wallet is created.          *)
HeldBalance == 0
Available(bal) == bal - HeldBalance

(* Fault: a credit leaves the balance as it was.                           *)
CreditForgotten(bal, p) == IF p.type = "debit" THEN bal - p.amount ELSE bal

(* The balance both methods write to the row and to the entry.             *)
NewBalance(bal, p) ==
    IF p.type = "debit" THEN bal - p.amount ELSE ColumnPlus(bal, p.amount)

(* The checks made on the row once it has been read.                       *)
DebitAllowed(bal, st, p, user) ==
    /\ Owner[p.wallet] = user
    /\ st = "active"
    /\ Available(bal) >= p.amount

CreditAllowed(st) == st # "closed"

Allowed(bal, st, p, user) ==
    IF p.type = "debit" THEN DebitAllowed(bal, st, p, user) ELSE CreditAllowed(st)

-----------------------------------------------------------------------------
Touched(t) == {t.postings[i].wallet : i \in 1..Len(t.postings)}

IndexOf(t, w) == CHOOSE i \in 1..Len(t.postings) : t.postings[i].wallet = w

(* The ledger row that the i-th posting of t inserts.                      *)
EntryFor(t, i, after, id) ==
    [type |-> t.postings[i].type, amount |-> t.postings[i].amount,
     balanceAfter |-> after, transferId |-> id]

(* A wallet is created empty; Opening gives it the history of one credit.  *)
OpeningLedger(w) ==
    IF Opening[w] = 0 THEN <<>>
    ELSE <<[type |-> "credit", amount |-> Opening[w],
            balanceAfter |-> Opening[w], transferId |-> 0]>>
=============================================================================
