---------------------------- MODULE AtomicLedger ----------------------------
(***************************************************************************)
(* What the wallets promise their callers: a transaction is posted whole,  *)
(* in one step, against the balances and statuses that hold at that step,  *)
(* and at most once.  No sessions, no locks, no half-written state.        *)
(***************************************************************************)
EXTENDS Postings

CONSTANTS
    MaxTransactions,  \* bound: transaction identifiers are 1..MaxTransactions
    StatusesByHand    \* the statuses an operator may write with SQL

VARIABLES
    balance,   \* balance[w]: the balance column
    status,    \* status[w]: the status column
    ledger     \* ledger[w]: the wallet's ledger rows, oldest first

ledgerVars == <<balance, status, ledger>>

Init ==
    /\ balance = Opening
    /\ status = [w \in Wallets |-> "active"]
    /\ ledger = [w \in Wallets |-> OpeningLedger(w)]

(* The balance of w once t has posted.                                     *)
After(t, w) == NewBalance(balance[w], t.postings[IndexOf(t, w)])

CanPost(t) ==
    \A i \in 1..Len(t.postings) :
        LET p == t.postings[i]
        IN  /\ p.amount > 0
            /\ Allowed(balance[p.wallet], status[p.wallet], p, t.user)
            /\ NewBalance(balance[p.wallet], p) <= BigIntMax

NotPosted(id) ==
    \A w \in Wallets : \A i \in 1..Len(ledger[w]) : ledger[w][i].transferId # id

Post(id, t) ==
    /\ CanPost(t)
    /\ NotPosted(id)
    /\ balance' = [w \in Wallets |->
                     IF w \in Touched(t) THEN After(t, w) ELSE balance[w]]
    /\ ledger' = [w \in Wallets |->
                    IF w \in Touched(t)
                    THEN Append(ledger[w], EntryFor(t, IndexOf(t, w), After(t, w), id))
                    ELSE ledger[w]]
    /\ UNCHANGED status

(* AdminController.freezeWallet, or an operator's UPDATE of the column.    *)
SetStatus(w, st) ==
    /\ status' = [status EXCEPT ![w] = st]
    /\ UNCHANGED <<balance, ledger>>

Next ==
    \/ \E id \in 1..MaxTransactions, t \in Transactions : Post(id, t)
    \/ \E w \in Wallets, st \in StatusesByHand \union {"frozen"} : SetStatus(w, st)

Spec == Init /\ [][Next]_ledgerVars
=============================================================================
