---------------------------- MODULE WalletLedger ----------------------------
(***************************************************************************)
(* WalletsService as it runs: concurrent requests, each on a PostgreSQL    *)
(* connection of its own (a session), inside a READ COMMITTED transaction  *)
(* that the caller opened.  debit and credit lock the wallet row with      *)
(* SELECT ... FOR UPDATE, check it, UPDATE the balance and INSERT a ledger *)
(* row; nothing is seen by others before COMMIT, and row locks are kept    *)
(* until COMMIT or ROLLBACK.                                               *)
(*                                                                         *)
(* An administrator's freeze is a one-statement transaction that needs the *)
(* row lock and writes the status column only.                             *)
(***************************************************************************)
EXTENDS Postings, FiniteSets

CONSTANTS
    Sessions,         \* database connections serving requests
    NoSession,        \* the holder of a lock nobody holds
    MaxTransactions,  \* bound: transactions begun in a behaviour
    StatusesByHand    \* statuses an operator writes with SQL (no code does)

ASSUME SessionsAssumption ==
    /\ IsFiniteSet(Sessions) /\ NoSession \notin Sessions
    /\ MaxTransactions \in Nat
    /\ StatusesByHand \subseteq WalletStatus

VARIABLES
    balance, status, ledger,   \* the committed rows (see AtomicLedger)
    lock,      \* lock[w]: the session that holds the row lock of w
    begun,     \* how many transactions have begun: the last transferId
    pc,        \* pc[s]: what the session does next
    tx,        \* tx[s]: the transaction it runs
    id,        \* id[s]: its transferId
    seen,      \* seen[s]: the row that SELECT ... FOR UPDATE returned
    draft      \* draft[s]: the balances written so far, one per posting done

committed == <<balance, status, ledger>>
private == <<tx, id, seen, draft>>
vars == <<balance, status, ledger, lock, begun, pc, tx, id, seen, draft>>

NoTransaction == [user |-> NoSession, postings |-> <<>>]
NoRow == [balance |-> 0, status |-> "closed"]

Init ==
    /\ balance = Opening
    /\ status = [w \in Wallets |-> "active"]
    /\ ledger = [w \in Wallets |-> OpeningLedger(w)]
    /\ lock = [w \in Wallets |-> NoSession]
    /\ begun = 0
    /\ pc = [s \in Sessions |-> "idle"]
    /\ tx = [s \in Sessions |-> NoTransaction]
    /\ id = [s \in Sessions |-> 0]
    /\ seen = [s \in Sessions |-> NoRow]
    /\ draft = [s \in Sessions |-> <<>>]

-----------------------------------------------------------------------------
Running(s) == pc[s] # "idle"

(* The posting the session is at, and the wallet row it is about.          *)
Current(s) == tx[s].postings[Len(draft[s]) + 1]

LockFree(w, s) == lock[w] \in {NoSession, s}

(* Fault: the catch block forgets to roll back, the locks stay.            *)
FinishKeepingLocks(s) ==
    /\ pc' = [pc EXCEPT ![s] = "idle"]
    /\ tx' = [tx EXCEPT ![s] = NoTransaction]
    /\ id' = [id EXCEPT ![s] = 0]
    /\ seen' = [seen EXCEPT ![s] = NoRow]
    /\ draft' = [draft EXCEPT ![s] = <<>>]
    /\ UNCHANGED <<lock, begun>>

(* Both ends of a transaction drop its locks and its private state.        *)
Finish(s) ==
    /\ lock' = [w \in Wallets |-> IF lock[w] = s THEN NoSession ELSE lock[w]]
    /\ pc' = [pc EXCEPT ![s] = "idle"]
    /\ tx' = [tx EXCEPT ![s] = NoTransaction]
    /\ id' = [id EXCEPT ![s] = 0]
    /\ seen' = [seen EXCEPT ![s] = NoRow]
    /\ draft' = [draft EXCEPT ![s] = <<>>]
    /\ UNCHANGED begun

Rollback(s) == Finish(s) /\ UNCHANGED committed

(* startTransaction, and the first call of debit or credit.                *)
Begin(s, t) ==
    /\ pc[s] = "idle"
    /\ begun < MaxTransactions
    /\ begun' = begun + 1
    /\ id' = [id EXCEPT ![s] = begun + 1]
    /\ tx' = [tx EXCEPT ![s] = t]
    /\ pc' = [pc EXCEPT ![s] = "select"]
    /\ UNCHANGED <<balance, status, ledger, lock, seen, draft>>

(* An amount that is not positive is refused before the row is touched.    *)
RefuseAmount(s) ==
    /\ pc[s] = "select"
    /\ Current(s).amount <= 0
    /\ Rollback(s)

(* Fault: the row is read without FOR UPDATE.                              *)
SelectUnlocked(s) ==
    /\ pc[s] = "select"
    /\ Current(s).amount > 0
    /\ LET w == Current(s).wallet
       IN  seen' = [seen EXCEPT ![s] = [balance |-> balance[w], status |-> status[w]]]
    /\ pc' = [pc EXCEPT ![s] = "check"]
    /\ UNCHANGED <<balance, status, ledger, lock, begun, tx, id, draft>>

(* Waits for the row lock, then reads the latest committed version.        *)
SelectForUpdate(s) ==
    /\ pc[s] = "select"
    /\ Current(s).amount > 0
    /\ LET w == Current(s).wallet
       IN  /\ LockFree(w, s)
           /\ lock' = [lock EXCEPT ![w] = s]
           /\ seen' = [seen EXCEPT ![s] = [balance |-> balance[w], status |-> status[w]]]
    /\ pc' = [pc EXCEPT ![s] = "check"]
    /\ UNCHANGED <<balance, status, ledger, begun, tx, id, draft>>

Passes(s) == Allowed(seen[s].balance, seen[s].status, Current(s), tx[s].user)

Result(s) == NewBalance(seen[s].balance, Current(s))

(* A check on the row throws; the caller's catch rolls everything back.    *)
Refuse(s) ==
    /\ pc[s] = "check"
    /\ ~Passes(s)
    /\ Rollback(s)

(* UPDATE the row (it takes the row lock too) and INSERT the ledger entry. *)
Write(s) ==
    /\ pc[s] = "check"
    /\ Passes(s)
    /\ Result(s) <= BigIntMax
    /\ LockFree(Current(s).wallet, s)
    /\ lock' = [lock EXCEPT ![Current(s).wallet] = s]
    /\ draft' = [draft EXCEPT ![s] = Append(@, Result(s))]
    /\ pc' = [pc EXCEPT ![s] =
                IF Len(draft[s]) + 1 = Len(tx[s].postings) THEN "commit" ELSE "select"]
    /\ UNCHANGED <<balance, status, ledger, begun, tx, id, seen>>

(* The UPDATE does not fit the column: the statement fails.                *)
WriteFails(s) ==
    /\ pc[s] = "check"
    /\ Passes(s)
    /\ Result(s) > BigIntMax
    /\ Rollback(s)

(* The balance that the running transaction leaves in w.                   *)
Written(s, w) == draft[s][IndexOf(tx[s], w)]

Commit(s) ==
    /\ pc[s] = "commit"
    /\ balance' = [w \in Wallets |->
                     IF w \in Touched(tx[s]) THEN Written(s, w) ELSE balance[w]]
    /\ ledger' = [w \in Wallets |->
                    IF w \in Touched(tx[s])
                    THEN Append(ledger[w],
                                EntryFor(tx[s], IndexOf(tx[s], w), Written(s, w), id[s]))
                    ELSE ledger[w]]
    /\ Finish(s)
    /\ UNCHANGED status

-----------------------------------------------------------------------------
(* Fault: the UPDATE is outside the transaction and survives the abort.    *)
AbortKeepingBalances(s) ==
    /\ Running(s)
    /\ balance' = [w \in Wallets |->
                     IF \E i \in 1..Len(draft[s]) : tx[s].postings[i].wallet = w
                     THEN Written(s, w) ELSE balance[w]]
    /\ Finish(s)
    /\ UNCHANGED <<status, ledger>>

(* Fault: each posting is committed by itself, the abort keeps the debit.  *)
AbortKeepingPostings(s) ==
    LET done == {tx[s].postings[i].wallet : i \in 1..Len(draft[s])}
    IN  /\ Running(s)
        /\ balance' = [w \in Wallets |->
                         IF w \in done THEN Written(s, w) ELSE balance[w]]
        /\ ledger' = [w \in Wallets |->
                        IF w \in done
                        THEN Append(ledger[w],
                                    EntryFor(tx[s], IndexOf(tx[s], w), Written(s, w), id[s]))
                        ELSE ledger[w]]
        /\ Finish(s)
        /\ UNCHANGED status

(* The process dies, the connection breaks or a statement fails: whatever  *)
(* was not committed is rolled back by the server.                         *)
Abort(s) == Running(s) /\ Rollback(s)

WaitsFor(s, u) ==
    /\ s # u
    /\ pc[s] = "select"
    /\ lock[Current(s).wallet] = u

(* s is on a cycle of sessions that wait for each other.                   *)
Deadlocked(s) ==
    \E S \in SUBSET Sessions :
        /\ s \in S
        /\ \A x \in S : \E y \in S : WaitsFor(x, y)
        /\ \A y \in S : \E x \in S : WaitsFor(x, y)

(* PostgreSQL's deadlock detector fails the statement of one of them; the  *)
(* services neither order their locks nor retry.                           *)
DeadlockVictim(s) == Deadlocked(s) /\ Rollback(s)

(* Fault: the freeze does not wait for the transaction that holds the row. *)
FreezeUnlocked(w) ==
    /\ status' = [status EXCEPT ![w] = "frozen"]
    /\ UNCHANGED <<balance, ledger, lock, begun, pc, private>>

FreezeWallet(w) ==
    /\ lock[w] = NoSession
    /\ status' = [status EXCEPT ![w] = "frozen"]
    /\ UNCHANGED <<balance, ledger, lock, begun, pc, private>>

(* No code closes or unfreezes a wallet: an operator writes the column.    *)
SetStatusByHand(w, st) ==
    /\ lock[w] = NoSession
    /\ status' = [status EXCEPT ![w] = st]
    /\ UNCHANGED <<balance, ledger, lock, begun, pc, private>>

-----------------------------------------------------------------------------
(* What a session does by itself once its transaction has begun.           *)
Step(s) ==
    \/ RefuseAmount(s)
    \/ SelectForUpdate(s)
    \/ Refuse(s)
    \/ Write(s)
    \/ WriteFails(s)
    \/ Commit(s)

Next ==
    \/ \E s \in Sessions :
          \/ \E t \in Transactions : Begin(s, t)
          \/ Step(s)
          \/ Abort(s)
          \/ DeadlockVictim(s)
    \/ \E w \in Wallets : FreezeWallet(w)
    \/ \E w \in Wallets, st \in StatusesByHand : SetStatusByHand(w, st)

Spec == Init /\ [][Next]_vars

(* Node runs every continuation whose promise has settled, the database    *)
(* answers every statement, and its detector finds every deadlock.         *)
Fairness ==
    \A s \in Sessions : WF_vars(Step(s)) /\ WF_vars(DeadlockVictim(s))

FairSpec == Spec /\ Fairness

-----------------------------------------------------------------------------
(* Every variable has its type; a balance is never negative.               *)
TypeOK ==
    /\ balance \in [Wallets -> Column]
    /\ status \in [Wallets -> WalletStatus]
    /\ ledger \in [Wallets -> Seq(Entry)]
    /\ lock \in [Wallets -> Sessions \union {NoSession}]
    /\ begun \in 0..MaxTransactions
    /\ pc \in [Sessions -> {"idle", "select", "check", "commit"}]
    /\ tx \in [Sessions -> Transactions \union {NoTransaction}]
    /\ id \in [Sessions -> 0..MaxTransactions]
    /\ seen \in [Sessions -> [balance : Column, status : WalletStatus]]
    /\ draft \in [Sessions -> Seq(Column)]

(* The balance a wallet had before the i-th of its ledger rows.            *)
BalanceBefore(w, i) == IF i = 1 THEN 0 ELSE ledger[w][i - 1].balanceAfter

(* Every ledger row follows from the one before it: its balanceAfter is    *)
(* the previous balanceAfter plus or minus its amount, as the code adds,   *)
(* and never negative.  Two sessions that both read a balance before       *)
(* either wrote it would break the chain: this is the lost update that     *)
(* SELECT ... FOR UPDATE in debit and credit is there to prevent.          *)
LedgerChained ==
    \A w \in Wallets : \A i \in 1..Len(ledger[w]) :
        LET e == ledger[w][i]
        IN  /\ e.balanceAfter = IF e.type = "debit"
                                THEN BalanceBefore(w, i) - e.amount
                                ELSE ColumnPlus(BalanceBefore(w, i), e.amount)
            /\ e.balanceAfter >= 0

(* The balance column is the balanceAfter of the newest ledger row: no     *)
(* balance changes without its row and no row without its balance, also    *)
(* when the process dies between the UPDATE and the INSERT.                *)
BalanceIsNewestEntry ==
    \A w \in Wallets :
        balance[w] = BalanceBefore(w, Len(ledger[w]) + 1)

(* Between its locked read and its COMMIT a transaction's view of every    *)
(* wallet it wrote stays true of the committed rows.                       *)
ViewsStayTrue ==
    \A s \in Sessions :
        /\ pc[s] = "check" =>
              LET w == Current(s).wallet
              IN  seen[s] = [balance |-> balance[w], status |-> status[w]]
        /\ \A i \in 1..Len(draft[s]) :
              LET p == tx[s].postings[i]
              IN  /\ draft[s][i] = NewBalance(balance[p.wallet], p)
                  /\ Allowed(balance[p.wallet], status[p.wallet], p, tx[s].user)

(* A running transaction has written fewer balances than it has postings,  *)
(* all of them at commit, each for a positive amount.                      *)
InStep ==
    \A s \in Sessions :
        /\ pc[s] = "idle" => draft[s] = <<>>
        /\ Running(s) => tx[s] \in Transactions
        /\ pc[s] \in {"select", "check"} => Len(draft[s]) < Len(tx[s].postings)
        /\ pc[s] = "commit" => Len(draft[s]) = Len(tx[s].postings)
        /\ pc[s] = "check" => Current(s).amount > 0
        /\ \A i \in 1..Len(draft[s]) : tx[s].postings[i].amount > 0

(* It holds the row lock of every wallet it has read or written.           *)
LocksHeld ==
    \A s \in Sessions :
        /\ pc[s] = "check" => lock[Current(s).wallet] = s
        /\ \A i \in 1..Len(draft[s]) : lock[tx[s].postings[i].wallet] = s

(* No transferId is used by two running transactions, nor by a running one *)
(* and a ledger row.                                                       *)
IdsUnique ==
    /\ \A s \in Sessions : Running(s) => id[s] \in 1..begun
    /\ \A s, u \in Sessions : Running(s) /\ Running(u) /\ id[s] = id[u] => s = u
    /\ \A w \in Wallets : \A i \in 1..Len(ledger[w]) :
          /\ ledger[w][i].transferId <= begun
          /\ \A s \in Sessions : Running(s) => ledger[w][i].transferId # id[s]

(* The inductive invariant: the safety of the ledger rests on views that   *)
(* stay true, and those on the locks held.                                 *)
IInv ==
    /\ TypeOK
    /\ InStep
    /\ LocksHeld
    /\ ViewsStayTrue
    /\ IdsUnique
    /\ BalanceIsNewestEntry
    /\ LedgerChained

(* s is at a statement that needs a row lock another session holds.        *)
Blocked(s) == pc[s] \in {"select", "check"} /\ ~LockFree(Current(s).wallet, s)

(* No group of sessions is stuck.  Take any sessions, one of them running, *)
(* that wait for nobody else: one of those that run can go on, or is on a  *)
(* cycle, which the detector breaks.  A row lock that outlived its         *)
(* transaction would leave its waiters stuck behind nobody, with no cycle  *)
(* for the detector to find.                                               *)
NoGroupStuck ==
    \A S \in SUBSET Sessions :
        ( /\ \E s \in S : Running(s)
          /\ \A s \in S, u \in Sessions : WaitsFor(s, u) => u \in S )
        => \E s \in S : Running(s) /\ (Blocked(s) => Deadlocked(s))

(* Money leaves a wallet only in a step that finds it active: a freeze     *)
(* that has returned stops every later debit, also one that had already    *)
(* passed its checks somewhere else.                                       *)
OnlyActiveWalletsDebited ==
    [][\A w \in Wallets :
          ( \/ balance'[w] < balance[w]
            \/ /\ Len(ledger'[w]) > Len(ledger[w])
               /\ ledger'[w][Len(ledger'[w])].type = "debit" )
          => status[w] = "active"]_vars

(* What admin.module.ts:174 says of a freeze: "Prevents all debits and     *)
(* credits."  credit refuses closed wallets only, so this does not hold.   *)
FrozenWalletsDoNotMove ==
    [][\A w \in Wallets :
          status[w] = "frozen" => balance'[w] = balance[w]]_vars

(* The sessions implement the ledger that posts transactions atomically.   *)
Atomic == INSTANCE AtomicLedger

ImplementsAtomicLedger == Atomic!Spec

(* Every transaction ends, also when two of them lock the same wallets in  *)
(* opposite orders.                                                        *)
EveryTransactionEnds ==
    \A s \in Sessions : Running(s) ~> ~Running(s)
=============================================================================
