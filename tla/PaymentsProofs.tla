--------------------------- MODULE PaymentsProofs ---------------------------
(***************************************************************************)
(* Proofs about Payments, for any transfers, events, numbers of attempts   *)
(* and stalls, whichever of the deposits completeDeposit is repaired for:  *)
(* types, the bound on charges, and that payments implement Settlement.    *)
(***************************************************************************)
EXTENDS Payments, FiniteSetTheorems, TLAPS

(* A withdrawal's debit is in the ledger from its request on.              *)
Debited ==
    \A t \in Transfers : Withdrawal(t) =>
        Cardinality(Moved(t)) = IF submission[t] = "none" THEN 0 ELSE 1

(* Only what has been queued has a job, charges, or a status of interest.  *)
QueuedFirst ==
    \A t \in Transfers :
        /\ (job[t].state # "none" \/ Charges(t) > 0) => submission[t] = "queued"
        /\ submission[t] = "none" => status[t] = "none"

(* A job that was told of a success, or is about to credit, is right.      *)
Believed ==
    \A t \in Transfers :
        /\ job[t].result = "success" => outcomes[t].success > 0
        /\ job[t].step = "credit" => Deposit(t) /\ job[t].result = "success"

(* So is the handler of an event, which has an attempt left.               *)
Reported ==
    \A h \in Hooks :
        LET t == hook[h].transfer
        IN  /\ hook[h].step # "done" => hook[h].tries < HookAttempts
            /\ hook[h].step # "unused" =>
                  /\ t \in Transfers
                  /\ Charges(t) > 0
                  /\ hook[h].news = "success" => outcomes[t].success > 0
                  /\ hook[h].step = "set completed" =>
                        Withdrawal(t) /\ hook[h].news = "success"
                  /\ hook[h].step \in {"complete", "credit"} =>
                        Deposit(t) /\ hook[h].news = "success"

(* Each charge is paid for by an attempt or a stall, but for that of a     *)
(* handler which has neither thrown nor stalled since.                     *)
Spent(t) ==
    job[t].made + job[t].stalls +
        (IF job[t].state \in {"none", "waiting", "failing", "dead", "unmarked"} \/ At(t, "charge")
         THEN 0 ELSE 1)

Accounted ==
    \A t \in Transfers :
        /\ Charges(t) <= Spent(t)
        /\ job[t].state \notin {"failing", "dead", "unmarked"} => job[t].made < Attempts

PInv == TypeOK /\ Debited /\ QueuedFirst /\ Believed /\ Reported /\ Accounted

-----------------------------------------------------------------------------
(* Digits appended to a number make a number.                              *)
LEMMA AppendedIsNatural ==
    ASSUME NEW a \in Nat, NEW b \in Column
    PROVE  AppendDigits(a, b) \in Nat
<1> DEFINE Wide(q) == b < q /\ \A r \in PowersOfTen : b < r => q <= r
           shift == Shift(b)
<1>1. \E q \in PowersOfTen : Wide(q)
  BY MoneyAssumption DEF Column
<1>2. shift = CHOOSE q \in PowersOfTen : Wide(q)
  BY DEF Shift
<1>3. AppendDigits(a, b) = a * shift + b
  BY DEF AppendDigits
<1>4. b \in Nat
  BY MoneyAssumption DEF Column
<1> HIDE DEF Wide, shift
<1>5. shift \in Nat
  BY <1>1, <1>2, MoneyAssumption
<1>6. a * shift \in Nat
  BY <1>5
<1> QED
  BY <1>3, <1>4, <1>6

(* What a posting of a payment leaves in the wallet.                       *)
LEMMA NewBalanceIsNat ==
    ASSUME NEW bal \in Column, NEW p \in Posting, NEW st, NEW user,
           p.amount > 0, p.amount <= BigIntMax, Allowed(bal, st, p, user)
    PROVE  NewBalance(bal, p) \in Nat
<1>1. bal \in Nat /\ p.amount \in Column /\ p.type \in {"debit", "credit"} /\ p.amount \in Int
  BY MoneyAssumption DEF Posting, EntryType, Column
<1>2. CASE p.type = "debit"
  BY <1>1, <1>2 DEF NewBalance, Allowed, DebitAllowed, Available, HeldBalance
<1>3. CASE p.type = "credit"
  <2>1. AppendDigits(bal, p.amount) \in Nat /\ bal + p.amount \in Nat
    BY <1>1, AppendedIsNatural DEF Column
  <2> QED
    BY <1>3, <2>1 DEF NewBalance, ColumnPlus
<1> QED
  BY <1>1, <1>2, <1>3

(* A wallet that has a balance has the row of one credit for it.           *)
LEMMA OpeningRows ==
    ASSUME NEW w \in Wallets
    PROVE  /\ Opening[w] \in Column /\ OpeningLedger(w) \in Seq(Entry)
           /\ \A i \in 1..Len(OpeningLedger(w)) : OpeningLedger(w)[i].transferId = 0
<1> DEFINE e == [type |-> "credit", amount |-> Opening[w],
                 balanceAfter |-> Opening[w], transferId |-> 0]
<1>1. Opening[w] \in Column /\ OpeningLedger(w) \in {<<>>, <<e>>}
  BY PostingsAssumption DEF OpeningLedger
<1>2. e \in Entry /\ e.transferId = 0
  BY <1>1, MoneyAssumption DEF Entry, EntryType, Column
<1> HIDE DEF e
<1>3. /\ <<>> \in Seq(Entry) /\ <<e>> \in Seq(Entry)
      /\ Len(<<>>) = 0 /\ Len(<<e>>) = 1 /\ <<e>>[1] = e
  BY <1>2
<1>4. CASE OpeningLedger(w) = <<>>
  BY <1>1, <1>3, <1>4
<1>5. CASE OpeningLedger(w) = <<e>>
  BY <1>1, <1>2, <1>3, <1>5
<1> QED
  BY <1>1, <1>4, <1>5

(* A transfer is a deposit or a withdrawal.                                *)
LEMMA Kinds ==
    ASSUME NEW t \in Transfers
    PROVE  /\ Deposit(t) <=> ~Withdrawal(t)
           /\ t \in Nat /\ t # 0
           /\ Payment[t].amount \in Nat /\ Payment[t].amount <= BigIntMax
           /\ NetCredit(t) \in Int /\ NetCredit(t) <= BigIntMax
           /\ TotalDebit(t) \in Nat
<1>1. Payment[t] \in [kind : {"deposit", "withdrawal"}, provider : {"flutterwave", "stripe"},
                      amount : Column \ {0}, fee : TotalFees]
  BY PaymentsAssumption
<1>2. /\ Deposit(t) <=> ~Withdrawal(t)
      /\ t \in Nat /\ t # 0
      /\ Payment[t].amount \in Nat /\ Payment[t].amount <= BigIntMax
  BY <1>1, PaymentsAssumption, MoneyAssumption DEF Deposit, Withdrawal, Column
<1>3. Payment[t].fee.n \in Column /\ Payment[t].fee.n \in Nat
  BY <1>1, MoneyAssumption DEF TotalFees, Column
<1>4. NetCredit(t) \in Int /\ NetCredit(t) <= BigIntMax
  BY <1>2, <1>3, MoneyAssumption DEF NetCredit
<1>5. TotalDebit(t) \in Nat
  <2>1. /\ AppendDigits(Payment[t].amount, Payment[t].fee.n) \in Nat
        /\ Payment[t].amount + Payment[t].fee.n \in Nat
    BY <1>2, <1>3, AppendedIsNatural
  <2> QED
    BY <2>1 DEF TotalDebit, Plus, Number
<1> QED
  BY <1>2, <1>4, <1>5

(* What posts(t) does to the wallet's rows.                                *)
LEMMA PostsRows ==
    ASSUME balance \in Column, ledger \in Seq(Entry),
           NEW t \in Transfers, NEW type \in EntryType, NEW amount \in Int,
           type = "credit" => amount <= BigIntMax,
           Posts(t, type, amount)
    PROVE  /\ balance' \in Column
           /\ ledger' \in Seq(Entry)
           /\ Len(ledger') = Len(ledger) + 1
           /\ \A i \in 1..Len(ledger) : ledger'[i] = ledger[i]
           /\ ledger'[Len(ledger) + 1].transferId = t
           /\ ledger'[Len(ledger) + 1].type = type
           /\ ledger'[Len(ledger) + 1].amount = amount
<1> DEFINE p == [wallet |-> Wallet, type |-> type, amount |-> amount]
           e == [type |-> type, amount |-> amount,
                 balanceAfter |-> NewBalance(balance, p), transferId |-> t]
<1>1. /\ amount > 0
      /\ Allowed(balance, "active", p, Owner[Wallet])
      /\ NewBalance(balance, p) <= BigIntMax
      /\ balance' = NewBalance(balance, p)
      /\ ledger' = Append(ledger, e)
  BY DEF Posts
<1>2. p \in Posting /\ p.amount = amount /\ p.type = type
  BY PaymentsAssumption DEF Posting
<1>3. amount <= BigIntMax
  <2>1. CASE type = "credit"
    BY <2>1
  <2>2. CASE type = "debit"
    BY <1>1, <1>2, <2>2, MoneyAssumption
    DEF Allowed, DebitAllowed, Available, HeldBalance, Column
  <2> QED
    BY <2>1, <2>2 DEF EntryType
<1>4. NewBalance(balance, p) \in Nat
  <2> HIDE DEF p
  <2> QED
    BY <1>1, <1>2, <1>3, NewBalanceIsNat
<1>5. e \in Entry /\ e.transferId = t /\ e.type = type /\ e.amount = amount
  BY <1>4, Kinds DEF Entry
<1>6. NewBalance(balance, p) \in Column
  BY <1>1, <1>4, MoneyAssumption DEF Column
<1> HIDE DEF e, p
<1> QED
  BY <1>1, <1>5, <1>6

(* The rows a transfer's posting matches are finitely many.                *)
LEMMA MovedFinite ==
    ASSUME ledger \in Seq(Entry), NEW t \in Transfers
    PROVE  /\ Moved(t) \subseteq 1..Len(ledger)
           /\ IsFiniteSet(Moved(t))
           /\ Cardinality(Moved(t)) \in Nat
<1>1. Moved(t) \subseteq 1..Len(ledger)
  BY DEF Moved, PostingsFor
<1>2. IsFiniteSet(1..Len(ledger))
  BY FS_Interval
<1> QED
  BY <1>1, <1>2, FS_Subset, FS_CardinalityType

(* A posting of its own counts one more for the transfer, none for others. *)
LEMMA MovedGrows ==
    ASSUME balance \in Column, ledger \in Seq(Entry), NEW t \in Transfers,
           \/ Deposit(t) /\ Posts(t, "credit", NetCredit(t))
           \/ Withdrawal(t) /\ Posts(t, "debit", TotalDebit(t))
    PROVE  /\ balance' \in Column
           /\ ledger' \in Seq(Entry)
           /\ Cardinality(Moved(t)') = Cardinality(Moved(t)) + 1
           /\ \A u \in Transfers \ {t} : Moved(u)' = Moved(u)
<1> DEFINE type == IF Deposit(t) THEN "credit" ELSE "debit"
           amount == IF Deposit(t) THEN NetCredit(t) ELSE TotalDebit(t)
           n == Len(ledger)
<1>1. Posts(t, type, amount)
  BY Kinds
<1>2. type \in EntryType /\ amount \in Int /\ (type = "credit" => amount <= BigIntMax)
  BY Kinds DEF EntryType
<1>3. Moved(t) = PostingsFor(t, type, amount) /\ Moved(t)' = PostingsFor(t, type, amount)'
  BY DEF Moved
<1> HIDE DEF type, amount
<1>4. /\ balance' \in Column
      /\ ledger' \in Seq(Entry)
      /\ Len(ledger') = n + 1 /\ n \in Nat
      /\ \A i \in 1..n : ledger'[i] = ledger[i]
      /\ ledger'[n + 1].transferId = t
      /\ ledger'[n + 1].type = type
      /\ ledger'[n + 1].amount = amount
  BY <1>1, <1>2, PostsRows
<1> HIDE DEF n
<1>5. PostingsFor(t, type, amount)' = PostingsFor(t, type, amount) \union {n + 1}
  BY <1>4 DEF PostingsFor, n, type, amount, Deposit, NetCredit, TotalDebit
<1>6. n + 1 \notin PostingsFor(t, type, amount)
  BY <1>4 DEF PostingsFor, n
<1>7. Cardinality(Moved(t)') = Cardinality(Moved(t)) + 1
  <2> DEFINE S == PostingsFor(t, type, amount)
  <2>1. IsFiniteSet(S)
    BY <1>3, MovedFinite
  <2>2. Moved(t)' = S \union {n + 1} /\ n + 1 \notin S /\ Moved(t) = S
    BY <1>3, <1>5, <1>6
  <2> HIDE DEF S
  <2> QED
    BY <2>1, <2>2, FS_AddElement
<1>8. ASSUME NEW u \in Transfers \ {t}
      PROVE  Moved(u)' = Moved(u)
  <2>1. \A ty, am : PostingsFor(u, ty, am)' = PostingsFor(u, ty, am)
    BY <1>4 DEF PostingsFor, n
  <2> QED
    BY <2>1 DEF Moved
<1> QED
  BY <1>4, <1>7, <1>8

LEMMA MovedStays ==
    ASSUME UNCHANGED ledger, NEW u \in Transfers
    PROVE  Moved(u)' = Moved(u)
BY DEF Moved, PostingsFor

-----------------------------------------------------------------------------
JobRow == [state : {"none", "waiting", "active", "failing", "done", "dead", "unmarked",
                    "dropped"},
           made : 0..Attempts, stalls : 0..MaxStalls,
           step : {"none", "charge", "apply", "credit", "notify"},
           result : {"none", "success", "pending", "failed"}]

HookRow == [step : {"unused", "saved", "stranded", "queued", "set completed", "set failed",
                    "complete", "credit", "notify", "done"},
            transfer : Transfers \union {0}, news : {"none", "success", "failed", "other"},
            tries : 0..HookAttempts]

StatusType == {"none", "pending", "processing"} \union Terminal

LEMMA ChargesTyped ==
    ASSUME TypeOK, NEW t \in Transfers
    PROVE  /\ outcomes[t].success \in Nat
           /\ outcomes[t].pending \in Nat
           /\ outcomes[t].failed \in Nat
           /\ Charges(t) \in Nat
<1>1. outcomes[t] \in [success : Nat, pending : Nat, failed : Nat]
  BY DEF TypeOK
<1> QED
  BY <1>1 DEF Charges

(* A step that debits no withdrawal.                                       *)
NoDebit ==
    /\ balance' \in Column
    /\ ledger' \in Seq(Entry)
    /\ \A u \in Transfers : Withdrawal(u) => Cardinality(Moved(u))' = Cardinality(Moved(u))

LEMMA NoDebitWhenUnchanged ==
    ASSUME TypeOK, UNCHANGED <<balance, ledger>>
    PROVE  NoDebit
BY MovedStays DEF TypeOK, NoDebit

LEMMA NoDebitByCredit ==
    ASSUME TypeOK, NEW t \in Transfers, Deposit(t), CreditDeposit(t)
    PROVE  NoDebit
<1>1. Posts(t, "credit", NetCredit(t)) /\ balance \in Column /\ ledger \in Seq(Entry)
  BY DEF CreditDeposit, TypeOK
<1>2. \A u \in Transfers : Withdrawal(u) => u # t
  BY Kinds
<1> QED
  BY <1>1, <1>2, MovedGrows DEF NoDebit

LEMMA DebitedStays ==
    ASSUME Debited, NoDebit,
           \A t \in Transfers : submission'[t] = "none" <=> submission[t] = "none"
    PROVE  Debited'
BY DEF Debited, NoDebit, Withdrawal

(* What a step of a job's handler must see to: the job's new record, and   *)
(* the transfer's status.                                                  *)
SpentBy(j) ==
    j.made + j.stalls +
        (IF j.state \in {"none", "waiting", "failing", "dead", "unmarked"}
            \/ (j.state = "active" /\ j.step = "charge")
         THEN 0 ELSE 1)

LEMMA JobChange ==
    ASSUME PInv, NEW t \in Transfers, NEW j \in JobRow, NEW st \in StatusType,
           job[t].state # "none",
           job' = [job EXCEPT ![t] = j],
           status' = [status EXCEPT ![t] = st],
           NoDebit, UNCHANGED <<submission, outcomes, hook>>,
           j.result = "success" => outcomes[t].success > 0,
           j.step = "credit" => Deposit(t) /\ j.result = "success",
           Charges(t) <= SpentBy(j),
           j.state \notin {"failing", "dead", "unmarked"} => j.made < Attempts
    PROVE  PInv'
<1> USE DEF PInv
<1>1. TypeOK'
  BY DEF TypeOK, JobRow, StatusType, NoDebit
<1>2. Debited'
  BY DebitedStays
<1>3. \A u \in Transfers : /\ Charges(u)' = Charges(u)
                           /\ job'[u] = IF u = t THEN j ELSE job[u]
                           /\ status'[u] = IF u = t THEN st ELSE status[u]
                           /\ outcomes'[u] = outcomes[u]
  BY DEF Charges, TypeOK
<1>4. submission[t] = "queued"
  BY DEF QueuedFirst
<1>5. QueuedFirst'
  BY <1>3, <1>4 DEF QueuedFirst
<1>6. Believed'
  BY <1>3 DEF Believed, Deposit
<1>7. Reported'
  BY <1>3 DEF Reported, Deposit, Withdrawal
<1>8. Spent(t)' = SpentBy(j) /\ \A u \in Transfers \ {t} : Spent(u)' = Spent(u)
  BY <1>3 DEF Spent, SpentBy, At
<1>9. Accounted'
  BY <1>3, <1>8 DEF Accounted
<1> QED
  BY <1>1, <1>2, <1>5, <1>6, <1>7, <1>9

(* What a step of an event's handler must see to, if it leaves the ledger. *)
LEMMA HookChange ==
    ASSUME PInv, NEW h \in Hooks, NEW k \in HookRow,
           hook' = [hook EXCEPT ![h] = k],
           status' \in [Transfers -> StatusType],
           \A u \in Transfers : submission[u] = "none" => status'[u] = "none",
           NoDebit, UNCHANGED <<submission, job, outcomes>>,
           k.step # "done" => k.tries < HookAttempts,
           k.step # "unused" =>
              /\ k.transfer \in Transfers
              /\ Charges(k.transfer) > 0
              /\ k.news = "success" => outcomes[k.transfer].success > 0
              /\ k.step = "set completed" => Withdrawal(k.transfer) /\ k.news = "success"
              /\ k.step \in {"complete", "credit"} =>
                    Deposit(k.transfer) /\ k.news = "success"
    PROVE  PInv'
<1> USE DEF PInv
<1>1. TypeOK'
  BY DEF TypeOK, HookRow, StatusType, NoDebit
<1>2. Debited'
  BY DebitedStays
<1>3. \A u : Charges(u)' = Charges(u) /\ Spent(u)' = Spent(u)
  BY DEF Charges, Spent, At
<1>4. QueuedFirst'
  BY <1>3 DEF QueuedFirst
<1>5. Believed'
  BY DEF Believed, Deposit
<1>6. Reported'
  <2>1. \A g \in Hooks : hook'[g] = IF g = h THEN k ELSE hook[g]
    BY DEF TypeOK
  <2>2. ASSUME NEW g \in Hooks, hook'[g].step # "unused"
        PROVE  /\ hook'[g].transfer \in Transfers
               /\ Charges(hook[g].transfer)' > 0
               /\ hook'[g].news = "success" => outcomes[hook'[g].transfer].success > 0
               /\ hook'[g].step = "set completed" =>
                    Withdrawal(hook'[g].transfer) /\ hook'[g].news = "success"
               /\ hook'[g].step \in {"complete", "credit"} =>
                    Deposit(hook'[g].transfer) /\ hook'[g].news = "success"
    <3>1. CASE g = h
      BY <2>1, <2>2, <3>1 DEF Charges
    <3>2. CASE g # h
      <4>1. hook'[g] = hook[g] /\ hook[g].step # "unused"
        BY <2>1, <2>2, <3>2
      <4> QED
        BY <4>1 DEF Reported, Charges
    <3> QED
      BY <3>1, <3>2
  <2>3. \A g \in Hooks : hook'[g].step # "done" => hook'[g].tries < HookAttempts
    BY <2>1 DEF Reported
  <2> QED
    BY <2>2, <2>3 DEF Reported, Deposit, Withdrawal
<1>7. Accounted'
  BY <1>3 DEF Accounted
<1> QED
  BY <1>1, <1>2, <1>4, <1>5, <1>6, <1>7

-----------------------------------------------------------------------------
(* The handler of a job.                                                   *)
LEMMA JobTyped ==
    ASSUME PInv, NEW t \in Transfers
    PROVE  /\ job[t] \in JobRow
           /\ status[t] \in StatusType
           /\ status = [status EXCEPT ![t] = status[t]]
           /\ Charges(t) \in Nat /\ Charges(t) <= SpentBy(job[t])
           /\ job[t].state \notin {"failing", "dead", "unmarked"} => job[t].made < Attempts
           /\ job[t].result = "success" => outcomes[t].success > 0
           /\ Attempts \in Nat /\ MaxStalls \in Nat
<1>1. TypeOK /\ Accounted /\ Believed
  BY DEF PInv
<1>2. job[t] \in JobRow /\ status \in [Transfers -> StatusType]
  BY <1>1 DEF TypeOK, JobRow, StatusType
<1>3. Charges(t) \in Nat
  BY <1>1, ChargesTyped
<1> QED
  BY <1>1, <1>2, <1>3, PaymentsAssumption DEF Accounted, Believed, Spent, SpentBy, At

(* It moves on, and may credit.                                            *)
LEMMA MoveChange ==
    ASSUME PInv, NEW t \in Transfers, NEW st \in StatusType,
           NEW step \in {"apply", "credit", "notify"},
           job[t].state = "active", job[t].step # "charge", GoTo(t, step),
           status' = [status EXCEPT ![t] = st],
           NoDebit, UNCHANGED <<submission, outcomes, hook>>,
           step = "credit" => Deposit(t) /\ job[t].result = "success"
    PROVE  PInv'
<1> DEFINE j == [job[t] EXCEPT !.step = step]
<1>1. job' = [job EXCEPT ![t] = j]
  BY DEF GoTo
<1>2. j \in JobRow /\ j.result = job[t].result /\ j.step = step
  BY JobTyped DEF JobRow
<1>3. Charges(t) <= SpentBy(j) /\ j.state = "active" /\ j.made = job[t].made
  BY JobTyped DEF SpentBy, JobRow
<1> HIDE DEF j
<1> QED
  BY <1>1, <1>2, <1>3, JobTyped, JobChange

(* It leaves the worker.                                                   *)
LEMMA LeaveIs ==
    ASSUME PInv, NEW t \in Transfers,
           NEW state \in {"waiting", "failing", "done", "dropped"}
    PROVE  /\ Leave(t, state) \in JobRow
           /\ Leave(t, state).state = state
           /\ Leave(t, state).made = job[t].made
           /\ Leave(t, state).stalls = job[t].stalls
           /\ Leave(t, state).step = "none" /\ Leave(t, state).result = "none"
<1>1. job[t] \in JobRow
  BY JobTyped
<1> QED
  BY <1>1 DEF JobRow, Leave

(* Setting a field of a job's record.                                      *)
LEMMA Recounted ==
    ASSUME NEW r \in JobRow, NEW made \in 0..Attempts
    PROVE  /\ [r EXCEPT !.made = made] \in JobRow
           /\ [r EXCEPT !.made = made].made = made
           /\ [r EXCEPT !.made = made].stalls = r.stalls
           /\ [r EXCEPT !.made = made].state = r.state
           /\ [r EXCEPT !.made = made].step = r.step
           /\ [r EXCEPT !.made = made].result = r.result
BY DEF JobRow

LEMMA Restalled ==
    ASSUME NEW r \in JobRow, NEW stalls \in 0..MaxStalls
    PROVE  /\ [r EXCEPT !.stalls = stalls] \in JobRow
           /\ [r EXCEPT !.stalls = stalls].made = r.made
           /\ [r EXCEPT !.stalls = stalls].stalls = stalls
           /\ [r EXCEPT !.stalls = stalls].state = r.state
           /\ [r EXCEPT !.stalls = stalls].step = r.step
           /\ [r EXCEPT !.stalls = stalls].result = r.result
BY DEF JobRow

(* It throws.                                                              *)
LEMMA ThrowChange ==
    ASSUME PInv, NEW t \in Transfers, NEW st \in StatusType,
           job[t].state = "active", Throw(t),
           status' = [status EXCEPT ![t] = st],
           UNCHANGED <<balance, ledger, submission, outcomes, hook>>
    PROVE  PInv'
<1> DEFINE made == job[t].made + 1
           state == IF made < Attempts THEN "waiting" ELSE "failing"
           r == Leave(t, state)
           j == [r EXCEPT !.made = made]
<1>1. job' = [job EXCEPT ![t] = j]
  BY DEF Throw
<1>2. /\ job[t].made \in 0..Attempts /\ job[t].made < Attempts
      /\ job[t].stalls \in 0..MaxStalls
      /\ Charges(t) \in Nat /\ Charges(t) <= job[t].made + job[t].stalls + 1
      /\ Attempts \in Nat /\ MaxStalls \in Nat
  BY JobTyped DEF JobRow, SpentBy
<1>3. made \in 0..Attempts /\ state \in {"waiting", "failing", "done", "dropped"}
  BY <1>2
<1>4. /\ j \in JobRow
      /\ j.state = state /\ j.made = made /\ j.stalls = job[t].stalls
      /\ j.step = "none" /\ j.result = "none"
  <2> HIDE DEF state, made
  <2>1. /\ r \in JobRow /\ r.state = state /\ r.stalls = job[t].stalls
        /\ r.step = "none" /\ r.result = "none"
    BY <1>3, LeaveIs
  <2> HIDE DEF r
  <2> QED
    BY <1>2, <1>3, <2>1, Recounted
<1> HIDE DEF j
<1>5. /\ j.state \notin {"failing", "dead", "unmarked"} => j.made < Attempts
      /\ Charges(t) <= SpentBy(j)
  BY <1>2, <1>4 DEF SpentBy
<1>6. NoDebit
  BY NoDebitWhenUnchanged DEF PInv
<1> QED
  BY <1>1, <1>4, <1>5, <1>6, JobChange

(* It leaves the worker without an attempt being counted.                  *)
LEMMA LeaveChange ==
    ASSUME PInv, NEW t \in Transfers, NEW st \in StatusType, NEW j \in JobRow,
           job[t].state = "active",
           job' = [job EXCEPT ![t] = j],
           j.state \in {"waiting", "done", "dropped"}, j.made = job[t].made,
           j.stalls = IF j.state = "waiting" THEN job[t].stalls + 1 ELSE job[t].stalls,
           j.step = "none", j.result = "none",
           status' = [status EXCEPT ![t] = st],
           UNCHANGED <<balance, ledger, submission, outcomes, hook>>
    PROVE  PInv'
<1>1. /\ job[t].made \in 0..Attempts /\ job[t].made < Attempts
      /\ job[t].stalls \in 0..MaxStalls
      /\ Charges(t) \in Nat /\ Charges(t) <= job[t].made + job[t].stalls + 1
      /\ MaxStalls \in Nat
  BY JobTyped DEF JobRow, SpentBy
<1>2. j.made < Attempts /\ Charges(t) <= SpentBy(j)
  BY <1>1 DEF SpentBy
<1>3. NoDebit
  BY NoDebitWhenUnchanged DEF PInv
<1>4. /\ j.result # "success" /\ j.step # "credit"
      /\ UNCHANGED <<submission, outcomes, hook>>
      /\ job[t].state # "none"
  OBVIOUS
<1> QED
  BY <1>2, <1>3, <1>4, JobChange

LEMMA ReturnChange ==
    ASSUME PInv, NEW t \in Transfers, NEW st \in StatusType,
           job[t].state = "active", Return(t),
           status' = [status EXCEPT ![t] = st],
           UNCHANGED <<balance, ledger, submission, outcomes, hook>>
    PROVE  PInv'
<1> DEFINE j == Leave(t, "done")
<1>1. job' = [job EXCEPT ![t] = j]
  BY DEF Return
<1>2. /\ j \in JobRow /\ j.state = "done" /\ j.made = job[t].made
      /\ j.stalls = job[t].stalls /\ j.step = "none" /\ j.result = "none"
  BY LeaveIs
<1>3. job[t].stalls \in Nat
  BY JobTyped DEF JobRow
<1> HIDE DEF j
<1> QED
  BY <1>1, <1>2, <1>3, LeaveChange

LEMMA StallChange ==
    ASSUME PInv, NEW t \in Transfers, JobStalls(t)
    PROVE  PInv'
<1>1. /\ status[t] \in StatusType
      /\ status' = [status EXCEPT ![t] = status[t]]
      /\ job[t].stalls \in 0..MaxStalls /\ MaxStalls \in Nat
      /\ job[t].state = "active"
      /\ UNCHANGED <<balance, ledger, submission, outcomes, hook>>
  BY JobTyped DEF JobRow, JobStalls
<1>2. CASE job[t].stalls < MaxStalls
  <2> DEFINE r == Leave(t, "waiting")
             j == [r EXCEPT !.stalls = r.stalls + 1]
  <2>1. job' = [job EXCEPT ![t] = j]
    BY <1>2 DEF JobStalls
  <2>2. /\ r \in JobRow /\ r.state = "waiting" /\ r.made = job[t].made
        /\ r.stalls = job[t].stalls /\ r.step = "none" /\ r.result = "none"
    BY LeaveIs
  <2> HIDE DEF r
  <2>3. /\ j \in JobRow /\ j.state = "waiting" /\ j.made = job[t].made
        /\ j.stalls = job[t].stalls + 1 /\ j.step = "none" /\ j.result = "none"
    <3> DEFINE n == r.stalls + 1
    <3>1. n \in 0..MaxStalls /\ n = job[t].stalls + 1
      BY <1>1, <1>2, <2>2
    <3> HIDE DEF n
    <3>2. /\ [r EXCEPT !.stalls = n] \in JobRow
          /\ [r EXCEPT !.stalls = n].state = "waiting"
          /\ [r EXCEPT !.stalls = n].made = job[t].made
          /\ [r EXCEPT !.stalls = n].stalls = job[t].stalls + 1
          /\ [r EXCEPT !.stalls = n].step = "none"
          /\ [r EXCEPT !.stalls = n].result = "none"
      BY <2>2, <3>1, Restalled
    <3> QED
      BY <3>2 DEF n
  <2> HIDE DEF j
  <2> QED
    BY <1>1, <2>1, <2>3, LeaveChange
<1>3. CASE ~(job[t].stalls < MaxStalls)
  <2> DEFINE j == Leave(t, "dropped")
  <2>1. job' = [job EXCEPT ![t] = j]
    BY <1>3 DEF JobStalls
  <2>2. /\ j \in JobRow /\ j.state = "dropped" /\ j.made = job[t].made
        /\ j.stalls = job[t].stalls /\ j.step = "none" /\ j.result = "none"
    BY LeaveIs
  <2> HIDE DEF j
  <2> QED
    BY <1>1, <2>1, <2>2, LeaveChange
<1> QED
  BY <1>2, <1>3

(* It is taken, or given up.                                               *)
LEMMA TakeChange ==
    ASSUME PInv, NEW t \in Transfers, TakeJob(t)
    PROVE  PInv'
<1> DEFINE j == [job[t] EXCEPT !.state = "active", !.step = "charge"]
           st == IF Deposit(t) THEN "processing" ELSE status[t]
<1>1. /\ job' = [job EXCEPT ![t] = j] /\ job[t].state = "waiting"
      /\ status' = [status EXCEPT ![t] = st] /\ st \in StatusType
  BY JobTyped DEF TakeJob, SetStatus, StatusType
<1>2. /\ j \in JobRow /\ j.state = "active" /\ j.step = "charge"
      /\ j.made = job[t].made /\ j.stalls = job[t].stalls /\ j.result = job[t].result
  BY JobTyped DEF JobRow
<1>3. Charges(t) <= SpentBy(j)
  BY <1>1, <1>2, JobTyped DEF SpentBy
<1>4. NoDebit
  BY NoDebitWhenUnchanged DEF PInv, TakeJob
<1> HIDE DEF j, st
<1> QED
  BY <1>1, <1>2, <1>3, <1>4, JobTyped, JobChange DEF TakeJob

(* The listener of the last failure has run, or has been lost.             *)
LEMMA GiveUpChange ==
    ASSUME PInv, NEW t \in Transfers, NEW state \in {"dead", "unmarked"},
           NEW st \in StatusType,
           job[t].state = "failing",
           job' = [job EXCEPT ![t].state = state],
           status' = [status EXCEPT ![t] = st],
           UNCHANGED <<balance, ledger, submission, outcomes, hook>>
    PROVE  PInv'
<1> DEFINE j == [job[t] EXCEPT !.state = state]
<1>1. job' = [job EXCEPT ![t] = j]
  OBVIOUS
<1>2. /\ j \in JobRow /\ j.state = state /\ j.step = job[t].step
      /\ j.made = job[t].made /\ j.stalls = job[t].stalls /\ j.result = job[t].result
  BY JobTyped DEF JobRow
<1>3. Charges(t) <= SpentBy(j)
  BY <1>1, <1>2, JobTyped DEF SpentBy
<1>4. NoDebit
  BY NoDebitWhenUnchanged DEF PInv
<1>5. j.step = "credit" => Deposit(t) /\ j.result = "success"
  BY <1>2 DEF PInv, Believed
<1> HIDE DEF j
<1> QED
  BY <1>1, <1>2, <1>3, <1>4, <1>5, JobTyped, JobChange

-----------------------------------------------------------------------------
(* The provider's charges.                                                 *)
OutcomeRow == [success : Nat, pending : Nat, failed : Nat]

LEMMA OutcomesGrow ==
    ASSUME TypeOK, Reported, NEW t \in Transfers, NEW o \in OutcomeRow,
           outcomes' = [outcomes EXCEPT ![t] = o], UNCHANGED hook,
           outcomes[t].success <= o.success,
           Charges(t) <= o.success + o.pending + o.failed
    PROVE  /\ outcomes' \in [Transfers -> OutcomeRow]
           /\ Charges(t)' = o.success + o.pending + o.failed
           /\ outcomes'[t] = o
           /\ \A u \in Transfers \ {t} :
                 outcomes'[u] = outcomes[u] /\ Charges(u)' = Charges(u)
           /\ Reported'
<1>1. outcomes \in [Transfers -> OutcomeRow]
  BY DEF TypeOK, OutcomeRow
<1>2. \A u \in Transfers : outcomes'[u] = IF u = t THEN o ELSE outcomes[u]
  BY <1>1
<1>3. /\ outcomes' \in [Transfers -> OutcomeRow]
      /\ Charges(t)' = o.success + o.pending + o.failed
      /\ \A u \in Transfers \ {t} : Charges(u)' = Charges(u)
  BY <1>1, <1>2 DEF Charges
<1>4. ASSUME NEW u \in Transfers
      PROVE  /\ Charges(u) > 0 => Charges(u)' > 0
             /\ outcomes[u].success > 0 => outcomes'[u].success > 0
  <2>1. /\ Charges(u) \in Nat /\ outcomes[u].success \in Nat
        /\ o.success \in Nat /\ o.success + o.pending + o.failed \in Nat
    BY ChargesTyped DEF OutcomeRow
  <2>2. CASE u = t
    BY <1>2, <1>3, <2>1, <2>2
  <2>3. CASE u # t
    BY <1>2, <1>3, <2>3
  <2> QED
    BY <2>2, <2>3
<1>5. Reported'
  <2>1. ASSUME NEW h \in Hooks, hook[h].step # "unused"
        PROVE  /\ hook[h].transfer \in Transfers
               /\ Charges(hook[h].transfer)' > 0
               /\ hook[h].news = "success" => outcomes'[hook[h].transfer].success > 0
               /\ hook[h].step = "set completed" =>
                    Withdrawal(hook[h].transfer) /\ hook[h].news = "success"
               /\ hook[h].step \in {"complete", "credit"} =>
                    Deposit(hook[h].transfer) /\ hook[h].news = "success"
    <3> DEFINE u == hook[h].transfer
    <3>1. /\ u \in Transfers /\ Charges(u) > 0
          /\ hook[h].news = "success" => outcomes[u].success > 0
          /\ hook[h].step = "set completed" => Withdrawal(u) /\ hook[h].news = "success"
          /\ hook[h].step \in {"complete", "credit"} =>
                    Deposit(u) /\ hook[h].news = "success"
      BY <2>1 DEF Reported
    <3>2. /\ Charges(u)' > 0
          /\ outcomes[u].success > 0 => outcomes'[u].success > 0
      BY <1>4, <3>1 DEF Charges
    <3> QED
      BY <3>1, <3>2 DEF Charges
  <2> QED
    BY <2>1 DEF Reported, Deposit, Withdrawal
<1> QED
  BY <1>2, <1>3, <1>5

LEMMA ChargeChange ==
    ASSUME PInv, NEW t \in Transfers, NEW r \in {"success", "pending", "failed"},
           Charge(t, r)
    PROVE  PInv'
<1> DEFINE j == [job[t] EXCEPT !.step = "apply", !.result = r]
           o == [outcomes[t] EXCEPT ![r] = outcomes[t][r] + 1]
<1>1. TypeOK /\ Debited /\ QueuedFirst /\ Believed /\ Reported /\ Accounted
  BY DEF PInv
<1>2. /\ job' = [job EXCEPT ![t] = j] /\ outcomes' = [outcomes EXCEPT ![t] = o]
      /\ At(t, "charge") /\ UNCHANGED <<balance, ledger, status, submission, hook>>
  BY DEF Charge
<1>3. /\ j \in JobRow /\ j.step = "apply" /\ j.result = r
      /\ j.made = job[t].made /\ j.stalls = job[t].stalls /\ j.state = "active"
  BY <1>2, JobTyped DEF JobRow, At
<1>4. /\ o \in OutcomeRow /\ outcomes[t].success <= o.success
      /\ o.success + o.pending + o.failed = Charges(t) + 1
      /\ r = "success" => o.success > 0
  <2>1. outcomes[t] \in OutcomeRow
    BY <1>1 DEF TypeOK, OutcomeRow
  <2> QED
    BY <2>1 DEF OutcomeRow, Charges
<1> HIDE DEF j, o
<1>5. Charges(t) \in Nat
  BY <1>1, ChargesTyped
<1>6. /\ outcomes' \in [Transfers -> OutcomeRow]
      /\ Charges(t)' = Charges(t) + 1 /\ outcomes'[t] = o
      /\ \A u \in Transfers \ {t} :
            outcomes'[u] = outcomes[u] /\ Charges(u)' = Charges(u)
      /\ Reported'
  <2>1. Charges(t) <= o.success + o.pending + o.failed
    BY <1>4, <1>5
  <2> QED
    BY <1>1, <1>2, <1>4, <2>1, OutcomesGrow
<1>7. \A u \in Transfers : job'[u] = IF u = t THEN j ELSE job[u]
  BY <1>1, <1>2 DEF TypeOK
<1>8. TypeOK'
  BY <1>1, <1>2, <1>3, <1>6 DEF TypeOK, JobRow, OutcomeRow
<1>9. Debited'
  BY <1>1, <1>2, DebitedStays, NoDebitWhenUnchanged
<1>10. QueuedFirst'
  <2>1. submission[t] = "queued"
    BY <1>1, <1>2 DEF QueuedFirst, At
  <2> QED
    BY <1>1, <1>2, <1>6, <1>7, <2>1 DEF QueuedFirst
<1>11. Believed'
  BY <1>1, <1>3, <1>4, <1>6, <1>7 DEF Believed, Deposit
<1>12. Accounted'
  <2>1. /\ job[t].made < Attempts /\ Charges(t) <= job[t].made + job[t].stalls
        /\ job[t].made \in Nat /\ job[t].stalls \in Nat
    BY <1>2, JobTyped DEF At, SpentBy, JobRow
  <2>2. Spent(t)' = job[t].made + job[t].stalls + 1
    BY <1>3, <1>7 DEF Spent, At
  <2>3. \A u \in Transfers \ {t} : Spent(u)' = Spent(u)
    BY <1>7 DEF Spent, At
  <2> QED
    BY <1>1, <1>3, <1>5, <1>6, <1>7, <2>1, <2>2, <2>3 DEF Accounted
<1> QED
  BY <1>6, <1>8, <1>9, <1>10, <1>11, <1>12 DEF PInv

LEMMA SettleChange ==
    ASSUME PInv, NEW t \in Transfers, NEW r \in {"success", "failed"},
           ProviderSettles(t, r)
    PROVE  PInv'
<1> DEFINE o == [outcomes[t] EXCEPT !.pending = outcomes[t].pending - 1,
                                    ![r] = outcomes[t][r] + 1]
<1>1. TypeOK /\ Debited /\ QueuedFirst /\ Believed /\ Reported /\ Accounted
  BY DEF PInv
<1>2. /\ outcomes' = [outcomes EXCEPT ![t] = o] /\ outcomes[t].pending > 0
      /\ UNCHANGED <<balance, ledger, status, submission, job, hook>>
  BY DEF ProviderSettles
<1>3. /\ o \in OutcomeRow /\ outcomes[t].success <= o.success
      /\ o.success + o.pending + o.failed = Charges(t)
  <2>1. outcomes[t] \in OutcomeRow
    BY <1>1 DEF TypeOK, OutcomeRow
  <2>2. outcomes[t].pending - 1 \in Nat /\ outcomes[t][r] + 1 \in Nat
    BY <1>2, <2>1 DEF OutcomeRow
  <2>3. CASE r = "success"
    <3>1. /\ o \in OutcomeRow /\ o.success = outcomes[t].success + 1
          /\ o.pending = outcomes[t].pending - 1 /\ o.failed = outcomes[t].failed
      BY <2>1, <2>2, <2>3 DEF OutcomeRow
    <3> HIDE DEF o
    <3> QED
      BY <2>1, <3>1 DEF OutcomeRow, Charges
  <2>4. CASE r = "failed"
    <3>1. /\ o \in OutcomeRow /\ o.success = outcomes[t].success
          /\ o.pending = outcomes[t].pending - 1 /\ o.failed = outcomes[t].failed + 1
      BY <2>1, <2>2, <2>4 DEF OutcomeRow
    <3> HIDE DEF o
    <3> QED
      BY <2>1, <3>1 DEF OutcomeRow, Charges
  <2> QED
    BY <2>3, <2>4
<1> HIDE DEF o
<1>4. Charges(t) \in Nat /\ outcomes[t].success \in Nat /\ o.success \in Nat
  BY <1>1, <1>3, ChargesTyped DEF OutcomeRow
<1>5. /\ outcomes' \in [Transfers -> OutcomeRow]
      /\ Charges(t)' = Charges(t) /\ outcomes'[t] = o
      /\ \A u \in Transfers \ {t} :
            outcomes'[u] = outcomes[u] /\ Charges(u)' = Charges(u)
      /\ Reported'
  <2>1. Charges(t) <= o.success + o.pending + o.failed
    BY <1>3, <1>4
  <2> QED
    BY <1>1, <1>2, <1>3, <2>1, OutcomesGrow
<1>6. TypeOK'
  BY <1>1, <1>2, <1>5 DEF TypeOK, OutcomeRow
<1>7. Debited'
  BY <1>1, <1>2, DebitedStays, NoDebitWhenUnchanged
<1>8. QueuedFirst'
  BY <1>1, <1>2, <1>5 DEF QueuedFirst
<1>9. Believed'
  BY <1>1, <1>2, <1>3, <1>4, <1>5 DEF Believed, Deposit
<1>10. Accounted'
  BY <1>1, <1>2, <1>5 DEF Accounted, Spent, At
<1> QED
  BY <1>5, <1>6, <1>7, <1>8, <1>9, <1>10 DEF PInv

-----------------------------------------------------------------------------
(* The HTTP request.                                                       *)
LEMMA NotQueuedYet ==
    ASSUME PInv, NEW t \in Transfers, submission[t] # "queued"
    PROVE  job[t].state = "none" /\ Charges(t) = 0
<1>1. Charges(t) \in Nat
  BY JobTyped
<1> QED
  BY <1>1 DEF PInv, QueuedFirst

LEMMA RequestChange ==
    ASSUME PInv, NEW t \in Transfers, NEW place \in {"enqueue", "queued", "lost"},
           NEW st \in StatusType, NEW j \in JobRow,
           submission[t] # "queued",
           submission' = [submission EXCEPT ![t] = place],
           status' = [status EXCEPT ![t] = st],
           job' = [job EXCEPT ![t] = j],
           j.state \in {"none", "waiting"}, j.state = "waiting" => place = "queued",
           j.made = job[t].made, j.stalls = job[t].stalls,
           j.step = job[t].step, j.result = job[t].result,
           balance' \in Column, ledger' \in Seq(Entry), Debited',
           UNCHANGED <<outcomes, hook>>
    PROVE  PInv'
<1>1. TypeOK /\ Debited /\ QueuedFirst /\ Believed /\ Reported /\ Accounted
  BY DEF PInv
<1>2. \A u \in Transfers :
        /\ job'[u] = IF u = t THEN j ELSE job[u]
        /\ submission'[u] = IF u = t THEN place ELSE submission[u]
        /\ status'[u] = IF u = t THEN st ELSE status[u]
        /\ Charges(u)' = Charges(u)
  BY <1>1 DEF TypeOK, Charges
<1>3. TypeOK'
  BY <1>1 DEF TypeOK, JobRow, StatusType
<1>4. Charges(t) = 0 /\ job[t].state = "none"
  BY NotQueuedYet
<1>5. QueuedFirst'
  BY <1>1, <1>2, <1>4 DEF QueuedFirst
<1>6. Believed'
  BY <1>1, <1>2 DEF Believed, Deposit
<1>7. Reported'
  BY <1>1 DEF Reported, Deposit, Withdrawal, Charges
<1>8. Accounted'
  <2>1. Spent(t)' = Spent(t) /\ \A u \in Transfers \ {t} : Spent(u)' = Spent(u)
    BY <1>2, <1>4 DEF Spent, At
  <2> QED
    BY <1>1, <1>2, <1>4, <2>1 DEF Accounted
<1> QED
  BY <1>3, <1>5, <1>6, <1>7, <1>8 DEF PInv

LEMMA RequestSteps ==
    ASSUME PInv, NEW t \in Transfers,
           Submit(t) \/ Enqueue(t) \/ EnqueueFails(t)
    PROVE  PInv'
<1>1. /\ job[t] \in JobRow /\ job \in [Transfers -> JobRow]
      /\ job = [job EXCEPT ![t] = job[t]]
      /\ status[t] \in StatusType /\ status = [status EXCEPT ![t] = status[t]]
      /\ balance \in Column /\ ledger \in Seq(Entry)
      /\ submission \in [Transfers -> {"none", "enqueue", "queued", "lost"}]
  BY JobTyped DEF PInv, TypeOK, JobRow
<1>2. CASE InitiateDeposit(t)
  <2>1. /\ submission[t] = "none" /\ Deposit(t) /\ job' = job
        /\ submission' = [submission EXCEPT ![t] = "enqueue"]
        /\ status' = [status EXCEPT ![t] = "pending"] /\ "pending" \in StatusType
        /\ UNCHANGED <<balance, ledger, outcomes, hook>>
    BY <1>2 DEF InitiateDeposit, MayInitiate, Submitting, SetStatus, StatusType
  <2>2. Debited'
    <3>1. \A u \in Transfers : Withdrawal(u) => submission'[u] = submission[u]
      BY <1>1, <2>1, Kinds
    <3>2. NoDebit
      BY <2>1, NoDebitWhenUnchanged DEF PInv
    <3> QED
      BY <3>1, <3>2 DEF PInv, Debited, NoDebit, Withdrawal
  <2>3. job[t].state = "none"
    BY <2>1, NotQueuedYet
  <2> QED
    BY <1>1, <2>1, <2>2, <2>3, RequestChange
<1>3. CASE InitiateWithdrawal(t)
  <2>1. /\ submission[t] = "none" /\ Withdrawal(t) /\ job' = job
        /\ Posts(t, "debit", TotalDebit(t))
        /\ submission' = [submission EXCEPT ![t] = "enqueue"]
        /\ status' = [status EXCEPT ![t] = "processing"] /\ "processing" \in StatusType
        /\ UNCHANGED <<outcomes, hook>>
    BY <1>3 DEF InitiateWithdrawal, MayInitiate, Submitting, SetStatus, StatusType
  <2>2. /\ balance' \in Column /\ ledger' \in Seq(Entry)
        /\ Cardinality(Moved(t)') = Cardinality(Moved(t)) + 1
        /\ \A u \in Transfers \ {t} : Moved(u)' = Moved(u)
    BY <1>1, <2>1, MovedGrows
  <2>3. Debited'
    <3>1. Cardinality(Moved(t)) = 0
      BY <2>1 DEF PInv, Debited
    <3>2. submission'[t] = "enqueue"
      BY <1>1, <2>1
    <3>3. \A u \in Transfers \ {t} : submission'[u] = submission[u]
      BY <1>1, <2>1
    <3> QED
      BY <2>2, <3>1, <3>2, <3>3 DEF PInv, Debited, Withdrawal
  <2>4. job[t].state = "none"
    BY <2>1, NotQueuedYet
  <2> QED
    BY <1>1, <2>1, <2>2, <2>3, <2>4, RequestChange
<1>4. CASE Enqueue(t)
  <2> DEFINE j == [job[t] EXCEPT !.state = "waiting"]
  <2>1. /\ submission[t] = "enqueue" /\ job' = [job EXCEPT ![t] = j]
        /\ submission' = [submission EXCEPT ![t] = "queued"]
        /\ status' = [status EXCEPT ![t] = status[t]]
        /\ UNCHANGED <<balance, ledger, outcomes, hook>>
    BY <1>1, <1>4 DEF Enqueue, Submitting
  <2>2. /\ j \in JobRow /\ j.state = "waiting" /\ j.made = job[t].made
        /\ j.stalls = job[t].stalls /\ j.step = job[t].step /\ j.result = job[t].result
    BY <1>1 DEF JobRow
  <2>3. Debited'
    <3>1. \A u \in Transfers : submission'[u] = "none" <=> submission[u] = "none"
      BY <1>1, <2>1
    <3> QED
      BY <2>1, <3>1, NoDebitWhenUnchanged, DebitedStays DEF PInv
  <2> HIDE DEF j
  <2> QED
    BY <1>1, <2>1, <2>2, <2>3, RequestChange
<1>5. CASE EnqueueFails(t)
  <2>1. /\ submission[t] = "enqueue" /\ job' = job
        /\ submission' = [submission EXCEPT ![t] = "lost"]
        /\ status' = [status EXCEPT ![t] = status[t]]
        /\ UNCHANGED <<balance, ledger, outcomes, hook>>
    BY <1>1, <1>5 DEF EnqueueFails, Submitting
  <2>2. Debited'
    <3>1. \A u \in Transfers : submission'[u] = "none" <=> submission[u] = "none"
      BY <1>1, <2>1
    <3> QED
      BY <2>1, <3>1, NoDebitWhenUnchanged, DebitedStays DEF PInv
  <2>3. job[t].state = "none"
    BY <2>1, NotQueuedYet
  <2> QED
    BY <1>1, <2>1, <2>2, <2>3, RequestChange
<1> QED
  BY <1>2, <1>3, <1>4, <1>5 DEF Submit

-----------------------------------------------------------------------------
(* The handler of an event.                                                *)
LEMMA HookTyped ==
    ASSUME PInv, NEW h \in Hooks
    PROVE  /\ hook[h] \in HookRow
           /\ status \in [Transfers -> StatusType]
           /\ \A u \in Transfers : submission[u] = "none" => status[u] = "none"
           /\ hook[h].step # "done" => hook[h].tries < HookAttempts
           /\ hook[h].step # "unused" =>
                /\ hook[h].transfer \in Transfers
                /\ submission[hook[h].transfer] = "queued"
                /\ Charges(hook[h].transfer) > 0
                /\ hook[h].news = "success" => outcomes[hook[h].transfer].success > 0
                /\ hook[h].step = "set completed" =>
                        Withdrawal(hook[h].transfer) /\ hook[h].news = "success"
                /\ hook[h].step \in {"complete", "credit"} =>
                        Deposit(hook[h].transfer) /\ hook[h].news = "success"
BY DEF PInv, TypeOK, Reported, QueuedFirst, HookRow, StatusType

LEMMA HookMoves ==
    ASSUME PInv, NEW h \in Hooks, hook[h].step \notin {"unused", "done"},
           NEW step \in {"stranded", "queued", "set completed", "set failed",
                         "complete", "credit", "notify", "done"},
           HookGoes(h, step),
           step = "set completed" =>
                Withdrawal(hook[h].transfer) /\ hook[h].news = "success",
           step \in {"complete", "credit"} =>
                Deposit(hook[h].transfer) /\ hook[h].news = "success",
           NoDebit,
           \/ UNCHANGED status
           \/ \E st \in Terminal : SetStatus(hook[h].transfer, st),
           UNCHANGED <<submission, job, outcomes>>
    PROVE  PInv'
<1> DEFINE k == [hook[h] EXCEPT !.step = step]
<1>1. hook' = [hook EXCEPT ![h] = k]
  BY DEF HookGoes
<1>2. /\ k \in HookRow /\ k.step = step /\ k.tries = hook[h].tries
      /\ k.transfer = hook[h].transfer /\ k.news = hook[h].news
  BY HookTyped DEF HookRow
<1>3. /\ status' \in [Transfers -> StatusType]
      /\ \A u \in Transfers : submission[u] = "none" => status'[u] = "none"
  <2>1. CASE UNCHANGED status
    BY <2>1, HookTyped
  <2>2. CASE \E st \in Terminal : SetStatus(hook[h].transfer, st)
    <3>1. PICK st \in Terminal : status' = [status EXCEPT ![hook[h].transfer] = st]
      BY <2>2 DEF SetStatus
    <3> QED
      BY <3>1, HookTyped DEF Terminal, StatusType
  <2> QED
    BY <2>1, <2>2
<1> HIDE DEF k
<1> QED
  BY <1>1, <1>2, <1>3, HookTyped, HookChange

LEMMA HookSteps ==
    ASSUME PInv, NEW h \in Hooks,
           HookStep(h) \/ EventQueued(h) \/ EventStranded(h)
    PROVE  PInv'
<1> DEFINE t == hook[h].transfer
<1>0. ASSUME UNCHANGED <<balance, ledger>>
      PROVE  NoDebit
  BY <1>0, NoDebitWhenUnchanged DEF PInv
<1>1. CASE EventQueued(h)
  BY <1>0, <1>1, HookMoves DEF EventQueued
<1>2. CASE EventStranded(h)
  BY <1>0, <1>2, HookMoves DEF EventStranded
<1>3. CASE HookReads(h)
  <2>1. /\ Decision(h) \in {"set completed", "set failed", "complete", "done"}
        /\ Decision(h) = "set completed" => ~Deposit(t) /\ Parsed(h) = "success"
        /\ Decision(h) = "complete" => Deposit(t) /\ Parsed(h) = "success"
    BY DEF Decision
  <2>2. Parsed(h) = "success" => hook[h].news = "success"
    BY DEF Parsed
  <2>3. hook[h].step = "queued" /\ t \in Transfers
    BY <1>3, HookTyped DEF HookReads
  <2>4. ~Deposit(t) => Withdrawal(t)
    BY <2>3, Kinds
  <2> QED
    BY <1>0, <1>3, <2>1, <2>2, <2>3, <2>4, HookMoves DEF HookReads
<1>4. CASE HookSetsStatus(h)
  <2>1. \E st \in Terminal : SetStatus(hook[h].transfer, st)
    BY <1>4 DEF HookSetsStatus, Terminal
  <2> QED
    BY <1>0, <1>4, <2>1, HookMoves DEF HookSetsStatus
<1>5. CASE HookCompletesDeposit(h)
  <2> DEFINE step == IF status[t] \in CompletableFrom(t) THEN "credit" ELSE "done"
  <2>1. /\ hook[h].step = "complete" /\ HookGoes(h, step)
        /\ UNCHANGED <<balance, ledger, status, submission, job, outcomes>>
    BY <1>5 DEF HookCompletesDeposit
  <2>2. Deposit(t) /\ hook[h].news = "success"
    BY <2>1, HookTyped
  <2>3. step \in {"credit", "done"}
    OBVIOUS
  <2> HIDE DEF step
  <2> QED
    BY <1>0, <2>1, <2>2, <2>3, HookMoves
<1>6. CASE HookCredits(h)
  <2>1. /\ hook[h].step = "credit" /\ CreditDeposit(t) /\ HookGoes(h, "notify")
        /\ UNCHANGED <<submission, job, outcomes>>
    BY <1>6 DEF HookCredits
  <2>2. t \in Transfers /\ Deposit(t)
    BY <2>1, HookTyped
  <2>3. NoDebit
    BY <2>1, <2>2, NoDebitByCredit DEF PInv
  <2>4. \E st \in Terminal : SetStatus(hook[h].transfer, st)
    BY <2>1 DEF CreditDeposit, Terminal
  <2> QED
    BY <2>1, <2>3, <2>4, HookMoves
<1>7. CASE HookNotifies(h)
  BY <1>0, <1>7, HookMoves DEF HookNotifies
<1>8. CASE HookThrows(h)
  <2> DEFINE tries == hook[h].tries + 1
             step == IF tries < HookAttempts THEN "queued" ELSE "done"
             k == [hook[h] EXCEPT !.tries = tries, !.step = step]
  <2>1. /\ hook' = [hook EXCEPT ![h] = k]
        /\ hook[h].step \notin {"unused", "saved", "stranded", "done"}
        /\ UNCHANGED <<balance, ledger, status, submission, job, outcomes>>
    BY <1>8 DEF HookThrows
  <2>2. /\ tries \in 0..HookAttempts /\ step \in {"queued", "done"}
        /\ step # "done" => tries < HookAttempts
    <3>1. /\ hook[h].tries \in 0..HookAttempts /\ hook[h].tries < HookAttempts
          /\ HookAttempts \in Nat
      BY <2>1, HookTyped, PaymentsAssumption DEF HookRow
    <3> QED
      BY <3>1
  <2> HIDE DEF tries, step
  <2>3. /\ k \in HookRow /\ k.step = step /\ k.tries = tries
        /\ k.transfer = hook[h].transfer /\ k.news = hook[h].news
    BY <2>2, HookTyped DEF HookRow
  <2> HIDE DEF k
  <2>4. NoDebit
    BY <1>0, <2>1
  <2>5. /\ status' \in [Transfers -> StatusType]
        /\ \A u \in Transfers : submission[u] = "none" => status'[u] = "none"
        /\ UNCHANGED <<submission, job, outcomes>>
    BY <2>1, HookTyped
  <2>6. /\ k.transfer \in Transfers /\ Charges(k.transfer) > 0
        /\ k.news = "success" => outcomes[k.transfer].success > 0
        /\ k.step \notin {"set completed", "complete", "credit"}
        /\ k.step # "done" => k.tries < HookAttempts
    BY <2>1, <2>2, <2>3, HookTyped
  <2> QED
    BY <2>1, <2>3, <2>4, <2>5, <2>6, HookChange
<1> QED
  BY <1>1, <1>2, <1>3, <1>4, <1>5, <1>6, <1>7, <1>8 DEF HookStep

LEMMA EventChange ==
    ASSUME PInv, NEW h \in Hooks, NEW t \in Transfers,
           NEW news \in {"success", "failed", "other"}, EventArrives(h, t, news)
    PROVE  PInv'
<1> DEFINE k == [hook[h] EXCEPT !.step = "saved", !.transfer = t, !.news = news]
<1>1. /\ hook' = [hook EXCEPT ![h] = k] /\ hook[h].step = "unused"
      /\ IF news = "other" THEN Charges(t) > 0 ELSE outcomes[t][news] > 0
      /\ UNCHANGED <<balance, ledger, status, submission, job, outcomes>>
  BY DEF EventArrives
<1>2. /\ k \in HookRow /\ k.step = "saved" /\ k.transfer = t /\ k.news = news
      /\ k.tries = hook[h].tries
  BY HookTyped DEF HookRow
<1>3. Charges(t) > 0 /\ (news = "success" => outcomes[t].success > 0)
  <2>1. /\ outcomes[t].success \in Nat /\ outcomes[t].pending \in Nat
        /\ outcomes[t].failed \in Nat
    BY ChargesTyped DEF PInv
  <2>2. CASE news = "success"
    BY <1>1, <2>1, <2>2 DEF Charges
  <2>3. CASE news = "failed"
    BY <1>1, <2>1, <2>3 DEF Charges
  <2>4. CASE news = "other"
    BY <1>1, <2>4
  <2> QED
    BY <2>2, <2>3, <2>4
<1>4. NoDebit
  BY <1>1, NoDebitWhenUnchanged DEF PInv
<1>5. /\ status' \in [Transfers -> StatusType]
      /\ \A u \in Transfers : submission[u] = "none" => status'[u] = "none"
      /\ k.tries < HookAttempts
  BY <1>1, <1>2, HookTyped
<1> HIDE DEF k
<1> QED
  BY <1>1, <1>2, <1>3, <1>4, <1>5, HookChange

LEMMA JobSteps ==
    ASSUME PInv, NEW t \in Transfers, JobStep(t) \/ JobStalls(t)
    PROVE  PInv'
<1>0. /\ status[t] \in StatusType /\ status = [status EXCEPT ![t] = status[t]]
      /\ {"processing", "completed", "failed"} \subseteq StatusType
  BY JobTyped DEF StatusType, Terminal
<1>1. ASSUME UNCHANGED <<balance, ledger>>
      PROVE  NoDebit
  BY <1>1, NoDebitWhenUnchanged DEF PInv
<1>2. CASE JobCompletesDeposit(t)
  <2>1. /\ job[t].state = "active" /\ job[t].step = "apply"
        /\ Deposit(t) /\ job[t].result = "success"
        /\ status' = [status EXCEPT ![t] = status[t]]
        /\ UNCHANGED <<balance, ledger, submission, outcomes, hook>>
    BY <1>0, <1>2 DEF JobCompletesDeposit, At
  <2>2. CASE GoTo(t, "credit")
    BY <1>0, <1>1, <2>1, <2>2, MoveChange
  <2>3. CASE Return(t)
    BY <1>0, <2>1, <2>3, ReturnChange
  <2> QED
    BY <1>2, <2>2, <2>3 DEF JobCompletesDeposit
<1>3. CASE JobLeavesPending(t)
  BY <1>0, <1>3, ReturnChange DEF JobLeavesPending, At, SetStatus
<1>4. CASE JobFailsDeposit(t)
  BY <1>0, <1>4, ThrowChange DEF JobFailsDeposit, At, SetStatus
<1>5. CASE JobCompletesWithdrawal(t)
  BY <1>0, <1>1, <1>5, MoveChange DEF JobCompletesWithdrawal, At, SetStatus
<1>6. CASE JobFailsWithdrawal(t)
  BY <1>0, <1>6, ThrowChange DEF JobFailsWithdrawal, At, SetStatus
<1>7. CASE JobCredits(t)
  <2>1. /\ job[t].state = "active" /\ job[t].step = "credit" /\ CreditDeposit(t)
        /\ GoTo(t, "notify") /\ status' = [status EXCEPT ![t] = "completed"]
        /\ UNCHANGED <<submission, outcomes, hook>>
    BY <1>7 DEF JobCredits, At, CreditDeposit, SetStatus
  <2>2. NoDebit
    BY <2>1, NoDebitByCredit DEF PInv, Believed
  <2> QED
    BY <1>0, <2>1, <2>2, MoveChange
<1>8. CASE JobNotifies(t)
  BY <1>0, <1>8, ReturnChange DEF JobNotifies, At
<1>9. CASE JobThrows(t)
  BY <1>0, <1>9, ThrowChange DEF JobThrows
<1>10. CASE OnFailed(t)
  BY <1>0, <1>10, GiveUpChange DEF OnFailed, SetStatus
<1>11. CASE OnFailedLost(t)
  BY <1>0, <1>11, GiveUpChange DEF OnFailedLost
<1> QED
  BY <1>2, <1>3, <1>4, <1>5, <1>6, <1>7, <1>8, <1>9, <1>10, <1>11,
     TakeChange, ChargeChange, StallChange DEF JobStep

LEMMA NothingMoved ==
    ASSUME Init, NEW t \in Transfers
    PROVE  Moved(t) = {}
<1>1. \A i \in 1..Len(ledger) : ledger[i].transferId = 0
  BY OpeningRows, PaymentsAssumption DEF Init
<1> QED
  BY <1>1, Kinds DEF Moved, PostingsFor

LEMMA PInvInitially == Init => PInv
<1> SUFFICES ASSUME Init PROVE PInv
  OBVIOUS
<1>1. /\ balance \in Column /\ ledger \in Seq(Entry)
  BY OpeningRows, PaymentsAssumption DEF Init
<1>2. TypeOK
  BY <1>1, PaymentsAssumption DEF Init, TypeOK, NoJob, NoCharge, NoEvent
<1>3. ASSUME NEW t \in Transfers
      PROVE  Cardinality(Moved(t)) = 0 /\ Charges(t) = 0 /\ Spent(t) = 0
  <2>1. Moved(t) = {}
    BY NothingMoved
  <2> QED
    BY <2>1, FS_EmptySet DEF Init, Charges, Spent, NoJob, NoCharge, At
<1>4. /\ \A t \in Transfers : /\ submission[t] = "none" /\ status[t] = "none"
                               /\ job[t] = NoJob
      /\ \A h \in Hooks : hook[h] = NoEvent
  BY DEF Init
<1>5. Debited /\ QueuedFirst
  BY <1>3, <1>4 DEF Debited, QueuedFirst, NoJob
<1>6. Believed /\ Reported
  <2>1. Believed
    BY <1>4 DEF Believed, NoJob
  <2>2. HookAttempts > 0
    BY PaymentsAssumption
  <2>3. \A h \in Hooks : hook[h].step = "unused" /\ hook[h].tries = 0
    BY <1>4 DEF NoEvent
  <2> QED
    BY <2>1, <2>2, <2>3 DEF Reported
<1>7. Accounted
  BY <1>3, <1>4, PaymentsAssumption DEF Accounted, NoJob
<1> QED
  BY <1>2, <1>5, <1>6, <1>7 DEF PInv

LEMMA PInvStep == PInv /\ [Next]_vars => PInv'
<1> SUFFICES ASSUME PInv, [Next]_vars PROVE PInv'
  OBVIOUS
<1>1. CASE UNCHANGED vars
  <2>1. TypeOK' /\ Believed'
    BY <1>1 DEF vars, PInv, TypeOK, Believed, Deposit
  <2>2. Debited'
    BY <1>1, NoDebitWhenUnchanged, DebitedStays DEF vars, PInv
  <2>3. QueuedFirst'
    BY <1>1 DEF vars, PInv, QueuedFirst, Charges
  <2>4. Reported'
    BY <1>1 DEF vars, PInv, Reported, Charges, Deposit, Withdrawal
  <2>5. Accounted'
    BY <1>1 DEF vars, PInv, Accounted, Charges, Spent, At
  <2> QED
    BY <2>1, <2>2, <2>3, <2>4, <2>5 DEF PInv
<1>2. CASE Next
  BY <1>2, RequestSteps, JobSteps, SettleChange, HookSteps, EventChange DEF Next
<1> QED
  BY <1>1, <1>2

THEOREM Invariance == Spec => []PInv
BY PInvInitially, PInvStep, PTL DEF Spec

(* Whatever happens, the variables keep their types and the balance is     *)
(* never negative.                                                         *)
THEOREM PaymentsTyped == Spec => []TypeOK
BY Invariance, PTL DEF PInv

LEMMA AccountedBounds == PInv => ChargesBounded
<1> SUFFICES ASSUME PInv, NEW t \in Transfers
             PROVE  Charges(t) <= Attempts + MaxStalls
  BY DEF ChargesBounded
<1>1. /\ job[t].made \in 0..Attempts /\ job[t].stalls \in 0..MaxStalls
      /\ Charges(t) \in Nat /\ Charges(t) <= SpentBy(job[t])
      /\ job[t].state \notin {"failing", "dead", "unmarked"} => job[t].made < Attempts
      /\ Attempts \in Nat /\ MaxStalls \in Nat
  BY JobTyped DEF JobRow
<1> QED
  BY <1>1 DEF SpentBy

(* For any number of attempts and stalls, the provider is asked at most    *)
(* Attempts + MaxStalls times for a transfer.                              *)
THEOREM ChargesAreBounded == Spec => []ChargesBounded
BY Invariance, AccountedBounds, PTL

-----------------------------------------------------------------------------
(* What Settlement sees of the payments.                                   *)
MovedSeen == [t \in Transfers |-> Cardinality(Moved(t))]
AskedSeen == {t \in Transfers : Charges(t) > 0}
SettledSeen == {t \in Transfers : outcomes[t].success > 0}
DoneSeen == {t \in Transfers : status[t] = "completed"}
seen == <<MovedSeen, AskedSeen, SettledSeen, DoneSeen>>

(* The abstract actions, in terms of what is seen.                         *)
LEMMA SeenActions ==
    ASSUME NEW t \in Transfers
    PROVE  /\ Settled!Debit(t) <=>
                /\ Withdrawal(t) /\ MovedSeen[t] = 0
                /\ MovedSeen' = [MovedSeen EXCEPT ![t] = @ + 1]
                /\ UNCHANGED <<AskedSeen, SettledSeen, DoneSeen>>
           /\ Settled!Ask(t) <=>
                /\ Withdrawal(t) => MovedSeen[t] = 1
                /\ AskedSeen' = AskedSeen \union {t}
                /\ SettledSeen' \in {SettledSeen, SettledSeen \union {t}}
                /\ UNCHANGED <<MovedSeen, DoneSeen>>
           /\ Settled!Settle(t) <=>
                /\ t \in AskedSeen
                /\ SettledSeen' = SettledSeen \union {t}
                /\ UNCHANGED <<MovedSeen, AskedSeen, DoneSeen>>
           /\ Settled!Complete(t) <=>
                /\ t \in SettledSeen
                /\ IF Withdrawal(t) THEN UNCHANGED MovedSeen
                   ELSE MovedSeen' = [MovedSeen EXCEPT ![t] = @ + 1]
                /\ DoneSeen' = DoneSeen \union {t}
                /\ UNCHANGED <<AskedSeen, SettledSeen>>
           /\ Settled!Revoke(t) <=>
                /\ DoneSeen' = DoneSeen \ {t}
                /\ UNCHANGED <<MovedSeen, AskedSeen, SettledSeen>>
<1>1. t \in {u \in Transfers : Withdrawal(u)} <=> Withdrawal(t)
  OBVIOUS
<1> QED
  BY <1>1 DEF Settled!Debit, Settled!Ask, Settled!Settle, Settled!Complete, Settled!Revoke,
              Settled!Posts, MovedSeen, AskedSeen, SettledSeen, DoneSeen

(* A step of the payments, as it is seen.                                  *)
SeenStep ==
    \/ \E t \in Transfers : \/ Settled!Debit(t) \/ Settled!Ask(t) \/ Settled!Settle(t)
                            \/ Settled!Complete(t) \/ Settled!Revoke(t)
    \/ UNCHANGED seen

LEMMA LedgerKept ==
    ASSUME UNCHANGED ledger
    PROVE  UNCHANGED MovedSeen
BY MovedStays DEF MovedSeen

LEMMA ChargesKept ==
    ASSUME UNCHANGED outcomes
    PROVE  UNCHANGED <<AskedSeen, SettledSeen>>
BY DEF AskedSeen, SettledSeen, Charges

LEMMA StatusKept ==
    ASSUME UNCHANGED status
    PROVE  UNCHANGED DoneSeen
BY DEF DoneSeen

LEMMA StatusSeen ==
    ASSUME PInv, NEW t \in Transfers, NEW st, SetStatus(t, st)
    PROVE  DoneSeen' = IF st = "completed" THEN DoneSeen \union {t} ELSE DoneSeen \ {t}
<1>1. \A u \in Transfers : status'[u] = IF u = t THEN st ELSE status[u]
  BY DEF PInv, TypeOK, SetStatus
<1> QED
  BY <1>1 DEF DoneSeen

LEMMA PostingSeen ==
    ASSUME PInv, NEW t \in Transfers,
           \/ Deposit(t) /\ Posts(t, "credit", NetCredit(t))
           \/ Withdrawal(t) /\ Posts(t, "debit", TotalDebit(t))
    PROVE  MovedSeen' = [MovedSeen EXCEPT ![t] = @ + 1]
<1>1. /\ Cardinality(Moved(t)') = Cardinality(Moved(t)) + 1
      /\ \A u \in Transfers \ {t} : Moved(u)' = Moved(u)
  BY MovedGrows DEF PInv, TypeOK
<1> QED
  BY <1>1 DEF MovedSeen

(* A step that sets one status, without a posting or a charge.             *)
LEMMA StatusStep ==
    ASSUME PInv, NEW t \in Transfers, NEW st, SetStatus(t, st),
           UNCHANGED <<ledger, outcomes>>,
           st = "completed" => Withdrawal(t) /\ outcomes[t].success > 0
    PROVE  SeenStep
<1>1. UNCHANGED <<MovedSeen, AskedSeen, SettledSeen>>
  BY LedgerKept, ChargesKept
<1>2. CASE st = "completed"
  <2>1. t \in SettledSeen
    BY <1>2 DEF SettledSeen
  <2> QED
    BY <1>1, <1>2, <2>1, StatusSeen, SeenActions DEF SeenStep
<1>3. CASE st # "completed"
  BY <1>1, <1>3, StatusSeen, SeenActions DEF SeenStep
<1> QED
  BY <1>2, <1>3

LEMMA CreditStep ==
    ASSUME PInv, NEW t \in Transfers, Deposit(t), CreditDeposit(t),
           UNCHANGED outcomes, outcomes[t].success > 0
    PROVE  SeenStep
<1>1. MovedSeen' = [MovedSeen EXCEPT ![t] = @ + 1]
  BY PostingSeen DEF CreditDeposit
<1>2. DoneSeen' = DoneSeen \union {t}
  BY StatusSeen DEF CreditDeposit
<1>3. t \in SettledSeen
  BY DEF SettledSeen
<1> QED
  BY <1>1, <1>2, <1>3, Kinds, ChargesKept, SeenActions DEF SeenStep

LEMMA QuietStep ==
    ASSUME UNCHANGED <<ledger, outcomes, status>>
    PROVE  SeenStep
BY LedgerKept, ChargesKept, StatusKept DEF SeenStep, seen

LEMMA ChargeStep ==
    ASSUME PInv, NEW t \in Transfers, NEW r \in {"success", "pending", "failed"},
           Charge(t, r)
    PROVE  SeenStep
<1>1. /\ UNCHANGED <<ledger, status>> /\ At(t, "charge")
      /\ outcomes' = [outcomes EXCEPT ![t][r] = outcomes[t][r] + 1]
  BY DEF Charge
<1>2. outcomes \in [Transfers -> OutcomeRow]
  BY DEF PInv, TypeOK, OutcomeRow
<1>3. /\ Charges(t)' > 0
      /\ outcomes'[t].success =
            IF r = "success" THEN outcomes[t].success + 1 ELSE outcomes[t].success
      /\ \A u \in Transfers \ {t} : outcomes'[u] = outcomes[u]
  BY <1>1, <1>2 DEF OutcomeRow, Charges
<1>4. \A u \in Transfers \ {t} : Charges(u)' = Charges(u)
  BY <1>3 DEF Charges
<1>5. outcomes[t].success \in Nat
  BY <1>2 DEF OutcomeRow
<1>6. AskedSeen' = AskedSeen \union {t}
  BY <1>3, <1>4 DEF AskedSeen
<1>7. SettledSeen' \in {SettledSeen, SettledSeen \union {t}}
  <2>1. CASE r = "success"
    BY <1>3, <1>5, <2>1 DEF SettledSeen
  <2>2. CASE r # "success"
    BY <1>3, <2>2 DEF SettledSeen
  <2> QED
    BY <2>1, <2>2
<1>8. Withdrawal(t) => MovedSeen[t] = 1
  BY <1>1 DEF PInv, QueuedFirst, Debited, MovedSeen, At
<1> QED
  BY <1>1, <1>6, <1>7, <1>8, LedgerKept, StatusKept, SeenActions DEF SeenStep

LEMMA SettleStep ==
    ASSUME PInv, NEW t \in Transfers, NEW r \in {"success", "failed"},
           ProviderSettles(t, r)
    PROVE  SeenStep
<1>1. /\ UNCHANGED <<ledger, status>> /\ outcomes[t].pending > 0
      /\ outcomes' = [outcomes EXCEPT ![t].pending = @ - 1, ![t][r] = @ + 1]
  BY DEF ProviderSettles
<1>2. outcomes \in [Transfers -> OutcomeRow] /\ outcomes[t] \in OutcomeRow
  BY DEF PInv, TypeOK, OutcomeRow
<1>3. /\ outcomes'[t].success =
            IF r = "success" THEN outcomes[t].success + 1 ELSE outcomes[t].success
      /\ outcomes'[t].failed =
            IF r = "failed" THEN outcomes[t].failed + 1 ELSE outcomes[t].failed
      /\ outcomes'[t].pending = outcomes[t].pending - 1
      /\ \A u \in Transfers \ {t} : outcomes'[u] = outcomes[u]
  BY <1>1, <1>2 DEF OutcomeRow
<1>4. /\ outcomes[t].success \in Nat /\ outcomes[t].failed \in Nat
      /\ outcomes[t].pending \in Nat
  BY <1>2 DEF OutcomeRow
<1>5. /\ Charges(t)' = Charges(t) /\ Charges(t) > 0
      /\ \A u \in Transfers \ {t} : Charges(u)' = Charges(u)
  <2>1. /\ outcomes'[t].success + outcomes'[t].pending + outcomes'[t].failed =
                outcomes[t].success + outcomes[t].pending + outcomes[t].failed
        /\ outcomes[t].success + outcomes[t].pending + outcomes[t].failed > 0
    <3>1. outcomes[t].pending > 0
      BY <1>1
    <3>2. CASE r = "success"
      BY <1>3, <1>4, <3>1, <3>2
    <3>3. CASE r = "failed"
      BY <1>3, <1>4, <3>1, <3>3
    <3> QED
      BY <3>2, <3>3
  <2> QED
    BY <1>3, <2>1 DEF Charges
<1>6. UNCHANGED AskedSeen /\ t \in AskedSeen
  BY <1>5 DEF AskedSeen
<1>7. UNCHANGED <<MovedSeen, DoneSeen>>
  BY <1>1, LedgerKept, StatusKept
<1>8. CASE r = "success"
  <2>1. SettledSeen' = SettledSeen \union {t}
    BY <1>3, <1>4, <1>8 DEF SettledSeen
  <2> QED
    BY <1>6, <1>7, <2>1, SeenActions DEF SeenStep
<1>9. CASE r = "failed"
  <2>1. UNCHANGED SettledSeen
    BY <1>3, <1>4, <1>9 DEF SettledSeen
  <2> QED
    BY <1>6, <1>7, <2>1 DEF SeenStep, seen
<1> QED
  BY <1>8, <1>9

LEMMA RequestSeen ==
    ASSUME PInv, NEW t \in Transfers,
           Submit(t) \/ Enqueue(t) \/ EnqueueFails(t)
    PROVE  SeenStep
<1>1. CASE InitiateDeposit(t)
  BY <1>1, StatusStep DEF InitiateDeposit
<1>2. CASE InitiateWithdrawal(t)
  <2>1. /\ Withdrawal(t) /\ submission[t] = "none" /\ SetStatus(t, "processing")
        /\ Posts(t, "debit", TotalDebit(t)) /\ UNCHANGED outcomes
    BY <1>2 DEF InitiateWithdrawal, MayInitiate
  <2>2. MovedSeen[t] = 0 /\ MovedSeen' = [MovedSeen EXCEPT ![t] = @ + 1]
    BY <2>1, PostingSeen DEF PInv, Debited, MovedSeen
  <2>3. DoneSeen' = DoneSeen
    <3>1. t \notin DoneSeen
      BY <2>1 DEF PInv, QueuedFirst, DoneSeen
    <3> QED
      BY <2>1, <3>1, StatusSeen
  <2> QED
    BY <2>1, <2>2, <2>3, ChargesKept, SeenActions DEF SeenStep
<1>3. CASE Enqueue(t) \/ EnqueueFails(t)
  BY <1>3, QuietStep DEF Enqueue, EnqueueFails
<1> QED
  BY <1>1, <1>2, <1>3 DEF Submit

LEMMA JobSeen ==
    ASSUME PInv, NEW t \in Transfers, JobStep(t) \/ JobStalls(t)
    PROVE  SeenStep
<1>1. CASE TakeJob(t)
  <2>1. UNCHANGED <<ledger, outcomes>> /\ (SetStatus(t, "processing") \/ UNCHANGED status)
    BY <1>1 DEF TakeJob
  <2> QED
    BY <2>1, StatusStep, QuietStep
<1>2. CASE JobLeavesPending(t)
  BY <1>2, StatusStep DEF JobLeavesPending
<1>3. CASE JobFailsDeposit(t)
  BY <1>3, StatusStep DEF JobFailsDeposit
<1>4. CASE JobFailsWithdrawal(t)
  BY <1>4, StatusStep DEF JobFailsWithdrawal
<1>5. CASE OnFailed(t) \/ OnFailedLost(t)
  BY <1>5, StatusStep, QuietStep DEF OnFailed, OnFailedLost
<1>6. CASE JobCompletesWithdrawal(t)
  <2>1. outcomes[t].success > 0
    BY <1>6 DEF JobCompletesWithdrawal, PInv, Believed
  <2> QED
    BY <1>6, <2>1, StatusStep DEF JobCompletesWithdrawal
<1>7. CASE JobCredits(t)
  <2>1. Deposit(t) /\ outcomes[t].success > 0
    BY <1>7 DEF JobCredits, At, PInv, Believed
  <2> QED
    BY <1>7, <2>1, CreditStep DEF JobCredits
<1>8. CASE JobCompletesDeposit(t) \/ JobNotifies(t) \/ JobThrows(t) \/ JobStalls(t)
  BY <1>8, QuietStep DEF JobCompletesDeposit, JobNotifies, JobThrows, JobStalls
<1> QED
  BY <1>1, <1>2, <1>3, <1>4, <1>5, <1>6, <1>7, <1>8, ChargeStep DEF JobStep

LEMMA HookSeen ==
    ASSUME PInv, NEW h \in Hooks,
           HookStep(h) \/ EventQueued(h) \/ EventStranded(h)
    PROVE  SeenStep
<1> DEFINE t == hook[h].transfer
<1>1. CASE HookSetsStatus(h)
  <2>1. /\ hook[h].step \in {"set completed", "set failed"}
        /\ \/ hook[h].step = "set completed" /\ SetStatus(t, "completed")
           \/ SetStatus(t, "failed")
        /\ UNCHANGED <<ledger, outcomes>>
    BY <1>1 DEF HookSetsStatus
  <2>2. /\ t \in Transfers
        /\ hook[h].step = "set completed" => Withdrawal(t) /\ outcomes[t].success > 0
    BY <2>1, HookTyped
  <2> HIDE DEF t
  <2> QED
    BY <2>1, <2>2, StatusStep
<1>2. CASE HookCredits(h)
  <2>1. hook[h].step = "credit" /\ CreditDeposit(t) /\ UNCHANGED outcomes
    BY <1>2 DEF HookCredits
  <2>2. t \in Transfers /\ Deposit(t) /\ outcomes[t].success > 0
    BY <2>1, HookTyped
  <2> HIDE DEF t
  <2> QED
    BY <2>1, <2>2, CreditStep
<1>3. ASSUME UNCHANGED <<ledger, outcomes, status>> PROVE SeenStep
  BY <1>3, QuietStep
<1> QED
  BY <1>1, <1>2, <1>3
  DEF HookStep, HookReads, HookCompletesDeposit, HookNotifies, HookThrows,
      EventQueued, EventStranded

LEMMA StepIsSeen == PInv /\ [Next]_vars => [Settled!Next]_(Settled!settlementVars)
<1> SUFFICES ASSUME PInv, [Next]_vars PROVE SeenStep
  <2>1. UNCHANGED seen => UNCHANGED Settled!settlementVars
    BY DEF seen, Settled!settlementVars, MovedSeen, AskedSeen, SettledSeen, DoneSeen
  <2> QED
    BY <2>1 DEF SeenStep, Settled!Next
<1>1. CASE UNCHANGED vars
  BY <1>1, QuietStep DEF vars
<1>2. ASSUME NEW h \in Hooks, NEW t \in Transfers,
             NEW news \in {"success", "failed", "other"}, EventArrives(h, t, news)
      PROVE  SeenStep
  BY <1>2, QuietStep DEF EventArrives
<1>3. CASE Next
  BY <1>2, <1>3, RequestSeen, JobSeen, SettleStep, HookSeen DEF Next
<1> QED
  BY <1>1, <1>3

LEMMA InitIsSeen == Init => Settled!Init
<1> SUFFICES ASSUME Init PROVE Settled!Init
  OBVIOUS
<1>1. \A t \in Transfers : /\ Cardinality(Moved(t)) = 0 /\ Charges(t) = 0
                           /\ outcomes[t].success = 0 /\ status[t] = "none"
  BY NothingMoved, FS_EmptySet DEF Init, NoCharge, Charges
<1> QED
  BY <1>1 DEF Settled!Init

(* However requests, attempts, stalls, the listener and events interleave, *)
(* payments do what Settlement allows, and nothing else: what it promises  *)
(* (PaymentsAreSafe) they keep.                                            *)
THEOREM PaymentsImplementSettlement == Spec => ImplementsSettlement
BY Invariance, InitIsSeen, StepIsSeen, PTL DEF Spec, ImplementsSettlement, Settled!Spec

-----------------------------------------------------------------------------
(* Settlement is safe by itself: what it promises follows from its actions. *)
Settling == Settled!Types /\ Settled!PaidOutOnceDebited /\ Settled!CompletedIsBacked

Safe(mv, as, st, dn) ==
    /\ mv \in [Transfers -> Nat]
    /\ as \subseteq Transfers /\ st \subseteq as /\ dn \subseteq st
    /\ \A t \in Transfers : Withdrawal(t) => mv[t] <= 1 /\ (t \in as => mv[t] = 1)
    /\ \A t \in dn : mv[t] > 0

LEMMA SettlingSeen == Settling <=> Safe(MovedSeen, AskedSeen, SettledSeen, DoneSeen)
<1>1. \A t \in Transfers : t \in {u \in Transfers : Withdrawal(u)} <=> Withdrawal(t)
  OBVIOUS
<1> QED
  BY <1>1 DEF Settling, Settled!Types, Settled!PaidOutOnceDebited, Settled!CompletedIsBacked,
              MovedSeen, AskedSeen, SettledSeen, DoneSeen, Safe

LEMMA SettlingNext ==
    ASSUME Safe(MovedSeen', AskedSeen', SettledSeen', DoneSeen')
    PROVE  Settling'
<1>1. (Settling <=> Safe(MovedSeen, AskedSeen, SettledSeen, DoneSeen))'
  BY SettlingSeen, PTL
<1> QED
  BY <1>1

LEMMA SettlingInitially == Settled!Init => Settling
<1> SUFFICES ASSUME Settled!Init PROVE Settling
  OBVIOUS
<1>1. /\ MovedSeen = [t \in Transfers |-> 0]
      /\ AskedSeen = {} /\ SettledSeen = {} /\ DoneSeen = {}
  BY DEF Settled!Init, MovedSeen, AskedSeen, SettledSeen, DoneSeen
<1> QED
  BY <1>1, SettlingSeen DEF Safe

LEMMA SettlingStep == Settling /\ [Settled!Next]_(Settled!settlementVars) => Settling'
<1> SUFFICES ASSUME Settling, [Settled!Next]_(Settled!settlementVars)
             PROVE  Settling'
  OBVIOUS
<1>1. ASSUME NEW t \in Transfers, Settled!Debit(t)
      PROVE  Settling'
  BY <1>1, SeenActions, SettlingSeen, SettlingNext DEF Safe
<1>2. ASSUME NEW t \in Transfers, Settled!Ask(t)
      PROVE  Settling'
  BY <1>2, SeenActions, SettlingSeen, SettlingNext DEF Safe
<1>3. ASSUME NEW t \in Transfers, Settled!Settle(t)
      PROVE  Settling'
  BY <1>3, SeenActions, SettlingSeen, SettlingNext DEF Safe
<1>4. ASSUME NEW t \in Transfers, Settled!Complete(t)
      PROVE  Settling'
  BY <1>4, SeenActions, SettlingSeen, SettlingNext DEF Safe
<1>5. ASSUME NEW t \in Transfers, Settled!Revoke(t)
      PROVE  Settling'
  BY <1>5, SeenActions, SettlingSeen, SettlingNext DEF Safe
<1>6. CASE UNCHANGED Settled!settlementVars
  BY <1>6, SettlingSeen, SettlingNext DEF Settled!settlementVars, MovedSeen, AskedSeen, SettledSeen, DoneSeen
<1> QED
  BY <1>1, <1>2, <1>3, <1>4, <1>5, <1>6 DEF Settled!Next

(* The provider is asked to pay out only what was debited, once, and what  *)
(* reads COMPLETED has been settled and posted.                            *)
THEOREM PaymentsAreSafe == Spec => [](Settled!PaidOutOnceDebited /\ Settled!CompletedIsBacked)
BY PaymentsImplementSettlement, SettlingInitially, SettlingStep, PTL
DEF ImplementsSettlement, Settled!Spec, Settling

-----------------------------------------------------------------------------
(* The handler of a withdrawal that has nothing left to decide has decided. *)
Deciding(j, st) ==
    j.state \in {"done", "dead"} \/ (j.state = "active" /\ j.step = "notify")
        => st \in Terminal

Decided == \A t \in Transfers : Withdrawal(t) => Deciding(job[t], status[t])

(* A handler that runs is at one of its statements.                        *)
Placed == \A t \in Transfers : job[t].state = "active" => job[t].step # "none"

LEMMA StatementsCounted ==
    ASSUME NEW j \in JobRow
    PROVE  /\ StatementsLeft(j) \in 0..6
           /\ j.state = "waiting" => StatementsLeft(j) = 6
           /\ j.state = "active" /\ j.step = "charge" => StatementsLeft(j) = 5
           /\ j.state = "active" /\ j.step = "apply" => StatementsLeft(j) = 4
           /\ j.state = "active" /\ j.step = "credit" => StatementsLeft(j) = 3
           /\ j.state = "active" /\ j.step = "notify" => StatementsLeft(j) = 2
           /\ j.state = "active" /\ j.step # "none" => StatementsLeft(j) >= 2
           /\ j.state = "failing" => StatementsLeft(j) = 1
           /\ j.state \in {"none", "done", "dead", "unmarked", "dropped"} => StatementsLeft(j) = 0
<1>1. j.state = "active" => j.step \in {"none", "charge", "apply", "credit", "notify"}
  BY DEF JobRow
<1> QED
  BY <1>1 DEF StatementsLeft, JobRow

(* An attempt or a stall less outweighs every statement.                   *)
LEMMA Nearer ==
    ASSUME NEW i \in JobRow, NEW j \in JobRow,
           \/ /\ j.made = i.made /\ j.stalls = i.stalls
              /\ StatementsLeft(j) < StatementsLeft(i)
           \/ /\ j.made + j.stalls = i.made + i.stalls + 1
              /\ StatementsLeft(i) >= 1
    PROVE  Left(j) < Left(i)
<1>1. /\ i.made \in Nat /\ i.stalls \in Nat /\ j.made \in Nat /\ j.stalls \in Nat
      /\ Attempts \in Nat /\ MaxStalls \in Nat
  BY PaymentsAssumption DEF JobRow
<1>2. StatementsLeft(i) \in 0..6 /\ StatementsLeft(j) \in 0..6
  BY StatementsCounted
<1> QED
  BY <1>1, <1>2 DEF Left

(* What has to be seen of a step of a job's handler.                       *)
LEMMA JobGoes ==
    ASSUME PInv, Placed, NEW t \in Transfers, NEW j \in JobRow, NEW st,
           job' = [job EXCEPT ![t] = j], status' = [status EXCEPT ![t] = st],
           \/ /\ j.made = job[t].made /\ j.stalls = job[t].stalls
              /\ StatementsLeft(j) < StatementsLeft(job[t])
           \/ /\ j.made + j.stalls = job[t].made + job[t].stalls + 1
              /\ job[t].state = "active",
           j.state = "active" => j.step # "none",
           Withdrawal(t) => Deciding(j, st)
    PROVE  /\ \A u \in Transfers : job'[u] # job[u] => Left(job'[u]) < Left(job[u])
           /\ Placed'
           /\ Decided => Decided'
<1>1. /\ job[t] \in JobRow
      /\ \A u \in Transfers : job'[u] = IF u = t THEN j ELSE job[u]
      /\ \A u \in Transfers : status'[u] = IF u = t THEN st ELSE status[u]
  BY JobTyped DEF PInv, TypeOK
<1>2. job[t].state = "active" => StatementsLeft(job[t]) >= 1
  <2>1. job[t].state = "active" => StatementsLeft(job[t]) >= 2
    BY <1>1, StatementsCounted DEF Placed
  <2>2. StatementsLeft(job[t]) \in 0..6
    BY <1>1, StatementsCounted
  <2> QED
    BY <2>1, <2>2
<1>3. Left(j) < Left(job[t])
  BY <1>1, <1>2, Nearer
<1>4. Placed'
  BY <1>1 DEF Placed
<1>5. Decided => Decided'
  BY <1>1 DEF Decided, Withdrawal
<1> QED
  BY <1>1, <1>3, <1>4, <1>5

LEMMA ThrowGoes ==
    ASSUME PInv, Placed, NEW t \in Transfers, NEW st, job[t].state = "active",
           Throw(t), status' = [status EXCEPT ![t] = st]
    PROVE  /\ \A u \in Transfers : job'[u] # job[u] => Left(job'[u]) < Left(job[u])
           /\ Placed'
           /\ Decided => Decided'
<1> DEFINE made == job[t].made + 1
           state == IF made < Attempts THEN "waiting" ELSE "failing"
           r == Leave(t, state)
           j == [r EXCEPT !.made = made]
<1>1. job' = [job EXCEPT ![t] = j]
  BY DEF Throw
<1>2. /\ job[t].made \in 0..Attempts /\ job[t].made < Attempts
      /\ job[t].stalls \in Nat /\ Attempts \in Nat
  BY JobTyped DEF JobRow
<1>3. made \in 0..Attempts /\ state \in {"waiting", "failing", "done", "dropped"}
  BY <1>2
<1>4. j \in JobRow /\ j.state = state /\ j.made = made /\ j.stalls = job[t].stalls
  <2> HIDE DEF state, made
  <2>1. r \in JobRow /\ r.state = state /\ r.stalls = job[t].stalls
    BY <1>3, LeaveIs
  <2> HIDE DEF r
  <2> QED
    BY <1>3, <2>1, Recounted
<1> HIDE DEF j
<1>5. j.made + j.stalls = job[t].made + job[t].stalls + 1
  BY <1>2, <1>4
<1>6. Deciding(j, st) /\ j.state # "active"
  BY <1>4 DEF Deciding
<1> QED
  BY <1>1, <1>4, <1>5, <1>6, JobGoes

LEMMA ReturnGoes ==
    ASSUME PInv, Placed, NEW t \in Transfers, NEW st, job[t].state = "active",
           Return(t), status' = [status EXCEPT ![t] = st],
           Withdrawal(t) => st \in Terminal
    PROVE  /\ \A u \in Transfers : job'[u] # job[u] => Left(job'[u]) < Left(job[u])
           /\ Placed'
           /\ Decided => Decided'
<1> DEFINE j == Leave(t, "done")
<1>1. job' = [job EXCEPT ![t] = j]
  BY DEF Return
<1>2. /\ j \in JobRow /\ j.state = "done" /\ j.made = job[t].made
      /\ j.stalls = job[t].stalls
  BY LeaveIs
<1> HIDE DEF j
<1>3. StatementsLeft(j) < StatementsLeft(job[t])
  <2>1. StatementsLeft(j) = 0
    BY <1>2, StatementsCounted
  <2>2. StatementsLeft(job[t]) >= 2 /\ StatementsLeft(job[t]) \in 0..6
    BY JobTyped, StatementsCounted DEF Placed
  <2> QED
    BY <2>1, <2>2
<1>4. (Withdrawal(t) => Deciding(j, st)) /\ j.state # "active"
  BY <1>2 DEF Deciding
<1> QED
  BY <1>1, <1>2, <1>3, <1>4, JobGoes

(* The handler goes on to a later statement.                               *)
LEMMA GoToGoes ==
    ASSUME PInv, Placed, NEW t \in Transfers, NEW st, job[t].state = "active",
           NEW step \in {"credit", "notify"},
           job[t].step \in IF step = "notify" THEN {"apply", "credit"} ELSE {"apply"},
           GoTo(t, step), status' = [status EXCEPT ![t] = st],
           Withdrawal(t) /\ step = "notify" => st \in Terminal
    PROVE  /\ \A u \in Transfers : job'[u] # job[u] => Left(job'[u]) < Left(job[u])
           /\ Placed'
           /\ Decided => Decided'
<1> DEFINE j == [job[t] EXCEPT !.step = step]
<1>1. job' = [job EXCEPT ![t] = j]
  BY DEF GoTo
<1>2. /\ j \in JobRow /\ j.state = "active" /\ j.step = step /\ j.made = job[t].made
      /\ j.stalls = job[t].stalls
  BY JobTyped DEF JobRow
<1> HIDE DEF j
<1>3. StatementsLeft(j) < StatementsLeft(job[t])
  <2>1. StatementsLeft(j) = IF step = "notify" THEN 2 ELSE 3
    BY <1>2, StatementsCounted
  <2>2. StatementsLeft(job[t]) = IF job[t].step = "apply" THEN 4 ELSE 3
    BY JobTyped, StatementsCounted
  <2> QED
    BY <2>1, <2>2
<1>4. Withdrawal(t) => Deciding(j, st)
  BY <1>2 DEF Deciding
<1> QED
  BY <1>1, <1>2, <1>3, <1>4, JobGoes

LEMMA StallGoes ==
    ASSUME PInv, Placed, NEW t \in Transfers, JobStalls(t)
    PROVE  /\ \A u \in Transfers : job'[u] # job[u] => Left(job'[u]) < Left(job[u])
           /\ Placed'
           /\ Decided => Decided'
<1> DEFINE place == IF job[t].stalls < MaxStalls THEN "waiting" ELSE "dropped"
           n == IF job[t].stalls < MaxStalls THEN job[t].stalls + 1 ELSE job[t].stalls
           r == Leave(t, place)
           j == [r EXCEPT !.stalls = n]
<1>1. /\ job[t].state = "active" /\ status' = [status EXCEPT ![t] = status[t]]
      /\ job[t].stalls \in 0..MaxStalls /\ MaxStalls \in Nat /\ job[t].made \in Nat
  BY JobTyped DEF JobStalls, JobRow
<1>2. n \in 0..MaxStalls /\ place \in {"waiting", "failing", "done", "dropped"}
  BY <1>1
<1>3. /\ r \in JobRow /\ r.state = place /\ r.made = job[t].made
      /\ r.stalls = job[t].stalls
  <2> HIDE DEF place
  <2> QED
    BY <1>2, LeaveIs
<1>4. job' = [job EXCEPT ![t] = j]
  <2>1. CASE job[t].stalls < MaxStalls
    <3>1. job' = [job EXCEPT ![t] = [Leave(t, "waiting") EXCEPT !.stalls = @ + 1]]
      BY <2>1 DEF JobStalls
    <3>2. Leave(t, "waiting").stalls = job[t].stalls
      BY LeaveIs
    <3> QED
      BY <2>1, <3>1, <3>2
  <2>2. CASE ~(job[t].stalls < MaxStalls)
    <3>1. job' = [job EXCEPT ![t] = r]
      BY <2>2 DEF JobStalls
    <3>2. j = r
      <4>1. n = r.stalls
        BY <1>3, <2>2
      <4> HIDE DEF r, n
      <4> QED
        BY <1>3, <4>1 DEF JobRow
    <3> QED
      BY <3>1, <3>2
  <2> QED
    BY <2>1, <2>2
<1>5. j \in JobRow /\ j.state = place /\ j.made = job[t].made /\ j.stalls = n
  <2> HIDE DEF r, n, place
  <2> QED
    BY <1>2, <1>3, Restalled
<1> HIDE DEF j, r
<1>6. Deciding(j, status[t]) /\ j.state # "active"
  BY <1>5 DEF Deciding
<1>7. \/ j.made = job[t].made /\ j.stalls = job[t].stalls
         /\ StatementsLeft(j) < StatementsLeft(job[t])
      \/ j.made + j.stalls = job[t].made + job[t].stalls + 1
  <2>1. CASE job[t].stalls < MaxStalls
    BY <1>1, <1>5, <2>1
  <2>2. CASE ~(job[t].stalls < MaxStalls)
    <3>1. StatementsLeft(j) = 0
      BY <1>5, <2>2, StatementsCounted
    <3>2. StatementsLeft(job[t]) >= 2 /\ StatementsLeft(job[t]) \in 0..6
      BY <1>1, JobTyped, StatementsCounted DEF Placed
    <3> QED
      BY <1>5, <2>2, <3>1, <3>2
  <2> QED
    BY <2>1, <2>2
<1> QED
  BY <1>1, <1>4, <1>5, <1>6, <1>7, JobGoes

LEMMA JobStepGoes ==
    ASSUME PInv, Placed, Decided, NEW t \in Transfers, JobStep(t) \/ JobStalls(t)
    PROVE  /\ \A u \in Transfers : job'[u] # job[u] => Left(job'[u]) < Left(job[u])
           /\ Placed' /\ Decided'
<1>0. /\ job[t] \in JobRow /\ status = [status EXCEPT ![t] = status[t]]
      /\ (Deposit(t) => ~Withdrawal(t))
  BY JobTyped, Kinds
<1>1. CASE TakeJob(t)
  <2> DEFINE j == [job[t] EXCEPT !.state = "active", !.step = "charge"]
             st == IF Deposit(t) THEN "processing" ELSE status[t]
  <2>1. job' = [job EXCEPT ![t] = j] /\ status' = [status EXCEPT ![t] = st]
        /\ job[t].state = "waiting"
    BY <1>0, <1>1 DEF TakeJob, SetStatus
  <2>2. /\ j \in JobRow /\ j.state = "active" /\ j.step = "charge"
        /\ j.made = job[t].made /\ j.stalls = job[t].stalls
    BY <1>0 DEF JobRow
  <2> HIDE DEF j, st
  <2>3. StatementsLeft(j) < StatementsLeft(job[t])
    <3>1. StatementsLeft(j) = 5 /\ StatementsLeft(job[t]) = 6
      BY <1>0, <2>1, <2>2, StatementsCounted
    <3> QED
      BY <3>1
  <2>4. Deciding(j, st)
    BY <2>2 DEF Deciding
  <2> QED
    BY <2>1, <2>2, <2>3, <2>4, JobGoes
<1>2. CASE \E a \in {"success", "pending", "failed"} : Charge(t, a)
  <2>1. PICK a \in {"success", "pending", "failed"} : Charge(t, a)
    BY <1>2
  <2> DEFINE j == [job[t] EXCEPT !.step = "apply", !.result = a]
  <2>2. job' = [job EXCEPT ![t] = j] /\ status' = [status EXCEPT ![t] = status[t]]
        /\ job[t].state = "active" /\ job[t].step = "charge"
    BY <1>0, <2>1 DEF Charge, At
  <2>3. /\ j \in JobRow /\ j.state = "active" /\ j.step = "apply"
        /\ j.made = job[t].made /\ j.stalls = job[t].stalls
    BY <1>0, <2>2 DEF JobRow
  <2> HIDE DEF j
  <2>4. StatementsLeft(j) < StatementsLeft(job[t])
    <3>1. StatementsLeft(j) = 4 /\ StatementsLeft(job[t]) = 5
      BY <1>0, <2>2, <2>3, StatementsCounted
    <3> QED
      BY <3>1
  <2>5. Deciding(j, status[t])
    BY <2>3 DEF Deciding
  <2> QED
    BY <2>2, <2>3, <2>4, <2>5, JobGoes
<1>3. CASE JobCompletesDeposit(t)
  <2>1. /\ job[t].state = "active" /\ job[t].step = "apply" /\ ~Withdrawal(t)
        /\ status' = [status EXCEPT ![t] = status[t]]
        /\ GoTo(t, "credit") \/ Return(t)
    BY <1>0, <1>3 DEF JobCompletesDeposit, At
  <2>2. CASE GoTo(t, "credit")
    BY <2>1, <2>2, GoToGoes
  <2>3. CASE Return(t)
    BY <2>1, <2>3, ReturnGoes
  <2> QED
    BY <2>1, <2>2, <2>3
<1>4. CASE JobLeavesPending(t)
  BY <1>0, <1>4, ReturnGoes DEF JobLeavesPending, At, SetStatus
<1>5. CASE JobFailsDeposit(t) \/ JobFailsWithdrawal(t)
  BY <1>5, ThrowGoes DEF JobFailsDeposit, JobFailsWithdrawal, At, SetStatus
<1>6. CASE JobCompletesWithdrawal(t)
  BY <1>6, GoToGoes DEF JobCompletesWithdrawal, At, SetStatus, Terminal
<1>7. CASE JobCredits(t)
  BY <1>7, GoToGoes DEF JobCredits, CreditDeposit, At, SetStatus, Terminal
<1>8. CASE JobNotifies(t)
  <2>1. /\ job[t].state = "active" /\ job[t].step = "notify" /\ Return(t)
        /\ status' = [status EXCEPT ![t] = status[t]]
    BY <1>0, <1>8 DEF JobNotifies, At
  <2>2. Withdrawal(t) => status[t] \in Terminal
    BY <2>1 DEF Decided, Deciding
  <2> QED
    BY <2>1, <2>2, ReturnGoes
<1>9. CASE JobThrows(t)
  BY <1>0, <1>9, ThrowGoes DEF JobThrows
<1>10. CASE OnFailed(t)
  <2> DEFINE j == [job[t] EXCEPT !.state = "dead"]
  <2>1. job' = [job EXCEPT ![t] = j] /\ status' = [status EXCEPT ![t] = "failed"]
        /\ job[t].state = "failing"
    BY <1>10 DEF OnFailed, SetStatus
  <2>2. j \in JobRow /\ j.state = "dead" /\ j.made = job[t].made /\ j.stalls = job[t].stalls
    BY <1>0 DEF JobRow
  <2> HIDE DEF j
  <2>3. StatementsLeft(j) < StatementsLeft(job[t])
    <3>1. StatementsLeft(j) = 0 /\ StatementsLeft(job[t]) = 1
      BY <1>0, <2>1, <2>2, StatementsCounted
    <3> QED
      BY <3>1
  <2>4. Deciding(j, "failed")
    BY DEF Deciding, Terminal
  <2> QED
    BY <2>1, <2>2, <2>3, <2>4, JobGoes
<1>11. CASE OnFailedLost(t)
  <2> DEFINE j == [job[t] EXCEPT !.state = "unmarked"]
  <2>1. job' = [job EXCEPT ![t] = j] /\ status' = [status EXCEPT ![t] = status[t]]
        /\ job[t].state = "failing"
    BY <1>0, <1>11 DEF OnFailedLost
  <2>2. j \in JobRow /\ j.state = "unmarked" /\ j.made = job[t].made
        /\ j.stalls = job[t].stalls
    BY <1>0 DEF JobRow
  <2> HIDE DEF j
  <2>3. StatementsLeft(j) < StatementsLeft(job[t])
    <3>1. StatementsLeft(j) = 0 /\ StatementsLeft(job[t]) = 1
      BY <1>0, <2>1, <2>2, StatementsCounted
    <3> QED
      BY <3>1
  <2>4. Deciding(j, status[t])
    BY <2>2 DEF Deciding
  <2> QED
    BY <2>1, <2>2, <2>3, <2>4, JobGoes
<1> QED
  BY <1>1, <1>2, <1>3, <1>4, <1>5, <1>6, <1>7, <1>8, <1>9, <1>10, <1>11, StallGoes DEF JobStep

(* The requests and the events, which leave the jobs that are queued.      *)
LEMMA OthersLeaveJobs ==
    ASSUME PInv, Placed, Decided,
           \A u \in Transfers : /\ job[u].state = "none" =>
                                      job'[u].state \notin {"active", "done", "dead"}
                                /\ job[u].state # "none" => job'[u] = job[u]
                                /\ job[u].state # "none" /\ status'[u] # status[u]
                                      => status'[u] \in Terminal
    PROVE  /\ \A u \in Transfers : job[u].state # "none" => job'[u] = job[u]
           /\ Placed' /\ Decided'
<1>1. Placed'
  BY DEF Placed
<1>2. Decided'
  BY DEF Decided, Deciding, Withdrawal
<1> QED
  BY <1>1, <1>2

LEMMA NextCountsDown ==
    ASSUME PInv, Placed, Decided, [Next]_vars
    PROVE  /\ \A u \in Transfers : job[u].state # "none" /\ job'[u] # job[u]
                 => Left(job'[u]) < Left(job[u])
           /\ Placed' /\ Decided'
<1>0. job \in [Transfers -> JobRow] /\ status \in [Transfers -> StatusType]
  BY DEF PInv, TypeOK, JobRow, StatusType
<1>1. CASE UNCHANGED vars
  BY <1>1, OthersLeaveJobs DEF vars
<1>2. ASSUME NEW t \in Transfers, JobStep(t) \/ JobStalls(t)
      PROVE  /\ \A u \in Transfers : job'[u] # job[u] => Left(job'[u]) < Left(job[u])
             /\ Placed' /\ Decided'
  BY <1>2, JobStepGoes
<1>3. ASSUME NEW t \in Transfers, Submit(t) \/ Enqueue(t) \/ EnqueueFails(t)
      PROVE  /\ \A u \in Transfers : job[u].state # "none" => job'[u] = job[u]
             /\ Placed' /\ Decided'
  <2>1. submission[t] # "queued"
    BY <1>3 DEF Submit, InitiateDeposit, InitiateWithdrawal, MayInitiate, Enqueue, EnqueueFails
  <2>2. job[t].state = "none"
    BY <2>1, NotQueuedYet
  <2>3. /\ job' = job \/ job' = [job EXCEPT ![t].state = "waiting"]
        /\ status' = status \/ \E st : status' = [status EXCEPT ![t] = st]
    BY <1>3 DEF Submit, InitiateDeposit, InitiateWithdrawal, Enqueue, EnqueueFails, SetStatus
  <2>4. \A u \in Transfers : /\ u # t => job'[u] = job[u] /\ status'[u] = status[u]
                             /\ job'[t].state \in {"none", "waiting"}
    BY <1>0, <2>2, <2>3 DEF JobRow
  <2> QED
    BY <2>2, <2>4, OthersLeaveJobs
<1>4. ASSUME job' = job, \/ UNCHANGED status
                         \/ \E t \in Transfers, st \in Terminal : SetStatus(t, st)
      PROVE  /\ \A u \in Transfers : job[u].state # "none" => job'[u] = job[u]
             /\ Placed' /\ Decided'
  <2>1. \A u \in Transfers : status'[u] # status[u] => status'[u] \in Terminal
    BY <1>0, <1>4 DEF SetStatus
  <2> QED
    BY <1>4, <2>1, OthersLeaveJobs
<1>5. ASSUME NEW h \in Hooks, HookStep(h) \/ EventQueued(h) \/ EventStranded(h)
      PROVE  job' = job /\ \/ UNCHANGED status
                           \/ \E t \in Transfers, st \in Terminal : SetStatus(t, st)
  <2>1. CASE HookSetsStatus(h) \/ HookCredits(h)
    <3>1. hook[h].transfer \in Transfers
      <4>1. hook[h].step # "unused"
        BY <2>1 DEF HookSetsStatus, HookCredits
      <4> QED
        BY <4>1 DEF PInv, Reported
    <3>2. job' = job /\ \E st \in Terminal : SetStatus(hook[h].transfer, st)
      BY <2>1 DEF HookSetsStatus, HookCredits, CreditDeposit, Terminal
    <3> QED
      BY <3>1, <3>2
  <2>2. CASE ~(HookSetsStatus(h) \/ HookCredits(h))
    BY <1>5, <2>2 DEF HookStep, HookReads, HookCompletesDeposit, HookNotifies, HookThrows,
                      EventQueued, EventStranded
  <2> QED
    BY <2>1, <2>2
<1>6. ASSUME NEW t \in Transfers, NEW a, NEW h,
             ProviderSettles(t, a) \/ EventArrives(h, t, a)
      PROVE  job' = job /\ UNCHANGED status
  BY <1>6 DEF ProviderSettles, EventArrives
<1> QED
  BY <1>1, <1>2, <1>3, <1>4, <1>5, <1>6 DEF Next

LEMMA AlwaysDecided == Spec => [](PInv /\ Placed /\ Decided)
<1>1. Init => Placed /\ Decided
  BY DEF Init, Placed, Decided, Deciding, NoJob
<1>2. (PInv /\ Placed /\ Decided) /\ [Next]_vars => (PInv /\ Placed /\ Decided)'
  BY PInvStep, NextCountsDown
<1> QED
  BY <1>1, <1>2, PInvInitially, PTL DEF Spec

(* However throws, stalls and late events follow each other, no job that    *)
(* returned, and none whose last failure the listener has seen to, leaves  *)
(* a withdrawal undecided, or finds it undecided again later: its handler  *)
(* has written COMPLETED or FAILED by then, or the listener has.  Of a job *)
(* dropped as stalled, or whose listener was lost, nothing is claimed.     *)
THEOREM WithdrawalsAreDecided == Spec => []EndedWithdrawalsAreDecided
<1>1. Decided => EndedWithdrawalsAreDecided
  BY DEF Decided, Deciding, EndedWithdrawalsAreDecided
<1> QED
  BY <1>1, AlwaysDecided, PTL

(* Every statement, throw, stall and retry brings a queued job nearer to   *)
(* its end, for any numbers of attempts and stalls, and nothing takes it   *)
(* back: what is left of "every job ends" is that Bull serves the queue.   *)
THEOREM JobsWindDown == Spec => JobsCountDown
<1>1. (PInv /\ Placed /\ Decided) /\ [Next]_vars
        => [\A t \in Transfers :
              job[t].state # "none" /\ job'[t] # job[t] => Left(job'[t]) < Left(job[t])]_vars
  BY NextCountsDown
<1> QED
  BY <1>1, AlwaysDecided, PTL DEF Spec, JobsCountDown
=============================================================================
