------------------------------ MODULE Payments ------------------------------
(***************************************************************************)
(* Deposits and withdrawals through an external provider: PaymentsService, *)
(* the Bull queue 'payments' with its processor, and the processor of the  *)
(* provider's webhook events.  Three kinds of process share the transfer   *)
(* row without a lock: the HTTP request, the job's handler (run again      *)
(* after a throw or a stall) and the handlers of webhook events, which     *)
(* read the status in one statement and write it in a later one.           *)
(*                                                                         *)
(* The wallet's part of a transaction is one step, its commit: that is     *)
(* what the wallets are proved to promise (LedgerProofs).  One wallet is   *)
(* enough, since the transfers have no other state in common.              *)
(***************************************************************************)
EXTENDS Postings, FiniteSets

CONSTANTS
    Payment,          \* the transfer rows: Payment[t] = [kind, provider, amount, fee]
    Transfers,        \* their identifiers, positive numbers
    Wallet,           \* the wallet they are for
    Repaired,         \* transfers for which completeDeposit accepts PROCESSING too
    Attempts,         \* `attempts: 3` of both queue.add calls
    MaxStalls,        \* Bull's maxStalledCount, 1 by default
    Hooks,            \* webhook events that may arrive
    HookAttempts,     \* `attempts: 5` of the webhook jobs
    MaxPayments       \* bound: so many of the transfers are initiated

ASSUME PaymentsAssumption ==
    /\ Transfers \subseteq Nat \ {0}
    /\ Payment \in [Transfers -> [kind : {"deposit", "withdrawal"},
                                  provider : {"flutterwave", "stripe"},
                                  amount : Column \ {0}, fee : TotalFees]]
    /\ Wallet \in Wallets
    /\ Repaired \subseteq Transfers
    /\ Attempts \in Nat \ {0} /\ HookAttempts \in Nat \ {0}
    /\ MaxStalls \in Nat /\ MaxPayments \in Nat

VARIABLES
    balance, ledger,   \* the wallet's committed rows
    status,            \* status[t]: the transfer row's column, "none" without a row
    submission,        \* submission[t]: where the HTTP request is
    job,               \* job[t]: the queue's job and its handler's place
    outcomes,          \* outcomes[t]: the provider's charges, by outcome
    hook               \* hook[h]: a webhook event and its handler's place

vars == <<balance, ledger, status, submission, job, outcomes, hook>>

Deposit(t) == Payment[t].kind = "deposit"
Withdrawal(t) == Payment[t].kind = "withdrawal"
Terminal == {"completed", "failed"}

(* The statuses completeDeposit accepts: PENDING only, as shipped.         *)
CompletableFrom(t) == {"pending"} \union (IF t \in Repaired THEN {"processing"} ELSE {})

(* What the provider's charge() may answer: Stripe's has no "pending".     *)
Answers(t) ==
    {"success", "failed"} \union
        (IF Payment[t].provider = "flutterwave" THEN {"pending"} ELSE {})

NoJob == [state |-> "none", made |-> 0, stalls |-> 0, step |-> "none", result |-> "none"]
NoCharge == [success |-> 0, pending |-> 0, failed |-> 0]
NoEvent == [step |-> "unused", transfer |-> 0, news |-> "none", tries |-> 0]

Init ==
    /\ balance = Opening[Wallet]
    /\ ledger = OpeningLedger(Wallet)
    /\ status = [t \in Transfers |-> "none"]
    /\ submission = [t \in Transfers |-> "none"]
    /\ job = [t \in Transfers |-> NoJob]
    /\ outcomes = [t \in Transfers |-> NoCharge]
    /\ hook = [h \in Hooks |-> NoEvent]

-----------------------------------------------------------------------------
(* A debit or a credit, and the commit of the transaction it is part of.   *)
Posts(t, type, amount) ==
    LET p == [wallet |-> Wallet, type |-> type, amount |-> amount]
    IN  /\ amount > 0
        /\ Allowed(balance, "active", p, Owner[Wallet])
        /\ NewBalance(balance, p) <= BigIntMax
        /\ balance' = NewBalance(balance, p)
        /\ ledger' = Append(ledger, [type |-> type, amount |-> amount,
                                     balanceAfter |-> NewBalance(balance, p),
                                     transferId |-> t])

(* `dto.amount + feeBreakdown.totalFee`: a fee that is a string is appended *)
(* to the digits of the amount.                                            *)
TotalDebit(t) == Plus(Number(Payment[t].amount), Payment[t].fee).n

(* `transfer.amount - transfer.fee`, two columns: `-` makes numbers.       *)
NetCredit(t) == Payment[t].amount - Payment[t].fee.n

SetStatus(t, st) == status' = [status EXCEPT ![t] = st]
Submitting(t, place) == submission' = [submission EXCEPT ![t] = place]

MayInitiate(t) ==
    /\ submission[t] = "none"
    /\ Cardinality({u \in Transfers : submission[u] # "none"}) < MaxPayments

(* The PENDING row is saved; the job is added by a later statement.        *)
InitiateDeposit(t) ==
    /\ Deposit(t)
    /\ MayInitiate(t)
    /\ SetStatus(t, "pending")
    /\ Submitting(t, "enqueue")
    /\ UNCHANGED <<balance, ledger, job, outcomes, hook>>

(* Fault: the job is added first, the debit follows.                       *)
WithdrawalBeforeDebit(t) ==
    /\ Withdrawal(t)
    /\ MayInitiate(t)
    /\ SetStatus(t, "processing")
    /\ Submitting(t, "enqueue")
    /\ UNCHANGED <<balance, ledger, job, outcomes, hook>>

(* The transaction of a withdrawal: PROCESSING row, debit, commit.         *)
InitiateWithdrawal(t) ==
    /\ Withdrawal(t)
    /\ MayInitiate(t)
    /\ Posts(t, "debit", TotalDebit(t))
    /\ SetStatus(t, "processing")
    /\ Submitting(t, "enqueue")
    /\ UNCHANGED <<job, outcomes, hook>>

Enqueue(t) ==
    /\ submission[t] = "enqueue"
    /\ Submitting(t, "queued")
    /\ job' = [job EXCEPT ![t].state = "waiting"]
    /\ UNCHANGED <<balance, ledger, status, outcomes, hook>>

(* queue.add rejects, or the process dies before it.  The catch block of   *)
(* initiateWithdrawal rolls back, but the transaction has committed.       *)
EnqueueFails(t) ==
    /\ submission[t] = "enqueue"
    /\ Submitting(t, "lost")
    /\ UNCHANGED <<balance, ledger, status, job, outcomes, hook>>

-----------------------------------------------------------------------------
At(t, step) == job[t].state = "active" /\ job[t].step = step
GoTo(t, step) == job' = [job EXCEPT ![t].step = step]
Leave(t, state) == [job[t] EXCEPT !.state = state, !.step = "none", !.result = "none"]

Return(t) == job' = [job EXCEPT ![t] = Leave(t, "done")]

(* Fault: an attempt that threw is not counted.                            *)
ThrowUncounted(t) == job' = [job EXCEPT ![t] = Leave(t, "waiting")]

(* Fault: one attempt too many.                                            *)
ThrowOnceMore(t) ==
    LET made == job[t].made + 1
    IN  job' = [job EXCEPT ![t] =
                  [Leave(t, IF made <= Attempts THEN "waiting" ELSE "failing")
                     EXCEPT !.made = made]]

(* The handler throws: Bull counts the attempt, and retries or gives up.   *)
Throw(t) ==
    LET made == job[t].made + 1
    IN  job' = [job EXCEPT ![t] =
                  [Leave(t, IF made < Attempts THEN "waiting" ELSE "failing")
                     EXCEPT !.made = made]]

(* A worker takes the job; a deposit is first marked PROCESSING.           *)
TakeJob(t) ==
    /\ job[t].state = "waiting"
    /\ job' = [job EXCEPT ![t].state = "active", ![t].step = "charge"]
    /\ IF Deposit(t) THEN SetStatus(t, "processing") ELSE UNCHANGED status
    /\ UNCHANGED <<balance, ledger, submission, outcomes, hook>>

Charge(t, r) ==
    /\ At(t, "charge")
    /\ r \in Answers(t)
    /\ outcomes' = [outcomes EXCEPT ![t][r] = @ + 1]
    /\ job' = [job EXCEPT ![t].step = "apply", ![t].result = r]
    /\ UNCHANGED <<balance, ledger, status, submission, hook>>

(* completeDeposit reads the row before it opens its transaction.          *)
JobCompletesDeposit(t) ==
    /\ At(t, "apply")
    /\ Deposit(t) /\ job[t].result = "success"
    /\ IF status[t] \in CompletableFrom(t) THEN GoTo(t, "credit") ELSE Return(t)
    /\ UNCHANGED <<balance, ledger, status, submission, outcomes, hook>>

(* The provider will answer through a webhook.                             *)
JobLeavesPending(t) ==
    /\ At(t, "apply")
    /\ Deposit(t) /\ job[t].result = "pending"
    /\ SetStatus(t, "processing")
    /\ Return(t)
    /\ UNCHANGED <<balance, ledger, submission, outcomes, hook>>

JobFailsDeposit(t) ==
    /\ At(t, "apply")
    /\ Deposit(t) /\ job[t].result = "failed"
    /\ SetStatus(t, "failed")
    /\ Throw(t)
    /\ UNCHANGED <<balance, ledger, submission, outcomes, hook>>

(* Fault: only an outright failure fails a withdrawal.                     *)
CompletesUnlessFailed(t) ==
    /\ At(t, "apply")
    /\ Withdrawal(t) /\ job[t].result # "failed"
    /\ SetStatus(t, "completed")
    /\ GoTo(t, "notify")
    /\ UNCHANGED <<balance, ledger, submission, outcomes, hook>>

JobCompletesWithdrawal(t) ==
    /\ At(t, "apply")
    /\ Withdrawal(t) /\ job[t].result = "success"
    /\ SetStatus(t, "completed")
    /\ GoTo(t, "notify")
    /\ UNCHANGED <<balance, ledger, submission, outcomes, hook>>

(* Everything but success fails a withdrawal, "pending" included; the      *)
(* debit is not reversed.                                                  *)
JobFailsWithdrawal(t) ==
    /\ At(t, "apply")
    /\ Withdrawal(t) /\ job[t].result # "success"
    /\ SetStatus(t, "failed")
    /\ Throw(t)
    /\ UNCHANGED <<balance, ledger, submission, outcomes, hook>>

(* Fault: COMPLETED is written outside the transaction of the credit.      *)
CompletedWithoutCredit(t) ==
    /\ SetStatus(t, "completed")
    /\ UNCHANGED <<balance, ledger>>

(* completeDeposit's transaction: credit, COMPLETED, commit.               *)
CreditDeposit(t) ==
    /\ Posts(t, "credit", NetCredit(t))
    /\ SetStatus(t, "completed")

JobCredits(t) ==
    /\ At(t, "credit")
    /\ CreditDeposit(t)
    /\ GoTo(t, "notify")
    /\ UNCHANGED <<submission, outcomes, hook>>

JobNotifies(t) ==
    /\ At(t, "notify")
    /\ Return(t)
    /\ UNCHANGED <<balance, ledger, status, submission, outcomes, hook>>

(* A statement of the handler fails (the notification's after the commit   *)
(* or the COMPLETED update), or the credit is refused.                     *)
JobThrows(t) ==
    /\ job[t].state = "active"
    /\ Throw(t)
    /\ UNCHANGED <<balance, ledger, status, submission, outcomes, hook>>

(* The worker dies: Bull hands the stalled job out again, at most          *)
(* MaxStalls times, then drops it without attempts having been made.       *)
JobStalls(t) ==
    /\ job[t].state = "active"
    /\ job' = [job EXCEPT ![t] =
                 IF job[t].stalls < MaxStalls
                 THEN [Leave(t, "waiting") EXCEPT !.stalls = @ + 1]
                 ELSE Leave(t, "dropped")]
    /\ UNCHANGED <<balance, ledger, status, submission, outcomes, hook>>

(* Fault: the listener only logs.                                          *)
OnFailedOnlyLogs(t) ==
    /\ job[t].state = "failing"
    /\ job' = [job EXCEPT ![t].state = "dead"]
    /\ UNCHANGED <<balance, ledger, status, submission, outcomes, hook>>

(* The listener of the 'failed' event, in the worker's process, once Bull  *)
(* has moved the job to its failed ones after the last attempt.            *)
OnFailed(t) ==
    /\ job[t].state = "failing"
    /\ job' = [job EXCEPT ![t].state = "dead"]
    /\ SetStatus(t, "failed")
    /\ UNCHANGED <<balance, ledger, submission, outcomes, hook>>

(* Its UPDATE is rejected, or the process dies before it: Bull is done     *)
(* with the job and nobody emits the event again.                          *)
OnFailedLost(t) ==
    /\ job[t].state = "failing"
    /\ job' = [job EXCEPT ![t].state = "unmarked"]
    /\ UNCHANGED <<balance, ledger, status, submission, outcomes, hook>>

-----------------------------------------------------------------------------
Charges(t) == outcomes[t].success + outcomes[t].pending + outcomes[t].failed

(* External: a pending charge goes one way or the other.                   *)
ProviderSettles(t, r) ==
    /\ outcomes[t].pending > 0
    /\ outcomes' = [outcomes EXCEPT ![t].pending = @ - 1, ![t][r] = @ + 1]
    /\ UNCHANGED <<balance, ledger, status, submission, job, hook>>

(* The provider reports a charge it has settled, or ("other") the progress  *)
(* of one.  processWebhookEvent saves the event; every later delivery finds *)
(* the row, or loses to it at the unique index, and is acknowledged without *)
(* a trace.                                                                 *)
EventArrives(h, t, news) ==
    /\ hook[h].step = "unused"
    /\ IF news = "other" THEN Charges(t) > 0 ELSE outcomes[t][news] > 0
    /\ hook' = [hook EXCEPT ![h].step = "saved", ![h].transfer = t, ![h].news = news]
    /\ UNCHANGED <<balance, ledger, status, submission, job, outcomes>>

HookGoes(h, step) == hook' = [hook EXCEPT ![h].step = step]

EventQueued(h) ==
    /\ hook[h].step = "saved"
    /\ HookGoes(h, "queued")
    /\ UNCHANGED <<balance, ledger, status, submission, job, outcomes>>

(* queue.add rejects, or the process dies before it: no delivery will      *)
(* queue the event any more.                                               *)
EventStranded(h) ==
    /\ hook[h].step = "saved"
    /\ HookGoes(h, "stranded")
    /\ UNCHANGED <<balance, ledger, status, submission, job, outcomes>>

(* parseFlwEvent passes on a status it does not know; parseStripeEvent     *)
(* takes every status but success for a failure.                           *)
Parsed(h) ==
    IF hook[h].news = "other" /\ Payment[hook[h].transfer].provider = "stripe"
    THEN "failed" ELSE hook[h].news

(* What processEvent decides to do with the row it has just read.          *)
Decision(h) ==
    LET t == hook[h].transfer
    IN  CASE status[t] \in Terminal -> "done"
          [] Parsed(h) = "success" /\ status[t] = "processing" ->
                IF Deposit(t) THEN "complete" ELSE "set completed"
          [] Parsed(h) = "failed" -> "set failed"
          [] OTHER -> "done"

HookReads(h) ==
    /\ hook[h].step = "queued"
    /\ HookGoes(h, Decision(h))
    /\ UNCHANGED <<balance, ledger, status, submission, job, outcomes>>

HookSetsStatus(h) ==
    /\ \/ hook[h].step = "set completed" /\ SetStatus(hook[h].transfer, "completed")
       \/ hook[h].step = "set failed" /\ SetStatus(hook[h].transfer, "failed")
    /\ HookGoes(h, "done")
    /\ UNCHANGED <<balance, ledger, submission, job, outcomes>>

HookCompletesDeposit(h) ==
    /\ hook[h].step = "complete"
    /\ LET t == hook[h].transfer
       IN  HookGoes(h, IF status[t] \in CompletableFrom(t) THEN "credit" ELSE "done")
    /\ UNCHANGED <<balance, ledger, status, submission, job, outcomes>>

HookCredits(h) ==
    /\ hook[h].step = "credit"
    /\ CreditDeposit(hook[h].transfer)
    /\ HookGoes(h, "notify")
    /\ UNCHANGED <<submission, job, outcomes>>

HookNotifies(h) ==
    /\ hook[h].step = "notify"
    /\ HookGoes(h, "done")
    /\ UNCHANGED <<balance, ledger, status, submission, job, outcomes>>

(* A statement fails or the worker dies: the webhook job is tried again.   *)
HookThrows(h) ==
    /\ hook[h].step \notin {"unused", "saved", "stranded", "done"}
    /\ hook' = [hook EXCEPT ![h].tries = @ + 1,
                            ![h].step = IF hook[h].tries + 1 < HookAttempts
                                        THEN "queued" ELSE "done"]
    /\ UNCHANGED <<balance, ledger, status, submission, job, outcomes>>

-----------------------------------------------------------------------------
Submit(t) == InitiateDeposit(t) \/ InitiateWithdrawal(t)

JobStep(t) ==
    \/ TakeJob(t)
    \/ \E r \in {"success", "pending", "failed"} : Charge(t, r)
    \/ JobCompletesDeposit(t)
    \/ JobLeavesPending(t)
    \/ JobFailsDeposit(t)
    \/ JobCompletesWithdrawal(t)
    \/ JobFailsWithdrawal(t)
    \/ JobCredits(t)
    \/ JobNotifies(t)
    \/ JobThrows(t)
    \/ OnFailed(t)
    \/ OnFailedLost(t)

HookStep(h) ==
    \/ HookReads(h)
    \/ HookSetsStatus(h)
    \/ HookCompletesDeposit(h)
    \/ HookCredits(h)
    \/ HookNotifies(h)
    \/ HookThrows(h)

Next ==
    \/ \E t \in Transfers :
          \/ Submit(t) \/ Enqueue(t) \/ EnqueueFails(t)
          \/ JobStep(t) \/ JobStalls(t)
          \/ \E r \in {"success", "failed"} : ProviderSettles(t, r)
    \/ \E h \in Hooks :
          \/ HookStep(h) \/ EventQueued(h) \/ EventStranded(h)
          \/ \E t \in Transfers, news \in {"success", "failed", "other"} : EventArrives(h, t, news)

Spec == Init /\ [][Next]_vars

(* A request that has begun goes on, and Bull serves every job: a stalled  *)
(* one is found by another worker.  After the last attempt the listener    *)
(* runs or is lost; nothing says that it runs.                             *)
FairSpec ==
    /\ Spec
    /\ \A t \in Transfers :
          /\ WF_vars(Enqueue(t) \/ EnqueueFails(t))
          /\ WF_vars(JobStep(t))

-----------------------------------------------------------------------------
(* Every variable has its type; the balance is never negative.             *)
TypeOK ==
    /\ balance \in Column
    /\ ledger \in Seq(Entry)
    /\ status \in [Transfers -> {"none", "pending", "processing"} \union Terminal]
    /\ submission \in [Transfers -> {"none", "enqueue", "queued", "lost"}]
    /\ job \in [Transfers ->
         [state : {"none", "waiting", "active", "failing", "done", "dead", "unmarked",
                   "dropped"},
          made : 0..Attempts, stalls : 0..MaxStalls,
          step : {"none", "charge", "apply", "credit", "notify"},
          result : {"none", "success", "pending", "failed"}]]
    /\ outcomes \in [Transfers -> [success : Nat, pending : Nat, failed : Nat]]
    /\ hook \in [Hooks ->
         [step : {"unused", "saved", "stranded", "queued", "set completed", "set failed",
                  "complete", "credit", "notify", "done"},
          transfer : Transfers \union {0}, news : {"none", "success", "failed", "other"},
          tries : 0..HookAttempts]]

PostingsFor(t, type, amount) ==
    {i \in 1..Len(ledger) : /\ ledger[i].transferId = t
                            /\ ledger[i].type = type
                            /\ ledger[i].amount = amount}

Moved(t) == IF Deposit(t) THEN PostingsFor(t, "credit", NetCredit(t))
                          ELSE PostingsFor(t, "debit", TotalDebit(t))

Settled == INSTANCE Settlement
    WITH Withdrawals <- {t \in Transfers : Withdrawal(t)},
         moved   <- [t \in Transfers |-> Cardinality(Moved(t))],
         asked   <- {t \in Transfers : Charges(t) > 0},
         settled <- {t \in Transfers : outcomes[t].success > 0},
         done    <- {t \in Transfers : status[t] = "completed"}

(* Whatever the job's handler, its retries and stalls, the listener and    *)
(* the events' handlers do to one row in whatever order: the provider is   *)
(* asked to pay a withdrawal out only once its debit, of the total that    *)
(* initiateWithdrawal computes (a sum or a concatenation), is in the       *)
(* ledger, it is debited once, and a transfer becomes COMPLETED only when  *)
(* the provider has settled it, a deposit in the step that credits it.     *)
ImplementsSettlement == Settled!Spec

(* However throws and stalls alternate, the provider sees at most          *)
(* `attempts` charges of a transfer and one more for each stall.           *)
ChargesBounded == \A t \in Transfers : Charges(t) <= Attempts + MaxStalls

(* A withdrawal whose job returned, or was given up and marked by the      *)
(* listener, is COMPLETED or FAILED from then on, whatever events arrive   *)
(* late.  Two ends of a job are left out, and leave a debited withdrawal   *)
(* PROCESSING: a job dropped as stalled, and one whose listener was lost.  *)
EndedWithdrawalsAreDecided ==
    \A t \in Transfers :
        Withdrawal(t) /\ job[t].state \in {"done", "dead"} => status[t] \in Terminal

(* How far a job is from its end: what is left of its handler's statements, *)
(* and, counting for more, the attempts and the stalls it has left.        *)
StatementsLeft(j) ==
    CASE j.state = "waiting" -> 6
      [] j.state = "active" /\ j.step = "charge" -> 5
      [] j.state = "active" /\ j.step = "apply" -> 4
      [] j.state = "active" /\ j.step = "credit" -> 3
      [] j.state = "active" /\ j.step = "notify" -> 2
      [] j.state = "failing" -> 1
      [] OTHER -> 0

Left(j) == 6 * ((Attempts - j.made) + (MaxStalls - j.stalls)) + StatementsLeft(j)

(* Throws, stalls and retries follow each other in any order, and yet each *)
(* brings a queued job nearer to its end: none is handed out for nothing.  *)
JobsCountDown ==
    [][\A t \in Transfers :
          job[t].state # "none" /\ job'[t] # job[t] => Left(job'[t]) < Left(job[t])]_vars

(* Every job that reaches the queue leaves it: done, given up or dropped   *)
(* as stalled.  Unless it was dropped, or given up and its listener lost,  *)
(* it leaves a withdrawal COMPLETED or FAILED, also when every attempt     *)
(* threw before it wrote a status.                                         *)
JobsEnd ==
    \A t \in Transfers :
        job[t].state = "waiting" ~>
            \/ job[t].state \in {"dropped", "unmarked"}
            \/ /\ job[t].state \in {"done", "dead"}
               /\ Withdrawal(t) => status[t] \in Terminal

-----------------------------------------------------------------------------
(* payments.service.ts:66: "Completion is handled via webhook or job       *)
(* result."  A deposit whose job returned after a successful charge is     *)
(* completed.                                                              *)
ChargedDepositsComplete ==
    [][\A t \in Transfers :
          ( /\ Deposit(t) /\ At(t, "apply") /\ job[t].result = "success"
            /\ job'[t].state = "done" )
          => status'[t] = "completed"]_vars

(* webhooks.processor.ts:86: "Payment failed via webhook notification."    *)
(* An event fails a transfer only when the provider has refused a charge.  *)
FailedByNews ==
    [][\A h \in Hooks :
          hook[h].step = "set failed" /\ hook'[h].step = "done"
          => outcomes[hook[h].transfer].failed > 0]_vars

(* payments.processor.ts:126: a withdrawal that "failed AFTER debit — must *)
(* reverse wallet debit".  A withdrawal that the provider has refused, and *)
(* never paid, and that the handler has marked FAILED has its money back   *)
(* by the time its job is given up.                                        *)
FailedWithdrawalsReversed ==
    [][\A t \in Transfers :
          ( /\ Withdrawal(t) /\ status[t] = "failed"
            /\ job[t].state = "failing" /\ job'[t].state # "failing"
            /\ outcomes[t].failed > 0
            /\ outcomes[t].success = 0 /\ outcomes[t].pending = 0 )
          => PostingsFor(t, "credit", TotalDebit(t))' # {}]_vars

(* payments.processor.ts:143: "After max retries exhausted, mark transfer  *)
(* as permanently failed."                                                 *)
PermanentlyFailed ==
    [][\A t \in Transfers :
          job[t].state = "dead" /\ status[t] = "failed" => status'[t] = "failed"]_vars

(* The same comment, for a withdrawal: once Bull has given its job up it   *)
(* is no longer PROCESSING.                                                *)
GivenUpIsDecided ==
    \A t \in Transfers :
        Withdrawal(t) /\ job[t].state \in {"dead", "unmarked"} => status[t] \in Terminal

(* fees.service.ts:18: "totalFee: number".  What a withdrawal debits is    *)
(* its amount and its fee.                                                 *)
DebitIsAmountPlusFee ==
    \A t \in Transfers : \A i \in 1..Len(ledger) :
        ledger[i].transferId = t /\ ledger[i].type = "debit"
        => ledger[i].amount = Payment[t].amount + Payment[t].fee.n

(* payments.service.ts:141: "Debits wallet immediately (held), queues      *)
(* provider disbursement."  A debited withdrawal that has a row is queued. *)
DebitedIsQueued ==
    \A t \in Transfers :
        PostingsFor(t, "debit", TotalDebit(t)) # {} =>
            submission[t] \in {"enqueue", "queued"}
=============================================================================
