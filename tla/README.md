# transact-go: specifications, model checking and proofs

transact-go is a NestJS application for wallets: double-entry bookkeeping in
PostgreSQL (TypeORM), Bull queues in Redis, external payment providers that
answer through webhooks. This directory holds TLA+ modules for the parts of it
that are concurrent, that can fail half-way, or that compute money; TLC checks
them on small instances and TLAPS proves the invariants and action properties that TLC
checks for every size. Line numbers below are those of `src/src/modules/...` unless a
path says otherwise; `README.md:n` in a comment is the application's README.

1. [Inventory](#1-inventory)
2. [Modules and how they correspond to the code](#2-modules)
3. [Runs: what is checked and what it shows](#3-runs)
4. [Known disagreements between the code and what it says](#4-known-disagreements)
5. [Bounds, symmetry, fairness](#5-bounds-symmetry-fairness)
6. [Proofs](#6-proofs)
7. [What is assumed, and what is not modelled](#7-assumptions-and-omissions)
8. [Plan](#8-plan)

To check one configuration: `tlc -config MCPayments_shipped.cfg MCPayments`. To
check the proofs: `tlapm LedgerProofs.tla`, and so for each `*Proofs.tla`.

## 1. Inventory

| Component | State | Operations | What is hard about it | What makes it correct |
| --- | --- | --- | --- | --- |
| Wallets and ledger (`wallets/`) | rows `wallets` (balance, status), `ledger_entries` | `debit`, `credit` inside a caller's transaction, freeze, `reconcileBalance` | concurrent transactions, row locks, deadlock, death between UPDATE and INSERT, BIGINT as text | no lost update, balance = newest row, whole transactions only, frozen wallets are not debited, every transaction ends |
| Internal transfers (`transfers/`) | rows `transfers` | `internalTransfer` | reads before the transaction, a limit summed without a lock, midnight | transfer rows and ledger rows appear together; the limit is overrun by a bounded amount |
| Payments (`payments/`) | status of the transfer row, Bull queue `payments` | `initiateDeposit`, `initiateWithdrawal`, `handleDeposit`, `handleWithdrawal`, `completeDeposit`, `onFailed` | job retried after a throw or a stall, provider charged again, status read and written in separate statements, job added after the commit, a listener that nobody runs again, a fee that is a string | paid out only once debited, COMPLETED is backed by provider and ledger, charges bounded, everything comes to an end |
| Webhooks (`webhooks/`) | rows `webhook_events`, Bull queue `webhooks` | `processWebhookEvent`, `processEvent` | duplicate deliveries, crash between row and job, race with the payment job | as for payments |
| Idempotency (`common/interceptors/`) | rows `idempotency_records` | `intercept`, nightly clean-up | two requests with one key, crash between effect and record, clean-up, `tap` that is not awaited | one execution at a time, one effect per window, exact replays |
| Fees (`fees/`) | rows `fee_rules`, a cache in each process | `calculate`, `invalidateFeeCache`, creation and update by administrators | stale cache entries, races of fill and invalidation, BIGINT as text | fees come from a recent rule and respect floor and cap |
| KYC (`kyc/`) | `kyc_submissions`, `users.kycTier`, Bull queue `kyc` | `submitKyc`, `handleVerification`, `processResult`, override | check-then-insert, retries with another verdict, results in either order | tiers are granted for approvals, submissions are reviewed |
| Fraud detection (`fraud/`) | `fraud_rules`, `fraud_alerts`, counters and rules in the cache | `evaluate` | get-then-set counter, cached rules, concurrent alerts | what the counter counts, how old rules may be, alerts before verdicts |
| Authentication (`auth/`) | row `users`: `failedLoginAttempts`, `lockedUntil`, `refreshTokenHash`, status | register, login, refresh, logout, the JWT guard | read-modify-write of the counter, a hash that is written last and unconditionally, check-then-insert | a bounded number of guesses before a lock, a lock that stops every login but those ahead of it, one row per e-mail |
| Exchange rates (`exchange-rates/`) | rows `exchange_rates`, a cache in each process | `getRate`, `convert`, the refresh | cached rates past their expiry, a refresh that overtakes a read, a jitter for each row | how old a rate may be, newer rates prevail, there and back never gains |
| Scheduled tasks (`queue/`) | – | clean-up of idempotency records, refresh of the rates, seeds, metrics | run in each process, beside the requests | with the module of the rows they write |
| Administration (`admin/`) | writes the tables above | freeze, override of a tier, fee and fraud rules, suspension and activation | races with whoever reads | with the module that reads |
| Notifications, audit, reports, health | – | output, queries | – | not modelled, see 7 |

How they interact. A client's request passes `IdempotencyInterceptor`, then a
controller calls `TransfersService` or `PaymentsService`. These read wallets,
user and fee rule on pooled connections, and then open a transaction in which
they call `WalletsService.debit` and `credit`. `PaymentsService` adds a job to
the queue *after* its commit; the job's handler calls the provider, and writes
the same transfer row that the handlers of the provider's webhook events write.
Approvals and overrides write the tier that internal transfers read for their
limit; administrators write the rules that `FeesService` and `FraudService`
keep in a cache, and the status of the users that the guard in front of every
controller reads.

## 2. Modules

```
Money ── Postings ──┬── AtomicLedger <──────── implements ─────┐
                    ├── WalletLedger ──┬── Reconciliation ──┬── MCWalletLedger
                    │                  │                    └────────┐
                    │                  └── InternalTransfers ──┬── LedgerProofs
                    │                                          └── MCInternalTransfers
                    └── Payments ──┬── PaymentsProofs ── implements ──> Settlement
                                   └── MCPayments
Money ── FeeRules ── FeeQuotes ──┬── FeeQuotesProofs
                                 └── MCFeeQuotes
Idempotency, KycReview, FraudScreening, Accounts, ExchangeRates: each with its
                                        ...Proofs and MC... module
```

**Money** is addition as JavaScript does it here. The pg driver returns BIGINT
columns as strings, the data source does not set `parseInt8` and no column has a
transformer, so `wallet.balance + amount` concatenates (`wallets.service.ts:144`)
while `-`, `<` and `Math.round` convert. The constant `Int8AsText` is TRUE for
the program as it is; FALSE is what the entity types (`balance: number`) say.
Numbers are natural numbers and "concatenation" is `a * 10^k + b`. A JavaScript
value is a number or the string of one (`Values`), and `Plus` is `+` on them;
`TotalFees` are the fees that `calculate` may hand out. The totals that are
debited, `dto.amount + feeBreakdown.totalFee` (`transfers.service.ts:88`,
`payments.service.ts:164`), are such a `+`: TotalDebit of InternalTransfers and
of Payments.

**Postings** is the pure part of `debit` and `credit`: the checks, the new
balance, the ledger row. A *posting* is one call of them; a *transaction* is the
list of postings between `startTransaction` and `commitTransaction`.

**AtomicLedger** is the abstract specification: a transaction is posted whole,
in one step, against the balances and statuses that hold at that step, and at
most once. No sessions and no locks.

**WalletLedger** is the implementation. A session is a database connection
inside a READ COMMITTED transaction: `Begin`, and for each posting
`RefuseAmount` (line 82/132), `SelectForUpdate` (85-88), `Refuse` (90-101),
`Write` (103-124, the UPDATE of the balance and the INSERT of the row, which
nobody sees before the commit), `WriteFails` (the column is too small); then
`Commit`, or `Abort` at any moment (an error, the death of the process). Row
locks are kept until the end; `DeadlockVictim` is PostgreSQL's detector.
`FreezeWallet` is the one-statement transaction of `admin.module.ts:181`; it
needs the row lock. Nothing in the repository closes or unfreezes a wallet;
`SetStatusByHand` is an operator's SQL. **Reconciliation** adds
`reconcileBalance`.

**InternalTransfers** composes WalletLedger with the request around it: it reads
the parties and the tier (`ReadParties`), passes or exceeds the limit
(`PassDailyLimit`, `ExceedDailyLimit`), begins and inserts the row
(`BeginTransfer`), posts (`PostLedger` is a step of WalletLedger), completes
(`CompleteTransfer`) or fails (`FailTransfer`). Tiers, deposits in PROCESSING
(which count for the limit), the clock and freezes change at any moment.

**Settlement** is the abstract specification of the payments: for each transfer,
whether its posting is in the ledger, whether the provider was asked and has
settled, and whether it is done. No queue, no attempts, no events, no handlers.

**Payments** is deposits and withdrawals on one wallet with the wallet's part of
each transaction as one step: LedgerProofs justifies that. The
request, the job's handler and the webhook handlers share the transfer row
without a lock. Bull is modelled by what it does: a job that throws is tried
`Attempts` times and then reported to `onFailed`; a job whose worker dies is
handed out again `MaxStalls` times and then dropped without an attempt having
been counted. `onFailed` is a listener in the worker's process that runs once Bull has
moved the job to its failed ones: either it marks the row (`OnFailed`), or its
UPDATE is rejected or the process dies first and nobody runs it again
(`OnFailedLost`). The provider answers what the mock of its kind can answer
(`Answers`: Stripe's has no "pending"), settles pending charges, and reports;
`Parsed` is the mapping of an event's status, which is not the same for the two:
Flutterwave's is taken over, and of Stripe's everything but success is a
failure. `Repaired` is a set of transfers for which `completeDeposit` accepts
PROCESSING beside PENDING: empty for the program as it is. Without one nothing
reaches the transaction inside `completeDeposit` (section 4), so the run repairs
one of its deposits to check that code too.

**Idempotency** is `IdempotencyInterceptor.intercept` statement by statement: look
up by key *and* endpoint, insert under a unique index on the key alone, run the
handler, let the client have its answer while the record is updated (`tap` does
not await), with a death possible at each place, plus the nightly clean-up.

**FeeRules** is the arithmetic of `calculate` on JavaScript values (a number, or
the string a BIGINT column arrives as). **FeeQuotes** is the table, the cache of
each process (`CacheModule.register` keeps it in memory, in spite of the
comments that speak of Redis), the requests that look up, read and fill, and the
administrators that save and then invalidate.

**KycReview** is `submitKyc` (read the user, look for a pending submission, save,
enqueue: four statements) and the review job with its two updates, which asks
the provider anew when it is retried.

**FraudScreening** is `evaluate`: rules from the cache or the table, checked in
order of priority, velocity counters read and written in two steps, alerts saved
concurrently, then the verdict. Whether a statistical rule triggers is a choice.

**Accounts** is `AuthService` on the row of one user, with `createWallet`, which
like `register` looks first and inserts later, `JwtStrategy.validate` in front of
what needs a token, and the administrator who suspends and activates. What a
call reads in one statement it writes back in another; a process may die
between them. A hash stands for the token it was made from. `ComparedWhole` says
whether comparing a token with a hash reads all of the token: FALSE, as bcrypt
reads 72 bytes, and the tokens of one user agree on those.

**ExchangeRates** is the table of rates, a cache in each process, requests that
look up, read and fill, or save a new row when they find none, and the task that
saves a row for each pair. A rate is a fraction, its jitter part of it; `Convert`
is `convert` with its spread and rounding.

MC modules only give constants their values. Operators commented "Fault:" are
plausible bugs, used by no specification: with one in the place of the
definition that follows it TLC must find the property it is paired with
violated (`mutants` in PROJECT.json).

## 3. Runs

| Run | Configuration | Question | Result |
| --- | --- | --- | --- |
| `ledger` | `MCWalletLedger_shipped` | Do concurrent transactions with row locks keep the ledger whole, and implement AtomicLedger, and end? | yes |
| `strings` | `MCWalletLedger_strings` | Does every balance equal the sum of its ledger rows? | **no** |
| `transfers` | `MCInternalTransfers_shared` | Do transfer rows and ledger rows appear together, and how far can the daily limit be overrun? | together; by one amount per other session |
| `payments` | `MCPayments_shipped` | Under throws, retries, stalls and webhooks: do payments implement Settlement, how often is the provider charged, does everything end? | yes; once per attempt and stall; yes |
| `deposit_lost` | `MCPayments_deposit` | Is a charged deposit completed? | **no** |
| `no_reversal` | `MCPayments_reversal` | Does a refused withdrawal give the money back? | **no** |
| `idempotency` | `MCIdempotency_once` | One execution at a time, one effect per window, exact replays? | yes |
| `fees` | `MCFeeQuotes_recent` | How old may the rule behind a fee be, and when does a process keep an outdated one? | the life of a cache entry and its fill; races only |
| `kyc` | `MCKycReview_reviews` | Are tiers granted for approvals only, and is what is queued reviewed? | yes |
| `fraud` | `MCFraudScreening_screening` | What does the counter count, how old may rules be, do alerts precede the verdict? | see below |
| `accounts` | `MCAccounts_lockout` | How many passwords can be tried before a lock, is everything created once, what ends a session? | see below |
| `rates` | `MCExchangeRates_fresh` | How old may a quoted rate be, and can converting there and back gain? | a cache entry and its fill beyond its expiry; no |

**ledger.** alice and bob transfer in both directions (so the locks are taken in
opposite orders), withdraw, deposit, and name each other's wallets; a freeze may
come at any moment. `LedgerChained` would be broken by a lost update: without
`FOR UPDATE` TLC breaks it. `IInv`, the inductive invariant of the proof, contains it
with the types and with `BalanceIsNewestEntry`, that the balance column is the
`balanceAfter` of the newest committed row. `OnlyActiveWalletsDebited` says
that a freeze that has returned stops every later debit, also of a transaction
that read the wallet as active before; it holds since the freeze needs the row
lock. `NoGroupStuck`: take any sessions that wait for nobody outside their group;
one of them can go on, or is on a cycle that the detector breaks. A row lock that
outlived its transaction would violate it without any cycle, so it is about the
rollbacks in the catch blocks as much as about the detector.
`EveryTransactionEnds` needs the deadlock detector *and* the rollback in
the catch block. `CoversLedger` is what remains true of the sums although
credits concatenate.

**transfers.** `RowsMatchLedger`: a completed row has exactly its two postings, of
the total as it is computed and of the amount, and no posting is without its row;
the fee of alice's transfers is a string, of bob's a number. The limit is checked before the transaction and
locks nothing, so `DailyLimitKept` is false (section 4); `DailyOvershootBounded`
is what the code does guarantee: since midnight, at most the limit of the best
tier used, plus one largest amount for each *other* session, also across
midnight, tier changes and deposits. Requests that are refused (same wallet,
foreign wallet, zero amount) are among the inputs.

**payments.** `ImplementsSettlement` says at once what each handler relies on
another for: a withdrawal is paid out only once debited, and debited once;
COMPLETED is written only when the provider has settled, and for a deposit with
its credit; only a transfer that was asked for is settled. What Settlement does
allow is a revoked COMPLETED and a second credit of a deposit, since the code
excludes neither. `ChargesBounded`: one charge for each attempt and one for each
stall, which is more than one: the provider's idempotency (the reference passed
to `charge`) has to absorb them, and is outside the model. `JobsEnd`: every
queued job comes to rest, and the row of a withdrawal is then COMPLETED or
FAILED, unless its job was dropped or its listener lost. Its two halves are properties of their own, which can be proved:
`JobsCountDown`, each step of a job lowers the number of statements, attempts and
stalls it has left (`Left`), whichever way throws and stalls alternate; and
`EndedWithdrawalsAreDecided`, no job ends and leaves its withdrawal PROCESSING.
The latter rests on `onFailed`, as an attempt may throw before it writes
any status, and has two real exceptions, in both of which a debited withdrawal
stays PROCESSING for good: a job dropped as stalled has not exhausted its
attempts, so the listener leaves it alone; and the listener itself may be lost.
The fee of the withdrawal is the string "1", so the debit of 3 and its fee is 31:
all properties are about the total the code computes, whatever it is
(that it is not amount and fee is in section 4).

**no_reversal.** The provider refuses the charge, `handleWithdrawal` writes FAILED
and throws, the other attempts throw as well, and when the job is given up
no credit has come; there are no webhook events in this run, the provider has
neither paid nor still to decide.

**idempotency.** `EffectOncePerWindow` covers deaths between the effect and the
update of the record: such a record stays in-flight, so the effect is not
repeated; the price is in section 4.

**fees.** `QuotesAreRecent` bounds the age of a rule for every process, also those
that never hear of an invalidation. `OnlyRacesKeepStale`: in the process that
served the update, an outdated rule stays only if a request read it before and
filled the cache after. `NumericFeesAreExact`: floor, cap and sum are right as
long as no BIGINT string is involved (where an administrator has put the floor
above the cap, the cap wins, as it is applied last).

**kyc.** A retried review may reverse its verdict; `GrantsMatchVerdicts` says
which combinations can remain, and, as the safety half of `QueuedIsReviewed`, that
no job is done whose submission has no verdict, as it would be if the handler
swallowed an error. `DuplicatesNeedOverlap`: two pending submissions
for a tier come only from overlapping requests.

**fraud.** `CountIsStreak`: the counter is the number of checks, *each within a
window of the one before*, and increments are lost only when checks overlap:
`README.md:127` promises a rolling window (section 4). `RulesAreRecent` bounds
the age of the rules by their two minutes.

**accounts.** `GuessesBounded`: `README.md:145` promises a lock after 5 wrong
passwords. The counter is read, incremented and written back, so with `k`
concurrent clients and a limit of `n` the code guarantees
`(k - 1) + choose(n + k - 1, k)`, and TLC reaches that number for `k` up to 3 and
`n` up to 4: two clients get 16 tries where 5 are promised. `CreatedOnce` rests
on the unique indexes alone. `LockStopsLogins`: the row is read by one statement of a
login and written by later ones, so a lock does not stop the logins that were past
the password when it was set; they may even lift it (section 4). It stops all
others, also when a stale counter is written back over the lock, renews it, or
the lock is lifted and set again: none of them is about to reset the counter or
to be given tokens while the account is locked.

**rates.** `ExpiryIsNear` and `NewerRatesPrevail` bound the age of a quoted rate
over all processes, also when a row read before a refresh is put into the cache
after it. `RoundTripsLose`: each row has a jitter of its own, drawn by whoever
saved it, and the spread outweighs any two of them, with the rounding.

## 4. Known disagreements

Findings that the listed runs show:

- `wallets.service.ts:144` concatenates decimal strings, so a credit of a wallet
  that is not empty multiplies its balance (`strings`). With `Int8AsText = FALSE`
  `Reconciles` holds: `MCWalletLedger_numbers.cfg`.
- `payments.service.ts:241` accepts PENDING only, which both callers have left
  behind: no charged deposit is ever credited (`deposit_lost`).
- `payments.processor.ts:128` says it must reverse the debit of a refused
  withdrawal and does not (`no_reversal`).

### Other known disagreements

Each is a property stated in its module, with a configuration to be run by hand
that TLC refutes; they are not among the runs, which ask other questions. Where
a configuration lists several, TLC stops at the first it finds: leave one at a
time in the list to see the trace of each.

| Property | Configuration | What the trace shows |
| --- | --- | --- |
| `FrozenWalletsDoNotMove` | `MCWalletLedger_frozen` | `credit` refuses closed wallets only; `admin.module.ts:174` says a freeze prevents credits too |
| `DailyLimitKept` | `MCInternalTransfers_documented` | two concurrent transfers both pass the check |
| `RollingLimitKept` | `MCInternalTransfers_documented` | the sum starts at midnight; `transfers.service.ts:195` says 24 hours |
| `CurrencyMatches` | `MCInternalTransfers_documented` | `dto.currency` is never compared with the wallets |
| `DebitIsAmountPlusFee` | `MCInternalTransfers_documented` | a fee that is a string is appended to the amount; `transfers.service.ts:113` says "amount + fee" |
| `DebitIsAmountPlusFee` | `MCPayments_documented` | the same for a withdrawal; `fees.service.ts:18` says `totalFee: number`. With the seeded rule USD_WITHDRAWAL, whose floor arrives as "100" and whose tax is 0, a withdrawal of 500 has a fee of "1000" and debits 5001000 |
| `GivenUpIsDecided` | `MCPayments_documented` | the listener's UPDATE is rejected after Bull has given the job up, or the process dies; `payments.processor.ts:143` says the transfer is then marked as failed |
| `PermanentlyFailed` | `MCPayments_documented` | an event's handler that read PROCESSING overwrites the FAILED of `onFailed` |
| `DebitedIsQueued` | `MCPayments_documented` | `queue.add` fails after the commit: debited, and no job |
| `FailedByNews` | `MCPayments_documented` | a Stripe event about progress fails the transfer; `webhooks.processor.ts:86` reports a failed payment |
| `InFlightIsProcessing` | `MCIdempotency_documented` | a record whose process died stays in-flight and answers 409 for good |
| `FailedMayRetry` | `MCIdempotency_documented` | failed records are replayed like completed ones |
| `FeeWithinCap` | `MCFeeQuotes_documented` | `fees.service.ts:68` adds a tax to a string: a fee at its cap is ten times the cap and more |
| `InvalidatedImmediately` | `MCFeeQuotes_documented` | another process, or a racing fill, keeps the old rule |
| `OnePendingPerTier` | `MCKycReview_pending` | check-then-insert without a unique index |
| `ReviewsOnlyRaise` | `MCKycReview_lowered` | the approval for tier 2 after that for tier 3 lowers the tier |
| `WindowIsRolling` | `MCFraudScreening_documented` | each check restarts the window, so slow but steady payments are blocked |
| `RulesTakeEffectImmediately` | `MCFraudScreening_documented` | cached rules are used for two minutes after a change |
| `RotatedTokensRefused` | `MCAccounts_documented` | a rotated refresh token is accepted again; `README.md:143` says "immediately invalidated" |
| `ReuseIsDetected` | `MCAccounts_documented` | the same step: the old token compares equal to the new one's hash, so no reuse is seen; `README.md:144` and `auth.service.ts:112` say all sessions are invalidated |
| `LogoutSticks` | `MCAccounts_documented` | a refresh that has passed its check writes its hash over the logout's null; `auth.controller.ts:61` says the token is invalidated |
| `SuspendedGetNoTokens` | `MCAccounts_documented` | refresh does not look at the status; `admin.module.ts:109` says a suspension blocks login |
| `LocksLast` | `MCAccounts_documented` | a login that read the row before a lock lifts it; `README.md:145` says 30 minutes |
| `ExpiredRatesAreNotQuoted` | `MCExchangeRates_expired` | a cached rate is returned without a look at its expiry; `exchange-rate.entity.ts:32` says "force refresh" |

A webhook event whose row is saved and whose job is not (`EventStranded` in
Payments) is never processed: every redelivery is taken for a duplicate. A review
that raised the tier, then threw, and was refused when it was tried again, leaves
a rejected submission whose tier stands (KycReview has the steps; the code says
nothing of it). Velocity checks that overlap count once. And
`README.md:125` says that fraud rules see "every transfer", while
`internalTransfer` never calls `FraudService`.

## 5. Bounds, symmetry, fairness

Every bound is a constant whose comment says "bound". They only cut off
initiating actions (`Begin`, `Initiate...`, `Tick`, `SwitchRule`), never the end
of something begun.

- *ledger*: two sessions, two wallets, three transactions. Two sessions are enough
  for every two-party race, the third transaction meets the leftovers of the
  other two. `BigIntMax = 99` makes overflow of the column reachable (999 in `transfers`, where three credits of one wallet must fit).
- *transfers*: two sessions, three transfers of equal size of one user, with a fee
  that is a string, against a limit that two of them exceed, and transfers of
  another user the other way (the locks are taken in both orders); one tick, a day
  of one tick (midnight is crossed), one deposit, a tier that is set back and granted again.
- *payments*: one of three payments is initiated (a withdrawal, a deposit, and a
  deposit through the other provider for which `completeDeposit` is repaired),
  two attempts, one stall, two events with one try each. Payments share no state
  but the balance, so one at a time shows every race over a transfer row, and
  the second event meets what the first has left, and reads the row anew just as
  a second try of the first would. The code has three attempts;
  a second retry starts where the first did, and `ChargesBounded` and
  `ImplementsSettlement` are proved for any number. The wallet opens with 40, enough
  for a debit of 3 whose fee is the string "1" (31; in `transfers` it is 41 of
  130, enough for three).
- *idempotency*: three requests with one key and a fourth on another endpoint; time
  reaches beyond the age at which records are deleted.
- *fees*: two rows of different priority, two processes, three requests, one
  administrator, three ticks against an entry that lives one.
- *kyc*: two submissions for one tier; three attempts and one stall as in the code;
  an override to 0.
- *fraud*: three screenings in one process (counters and caches of processes are
  independent), two rules, window and rules' life of one tick, two ticks, one
  change of the rules.
- *accounts*: three calls at a time, two pairs of tokens (three by hand), a lock
  of two ticks and two ticks, a limit of 3 wrong passwords (5 in the code): enough for a
  counter to be taken back from every height below the lock.
- *rates*: two calls (of requests or of the task) in two processes, rows that live
  two ticks and entries that live one, one tick between a read and its fill,
  two rows, four ticks; the extreme jitters in both directions, and amounts
  from one unit up. The pair is dollar and euro; the products of the rates of the
  other pairs in MOCK_RATES with an inverse are within 0.3% of one too.

Symmetry is declared for sessions, calls, processes, quotes and screenings that
the instance does not tell apart, in runs that check invariants only; no run
with a liveness property uses it.

Fairness is weak and per process. WalletLedger: each session goes on when it can,
since Node awaits each query and PostgreSQL grants locks; it is not assumed
that a session gets a lock that others keep taking, only that its *steps* are
not forgotten, and that the deadlock detector runs. Payments and KycReview: a
request that has begun goes on (until it fails), and Bull serves every job
and hands a stalled one out again. That the failed-listener runs is *not* assumed:
after the last attempt it runs or is lost, one of the two. No fairness is
assumed for clients, administrators, providers, webhooks or clocks. Deadlock
checking is off where the system may really stop, which is when the bounded
number of requests has been served.

## 6. Proofs

Eight modules hold the theorems, one for each part of the system (LedgerProofs
is about WalletLedger, its refinement, InternalTransfers and Reconciliation
together). Every theorem is about arbitrary sets of wallets, users, sessions,
requests, processes, rules and rows, and arbitrary amounts and times, under the
named assumptions of the modules, which TLC evaluates in every run:

- amounts, fees and what is credited fit their column, and every such number has a
  power of ten above it (Money), with either value of `Int8AsText`; what is debited
  may be of any size, and is then refused;
- a transaction names a wallet at most once and has a posting (Postings;
  `internalTransfer` refuses equal wallets);
- sessions, screenings and calls are finite in number at a time (`IsFiniteSet`):
  the pool of connections is, `app.module.ts:58` has `max: 20`;
- `SpreadAssumption` (ExchangeRates): a jitter adds no more than half a per
  cent, and there and back at the middle rates of the table gains no more than
  2%; the pairs of MOCK_RATES with an inverse gain 0.1% at most.

One theorem has an assumption of its own: `NumbersReconcile` that BIGINT columns
are read as numbers, which is the repair of the finding in section 4.

Each proof has the same layout: types and small facts, one lemma for each action
that shows that it keeps the invariant, one step per conjunct it disturbs, the
induction, and a theorem for each property of the run. What follows is why the
invariants are as they are.

### The ledger (LedgerProofs)

`LedgerChained` and `BalanceIsNewestEntry` are not inductive: whether a commit
extends the chain depends on balances that the session computed long before.
`IInv` adds the chain of reasons:

- `LocksHeld`: a session holds the lock of every wallet it has read or written;
- `ViewsStayTrue`: hence what it read is still what is committed, and every
  balance it wrote is the new balance of the committed one;
- `InStep`: it has written one balance per posting done, all of them at commit;
- `IdsUnique`: no transfer id is used twice, so a ledger row is never repeated.

Only `SelectForUpdate` creates views, and needs the lock; only `Commit` and the
two writers of the status disturb the rows of others, and need the lock to be
free or theirs. `SelectForUpdate` without its lock, or a freeze that does not
wait, breaks `IInv` in TLC.

*Sums.* `Total` is a recursive function, and induction over it is out of reach as
a schema, but not as a minimal counterexample: a set of naturals has a least
element (from the well-foundedness of `<`), so a first row where two sums
disagree is refuted by the row before it. That gives that the function exists
and is integer-valued, that a row appended adds its amount, and that sums are
monotone (`SumExists`, `SumIsInteger`, `TotalFacts`, `SumsCompare`).
`WalletsCoverLedger` and `NumbersReconcile` compare in this way the balances after
each row, which `LedgerChained` links, with the partial sums; `AmountsFit` says
that every row's amount fits the column.

*Transfers.* `TransfersInv` shows that each step of the larger system is a step of
the wallets or leaves them alone, which brings all the theorems about them.
`RowsInv` is `RowsMatchLedger` with the types of the rows: by `IdsUnique`, and
since a session posts the transaction of its request, the commit that completes a
row is the only one that adds rows under its id.

*Deadlock.* That a group of waiting sessions is never stuck has two parts.
`LocksOwned`, an invariant beside `IInv`: whoever holds a row lock is running,
since `Finish` gives up all of a session's locks together with its place. So each
blocked session waits for a running one (`BlockedWaits`), of the same group. And
where each member of a finite group waits for a member, there is a part of the
group that is exactly what it waits for (`SomePartIsItsImage`: the smallest part
that is closed under the waiting; finite sets have one). Its members are on
cycles, which is what `Deadlocked` says. The transfers inherit the theorem through
`TransfersUseTheLedger`: only that some session then *takes* its step is fairness.

*The limit.* `DailyOvershootBounded` says nothing of the sessions that have passed
the check and not yet committed, so it is not inductive. `LimitInv` quantifies
over every *subset* P of them: what has moved, the amount of one of them, and
one largest amount for each of the others, are within the highest limit seen by
a completed row or a session of P, plus `N - 1` largest amounts. A session that
passes its check establishes it with itself as the one; one that commits was in
P before; one that dies leaves the claim for the subsets without it; and the
quantifier over P is what makes the highest limit the right one when a session
with a higher tier goes away. `MovedFacts` and `DailyTotalCovers` connect the two
sums: at the check, everything that has moved since midnight is in the sum the
code computes (which counts deposits in PROCESSING too).

| Theorem | Says |
| --- | --- |
| `Invariance` | `IInv` is invariant |
| `TypeCorrect`, `NoLostUpdate`, `BalanceAgrees`, `ViewsAreStable` | its parts |
| `DebitsNeedActiveWallets` | `OnlyActiveWalletsDebited`: at commit, the views say active |
| `Refinement` | `Spec => Atomic!Spec`: `Commit` maps to `Post`, `FreezeWallet` and `SetStatusByHand` to `SetStatus`, everything else stutters |
| `NoGroupIsStuck` | `NoGroupStuck`, for any number of sessions and locks in any order |
| `WalletsCoverLedger` | `CoversLedger`, with strings as with numbers |
| `NumbersReconcile` | `Reconciles`, with numbers |
| `TransfersUseTheLedger` | `TransfersSpec => Spec` of WalletLedger: the larger system uses the wallets only through their actions |
| `NoLostTransfer` | hence `LedgerChained` with internal transfers on top |
| `StagesFollowLedger` | a request's stage agrees with the session that serves it |
| `TransfersAreWhole` | `RowsMatchLedger` |
| `OvershootIsBounded` | `DailyOvershootBounded`, for any number of sessions |

### Payments (PaymentsProofs)

That Payments implements Settlement is proved for any transfers, attempts,
stalls, events and tries, whichever deposits are repaired. The states map by
what is in the ledger (`moved`), charged (`asked`), charged with success
(`settled`) and COMPLETED (`done`). A step that asks, completes or revokes is
allowed by what some *earlier* step of another process has left behind, so the
invariant `PInv` is about what handlers carry with them:

- `Debited`: a withdrawal has exactly one posting, of the total that was computed for
  it, from its request's commit on;
- `QueuedFirst`: only a queued transfer has a job or charges;
- `Believed`, `Reported`: a handler, or an event, that is about to complete a
  transfer was told of a success, and a charge that succeeded exists;
- `Accounted`: each charge is paid for by an attempt, a stall, or the handler now
  running, which gives `ChargesBounded`.

*The end of a job.* `EndedWithdrawalsAreDecided` is not inductive: the handler that
is about to return must already have decided, and a decided row must stay so
while webhook handlers write late. `Decided` adds the place "notify" to the ends,
where a withdrawal has its verdict; once its job is past the charge, whoever
writes the status writes a terminal one. Nothing is claimed where the listener is
lost or the job dropped, and nothing could be.
`JobsWindDown` is the descent that makes a job end: each throw spends an attempt,
each stall a stall, each counting for more than all statements of the handler
together (`Nearer`), and each other step brings the handler to a later
statement. What `JobsEnd` adds to the two theorems is that a job which can go on
does go on.

| Theorem | Says |
| --- | --- |
| `PaymentsTyped`, `ChargesAreBounded` | types; at most `Attempts + MaxStalls` charges |
| `PaymentsImplementSettlement` | `Spec => Settled!Spec` under the mapping above |
| `PaymentsAreSafe` | hence withdrawals are paid out after their one debit, and COMPLETED is backed, which Settlement keeps |
| `WithdrawalsAreDecided` | `EndedWithdrawalsAreDecided`: of the jobs that returned, or were given up and marked |
| `JobsWindDown` | `JobsCountDown`, an action property, for any attempts and stalls |

### Requests and reviews (IdempotencyProofs, KycReviewProofs)

That two handlers of a key never overlap needs only the in-flight record, but
that the second one's effect is a window away from the first one's needs to know
where the record of an effect has gone. The invariant of Idempotency says so
(`Dated`: an effect belongs to the record of its key, or to one that was old
enough to be deleted), that a handler about to act is the first under its
record (`Unacted`), and that an answer in a record is one which the request that
produced it can no longer contradict (`Stored`, `Replayed`).

In KycReview job, status, verdicts and grants of a submission agree at each
place of the handler (`Agrees`), so a retry with another verdict ends in a
combination that `GrantsMatchVerdicts` allows; and what was pending when a
request began is not pending once the request has passed its check (`Ordered`),
so duplicates need an overlap. `Checked` says that the handler gets past its first
update only by making it, and that one that does not run stands at no statement:
so what returns has been reviewed.

| Theorem | Says |
| --- | --- |
| `IdempotencyTyped`, `AtMostOneExecution`, `EffectsOncePerWindow`, `ReplaysExact` | the invariants of the run `idempotency` |
| `ReviewsTyped`, `GrantsAreApproved`, `OnlyOverlapDuplicates` | the invariants of the run `kyc` |

### Caches (FeeQuotesProofs, FraudScreeningProofs, ExchangeRatesProofs)

The three have one shape: whoever holds a copy (a request between its read and
its fill, an entry, an answer) got it when it was current, and the time at which
that was so can be told from what it carries. `FairEntry` and `FairQuote`,
`RecentEntry` and `RecentRules`, `GoodEntry` and `GoodCall` say that, with the end
of the entry less its life and less the time a fill may take. An update makes
the old value one that ended now, which keeps each claim true. `RowsInOrder`
(rates come in the order of their creation) makes the newest row of a read the
newest for as long as the clock does not pass a later one.

`OnlyRacesKeepStale` is inductive with what an administrator's request knows of
itself (`Administered`). `NumericFeesAreExact` rests on what `Calculate` does on
numbers, lemma by lemma: a percentage of at most 100 is no more than the
amount, rounding included; minimum and maximum; and that a sum is a number if
its parts are.

The counter of `CountIsStreak` is not a function of the checks made: increments
are lost when checks overlap. `Counted` says how a counter, its streak and what
a check has read of it belong together (`Matching`), `Alone` that only one check
of a process is between its read and its write until they have overlapped once,
and `Bounded` that a counter, or what was read of it, is no more than the number
of screenings that are done with the rule, which bounds it without bounding time.

`RoundTripsNeverGain` is arithmetic: twice the spread outweighs the two jitters,
the imbalance of the table and the rounding of each conversion, for each amount.

| Theorem | Says |
| --- | --- |
| `FeeTypesHold`, `QuotesStayRecent`, `StaleRulesAreRaces`, `FeesAreExact` | the invariants of the run `fees` |
| `ScreeningTypesHold`, `CountersAreStreaks`, `ScreenedWithRecentRules`, `AlertsComeFirst` | the invariants of the run `fraud` |
| `RatesTypesHold`, `QuotesExpireSoon`, `NewerRatesTakeOver`, `RoundTripsNeverGain` | the invariants of the run `rates` |

### Accounts (AccountsProofs)

`AInv`: only a registration runs before there is a row (`RowKnown`), so every
write finds one; the histories count the rows there are (`RowsCounted`); what is
bounded leaves room for each call on its way to a pair of tokens (`RoomKept`,
which `TypeOK` needs at `Sign`).

*What a lock stops.* `LockStopsLogins` is inductive beside `AInv`: a login gets past
its password only while the account is open (`LoginRight`; `InsertUser` writes a
row that has no lock), the step that closes the account notes who is past it,
a renewal adds nobody, and each step that resets the counter also opens the
account (`RecordStops`, `CallStops`).

*What the lockout is worth.* Nothing in the state counts the wrong passwords, and
the counter goes up and down, as a call may write back a value it has read long
ago. What does go up is the ensemble. Take each call as a climber who stands at
the attempts it has read, or at the row's if it has not read or the row holds
less by now (`Value`). A recorded attempt sets the row to some `p`, and with it
all who have not read: its climber reaches `p` from below, and whoever falls,
falls no lower than `p`. In the order that compares two ensembles by how many
have left the ground, then by how many stand at 2 or higher, and so on upwards,
this is a step up. So the rank of an ensemble, the number of ensembles below it, bounds
the attempts so far: `Below`, and `Climbing` as the invariant. At the lock
all calls that have read may still write, which adds `k - 1`.

`Heights` is an ensemble as a profile: how many climbers are `m` or less below the
top. `Weight` counts the ensembles that a row of the profile is ahead of, and the
rank is the sum of the weights (`Sums`). The order is then three facts about
sums, each for any number of rows: raising any row raises the sum
(`SumsStayAhead`), a row raised by one outweighs whatever happens in the rows
before it, which count those who stand higher (`SumsGoUp`), and no sum reaches `Ways`, the number of all ensembles
(`SumsAreBelow`). They rest on Pascal's rule for `choose` of the community
modules, which is a quotient of factorials, and `factorial` is a recursive
function: as in LedgerProofs, that it exists and what it yields is shown by the
least number where a table of it would fail (`TableExists`, `TablesAgree`,
`FactorialFacts`), and that the quotient leaves no rest by the least sum where it
would (`AllWhole`). No multisets, and no induction schema.

| Theorem | Says |
| --- | --- |
| `AccountsTyped`, `OneRowEach` | `TypeOK`, `CreatedOnce` of the run `accounts` |
| `LocksHold` | `LockStopsLogins`, for any number of concurrent calls |
| `LockoutIsWorthThat` | `GuessesBounded`, for any limit and any number of concurrent calls |

### What the proofs showed about the models

FraudScreening decided at the read of a counter whether its streak goes on, and
let the write be for another rule of the same priority than the read was for:
now `Extended` decides at the write and `counting` names the rule. A fee can be
below its floor where the cap is lower still, so `NumericFeesAreExact` says what
it says now. ExchangeRates had no assumption that the table is balanced: at a
table that is not, converting there and back does gain, so `RoundTripsLose` is a
property of MOCK_RATES as much as of the code.

Payments as an implementation of AtomicLedger, a debit or a credit for each
posting, was tried and dropped: as shipped no deposit is ever credited, and with
the obvious repair (`Repaired`) the job and a webhook handler may each credit the
same deposit, which AtomicLedger forbids. Settlement therefore says what can be
promised: a COMPLETED deposit has its credit, perhaps more than once.

### Model-checked only

Liveness (`EveryTransactionEnds`, `JobsEnd`, `QueuedIsReviewed`): the prover has
neither fairness nor ENABLED. What of it is safety is proved: that a group of
waiting sessions is never stuck (`NoGroupIsStuck`), that the steps of a job count
down (`JobsWindDown`), and what holds when it has ended by itself
(`WithdrawalsAreDecided`, `GrantsAreApproved`). Every invariant and every action property of the passing
runs is a theorem.

## 7. Assumptions and omissions

- PostgreSQL does what it documents for READ COMMITTED: row locks until the end of
  a transaction, a locked read of the latest committed version, one victim of
  each deadlock, unique indexes that hold.
- Amounts are integers below 2^53: requests are validated as such, so JavaScript
  numbers are exact. Rates of fees and taxes are whole percentages here (7.5% is not
  among them) and rounded as `Math.round` does.
- `heldBalance` is 0 for ever: the code writes it nowhere else.
- The fee of a transfer or payment is a constant of the request in
  InternalTransfers and Payments, any number or string that fits its column;
  FeeQuotes has how it comes about.
- A stalled job is handed out again once its first worker is dead: a worker that
  was only slow, and goes on beside the second, is not modelled. Taking a job and
  its first UPDATE (PROCESSING, for a deposit) are one step of Payments.
- FraudScreening saves no more alerts of a screening once one has failed; in the
  code the others, which were begun with it, may still be saved, without a verdict.
- The TTL of a cache entry is in ticks. Between a read of the table and the entry
  made from it at most `FetchTime` ticks pass in FeeQuotes, none in
  FraudScreening, where a tick is long.
- The review's "expired" status and the types of fraud rule without a check
  are written by no code or never trigger.
- KycReview is about one user, FraudScreening about one user, currency and tier:
  nothing is shared beyond that but the rules.

- Accounts is about one user and one currency. `bcrypt.compare` reads 72 bytes, and
  the tokens of one user agree on those (header, and a payload that begins with
  the user's id): so the branch for a reused token, `auth.service.ts:110`, is
  unreachable as shipped; `ComparedWhole = TRUE` reaches it. `lastLoginAt` is
  only shown. The limit of requests per address is not modelled.
- A rate is an exact fraction in ExchangeRates; the code's numbers have eight
  decimals. A look-up that finds an entry answers from it in one step.
- The value that stands for "no request" in InternalTransfers is no request.

Not modelled: notifications and audit (output that nothing reads back; that
sending may fail is a step of Payments), reports (queries), health, bootstrap,
filters, the signatures of webhooks, the KYC guard (it reads the tier of the
token's user; `internalTransfer` reads it again and that read is modelled), and
the changes of a user's name or phone number and of an alert's review, which
write columns that nothing reads.

## 8. Plan

Done: the ledger with its abstract specification, internal transfers, payments
with webhooks and their abstract specification, idempotency, KYC, fees, fraud
screening, accounts, exchange rates; and proofs of every invariant and action
property the runs check.

What would come next, in this order:

1. A composition of Idempotency with InternalTransfers: one effect per window of a
   transfer whose transaction may abort after its answer is lost.
2. The deduplication of webhook deliveries with several processes.
3. The commit of a withdrawal in Payments as a step of AtomicLedger (deposits
   cannot be, see section 6), so that the step in Payments is justified by a
   theorem rather than by its reading.
4. The repairs of the findings in section 4 as variants of the models, with the
   properties they are known to violate as theorems of the variants.
