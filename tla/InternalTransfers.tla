------------------------- MODULE InternalTransfers -------------------------
(***************************************************************************)
(* TransfersService.internalTransfer on top of the wallets: a request      *)
(* reads the wallets and the user, checks the daily limit and computes the *)
(* fee on connections of the pool, and only then opens the transaction     *)
(* that inserts the transfer row, debits, credits and marks it completed.  *)
(* Nothing locks the user or the rows that the limit was summed over.      *)
(*                                                                         *)
(* A session of WalletLedger serves one request at a time; stage says how  *)
(* far the request is before and while its transaction runs.               *)
(***************************************************************************)
EXTENDS WalletLedger

CONSTANTS
    CurrencyOf,     \* CurrencyOf[w]: the wallet's currency column
    Requests,       \* the DTOs clients may send, with the caller's user
    FeeOf(_),       \* FeesService.calculate(request).totalFee, number or string
    DailyLimit,     \* DAILY_LIMITS for the tiers below Unlimited
    Unlimited,      \* the tier whose limit is Infinity
    TicksPerDay,
    MaxTime,        \* bound: the clock stops there
    TiersByHand,    \* TiersByHand[u]: the tiers that approvals and overrides set
    Deposits,       \* deposits that may start processing: [user, currency, amount]
    MaxRows         \* bound: transfer rows in a behaviour

(* `dto.amount + feeBreakdown.totalFee`: the sum only when the fee is a    *)
(* number.  A fee that is a string is appended to the digits of amount.    *)
TotalDebit(amount, fee) == Plus(Number(amount), fee).n

(* The postings of one internal transfer: the total leaves the source, the *)
(* amount alone reaches the destination.                                   *)
TransactionOf(r) ==
    [user |-> r.user,
     postings |-> << [wallet |-> r.source, type |-> "debit",
                      amount |-> TotalDebit(r.amount, FeeOf(r))],
                     [wallet |-> r.destination, type |-> "credit", amount |-> r.amount] >>]

NoRequest == [user |-> NoSession]

(* Requests that have two wallets and an amount.                           *)
SoundRequests == {r \in Requests : r.source # r.destination /\ r.amount > 0}

ASSUME RequestsAssumption ==
    /\ NoRequest \notin Requests
    /\ \A d \in Deposits : d.amount \in Nat
    /\ Unlimited \in Nat
    /\ DailyLimit \in [0..Unlimited - 1 -> Nat]
    /\ TicksPerDay \in Nat \ {0}
    /\ MaxTime \in Nat /\ MaxRows \in Nat
    /\ TiersByHand \in [Users -> SUBSET (0..Unlimited)]
    /\ \A r \in SoundRequests :
          FeeOf(r) \in TotalFees /\ TransactionOf(r) \in Transactions

VARIABLES
    kycTier,    \* kycTier[u]: the user's column
    clock,      \* the database's time, in ticks
    rows,       \* the transfers table as others see it, oldest first
    stage,      \* stage[s]: "none", "limit", "begin" or "posting"
    request,    \* request[s]: the DTO it serves
    tierSeen,   \* tierSeen[s]: the tier it read
    createdAt   \* createdAt[s]: the time its transaction started

requestVars == <<stage, request, tierSeen, createdAt>>
transferVars == <<vars, kycTier, clock, rows, requestVars>>

TransfersInit ==
    /\ Init
    /\ kycTier \in {f \in [Users -> 0..Unlimited] : \A u \in Users : f[u] \in TiersByHand[u]}
    /\ clock = 0
    /\ rows = <<>>
    /\ stage = [s \in Sessions |-> "none"]
    /\ request = [s \in Sessions |-> NoRequest]
    /\ tierSeen = [s \in Sessions |-> 0]
    /\ createdAt = [s \in Sessions |-> 0]

-----------------------------------------------------------------------------
StartOfDay(now) == now - (now % TicksPerDay)

(* Fault: transfers that have completed are not counted.                   *)
ProcessingTotal(u, c, since) ==
    LET counted(t) == /\ t.user = u /\ t.currency = c /\ t.createdAt >= since
                      /\ t.status = "processing"
    IN  Total([k \in DOMAIN rows |-> IF counted(rows[k]) THEN rows[k].amount ELSE 0])

(* SUM(amount) of the user's rows in that currency, COMPLETED or           *)
(* PROCESSING, of every type: deposits count as well.                      *)
DailyTotal(u, c, since) ==
    LET counted(t) == t.user = u /\ t.currency = c /\ t.createdAt >= since
    IN  Total([k \in DOMAIN rows |-> IF counted(rows[k]) THEN rows[k].amount ELSE 0])

WithinDailyLimit(r, tier) ==
    tier # Unlimited =>
        DailyTotal(r.user, r.currency, StartOfDay(clock)) + r.amount <= DailyLimit[tier]

(* Fault: the handler returns without leaving its stage.                   *)
DropRequestOnly(s) ==
    /\ request' = [request EXCEPT ![s] = NoRequest]
    /\ tierSeen' = [tierSeen EXCEPT ![s] = 0]
    /\ createdAt' = [createdAt EXCEPT ![s] = 0]
    /\ UNCHANGED stage

Drop(s) ==
    /\ stage' = [stage EXCEPT ![s] = "none"]
    /\ request' = [request EXCEPT ![s] = NoRequest]
    /\ tierSeen' = [tierSeen EXCEPT ![s] = 0]
    /\ createdAt' = [createdAt EXCEPT ![s] = 0]

(* The first Promise.all and the checks on what it returned; a request     *)
(* that fails one of them changes nothing.                                 *)
ReadParties(s, r) ==
    /\ stage[s] = "none"
    /\ Owner[r.source] = r.user
    /\ r.source # r.destination
    /\ CurrencyOf[r.source] = CurrencyOf[r.destination]
    /\ r.amount > 0
    /\ kycTier[r.user] # 0
    /\ stage' = [stage EXCEPT ![s] = "limit"]
    /\ request' = [request EXCEPT ![s] = r]
    /\ tierSeen' = [tierSeen EXCEPT ![s] = kycTier[r.user]]
    /\ UNCHANGED <<vars, kycTier, clock, rows, createdAt>>

(* assertWithinDailyLimit, in the pool and not in the transaction.         *)
PassDailyLimit(s) ==
    /\ stage[s] = "limit"
    /\ WithinDailyLimit(request[s], tierSeen[s])
    /\ stage' = [stage EXCEPT ![s] = "begin"]
    /\ UNCHANGED <<vars, kycTier, clock, rows, request, tierSeen, createdAt>>

ExceedDailyLimit(s) ==
    /\ stage[s] = "limit"
    /\ ~WithinDailyLimit(request[s], tierSeen[s])
    /\ Drop(s)
    /\ UNCHANGED <<vars, kycTier, clock, rows>>

(* startTransaction and the INSERT of the PROCESSING row, which no other   *)
(* transaction sees.  createdAt is the start of the transaction.           *)
BeginTransfer(s) ==
    /\ stage[s] = "begin"
    /\ Len(rows) < MaxRows
    /\ Begin(s, TransactionOf(request[s]))
    /\ stage' = [stage EXCEPT ![s] = "posting"]
    /\ createdAt' = [createdAt EXCEPT ![s] = clock]
    /\ UNCHANGED <<kycTier, clock, rows, request, tierSeen>>

(* debit, then credit.                                                     *)
PostLedger(s) ==
    /\ stage[s] = "posting"
    /\ SelectForUpdate(s) \/ Write(s)
    /\ UNCHANGED <<kycTier, clock, rows, requestVars>>

RowOf(s) ==
    LET r == request[s]
    IN  [id |-> id[s], type |-> "internal", status |-> "completed", user |-> r.user,
         source |-> r.source, destination |-> r.destination, currency |-> r.currency,
         amount |-> r.amount, fee |-> FeeOf(r), createdAt |-> createdAt[s],
         tier |-> tierSeen[s]]    \* tier: history, no column

(* UPDATE to COMPLETED and COMMIT: the row and both postings appear.       *)
CompleteTransfer(s) ==
    /\ stage[s] = "posting"
    /\ Commit(s)
    /\ rows' = Append(rows, RowOf(s))
    /\ Drop(s)
    /\ UNCHANGED <<kycTier, clock>>

(* Fault: the transfer row is saved outside the transaction.               *)
FailTransferKeepingRow(s) ==
    /\ stage[s] = "posting"
    /\ Refuse(s) \/ WriteFails(s) \/ Abort(s) \/ DeadlockVictim(s)
    /\ rows' = Append(rows, RowOf(s))
    /\ Drop(s)
    /\ UNCHANGED <<kycTier, clock>>

(* The catch block: rollback, and the row vanishes with the postings.      *)
FailTransfer(s) ==
    /\ stage[s] = "posting"
    /\ Refuse(s) \/ WriteFails(s) \/ Abort(s) \/ DeadlockVictim(s)
    /\ Drop(s)
    /\ UNCHANGED <<kycTier, clock, rows>>

(* The process dies, or a query fails, before the transaction.             *)
LoseRequest(s) ==
    /\ stage[s] \in {"limit", "begin"}
    /\ Drop(s)
    /\ UNCHANGED <<vars, kycTier, clock, rows>>

-----------------------------------------------------------------------------
(* A KYC approval or an administrator's override.                          *)
SetTier(u, tier) ==
    /\ kycTier' = [kycTier EXCEPT ![u] = tier]
    /\ UNCHANGED <<vars, clock, rows, requestVars>>

Tick ==
    /\ clock < MaxTime
    /\ clock' = clock + 1
    /\ UNCHANGED <<vars, kycTier, rows, requestVars>>

(* PaymentsProcessor picks a deposit up: its row becomes PROCESSING.       *)
DepositProcessing(d) ==
    /\ Len(rows) < MaxRows
    /\ rows' = Append(rows,
                 [id |-> 0, type |-> "deposit", status |-> "processing", user |-> d.user,
                  currency |-> d.currency, amount |-> d.amount, createdAt |-> clock])
    /\ UNCHANGED <<vars, kycTier, clock, requestVars>>

Freeze(w) == FreezeWallet(w) /\ UNCHANGED <<kycTier, clock, rows, requestVars>>

TransfersNext ==
    \/ \E s \in Sessions :
          \/ \E r \in Requests : ReadParties(s, r)
          \/ PassDailyLimit(s)
          \/ ExceedDailyLimit(s)
          \/ BeginTransfer(s)
          \/ PostLedger(s)
          \/ CompleteTransfer(s)
          \/ FailTransfer(s)
          \/ LoseRequest(s)
    \/ \E u \in Users : \E tier \in TiersByHand[u] : SetTier(u, tier)
    \/ \E d \in Deposits : DepositProcessing(d)
    \/ \E w \in Wallets : Freeze(w)
    \/ Tick

TransfersSpec == TransfersInit /\ [][TransfersNext]_transferVars

-----------------------------------------------------------------------------
(* Indices of the rows of internal transfers.                              *)
InternalRows == {k \in DOMAIN rows : rows[k].type = "internal"}

(* Every variable of this module has its type, and a session is inside a   *)
(* ledger transaction exactly while its request is posting, for that       *)
(* request: the two state machines stay in step.                           *)
TransfersTypeOK ==
    /\ kycTier \in [Users -> 0..Unlimited]
    /\ clock \in 0..MaxTime
    /\ stage \in [Sessions -> {"none", "limit", "begin", "posting"}]
    /\ request \in [Sessions -> Requests \union {NoRequest}]
    /\ tierSeen \in [Sessions -> 0..Unlimited]
    /\ createdAt \in [Sessions -> 0..MaxTime]
    /\ \A s \in Sessions :
          /\ stage[s] = "posting" <=> Running(s)
          /\ stage[s] = "posting" => tx[s] = TransactionOf(request[s])
          /\ stage[s] = "none" <=> request[s] = NoRequest

(* A completed transfer row stands for exactly one debit of its total, as  *)
(* the service computes it, on its source and one credit of its amount on  *)
(* its destination, and no ledger row of a transfer is without its         *)
(* transfer row: also when the request fails, dies or is a deadlock victim *)
(* after the debit.                                                        *)
PostingsOf(entries, n, type, amount) ==
    {i \in 1..Len(entries) :
        /\ entries[i].transferId = n
        /\ entries[i].type = type
        /\ entries[i].amount = amount}

RowsMatchLedger ==
    /\ \A k \in InternalRows :
          LET t == rows[k]
          IN  /\ Cardinality(PostingsOf(ledger[t.source], t.id, "debit",
                                         TotalDebit(t.amount, t.fee))) = 1
              /\ Cardinality(PostingsOf(ledger[t.destination], t.id, "credit", t.amount)) = 1
    /\ \A w \in Wallets : \A i \in 1..Len(ledger[w]) :
          LET e == ledger[w][i]
          IN  e.transferId # 0 =>
                \E k \in InternalRows :
                    /\ rows[k].id = e.transferId
                    /\ w = IF e.type = "debit" THEN rows[k].source ELSE rows[k].destination

-----------------------------------------------------------------------------
MovedBy(u, c, since) ==
    LET moved(t) == /\ t.type = "internal"
                    /\ t.user = u /\ t.currency = c /\ t.createdAt >= since
    IN  Total([k \in DOMAIN rows |-> IF moved(rows[k]) THEN rows[k].amount ELSE 0])

Currencies == {CurrencyOf[w] : w \in Wallets} \union {r.currency : r \in Requests}

(* The highest limit some transfer of the user was checked against; only   *)
(* users none of whose transfers was unlimited are asked about.            *)
TiersUsed(u) == {rows[k].tier : k \in {j \in InternalRows : rows[j].user = u}}

HighestLimit(u) == LET limits == {DailyLimit[t] : t \in TiersUsed(u)}
                   IN  CHOOSE m \in limits : \A n \in limits : n <= m

Limited(u) == TiersUsed(u) # {} /\ Unlimited \notin TiersUsed(u)

LargestAmount == LET amounts == {r.amount : r \in SoundRequests}
                 IN  CHOOSE m \in amounts : \A n \in amounts : n <= m

(* How far the unlocked check can be overrun: what a user has moved since  *)
(* midnight exceeds the limit by at most one amount for each other session *)
(* (each may have passed its check before any of them committed).          *)
DailyOvershootBounded ==
    \A u \in Users, c \in Currencies :
        Limited(u) =>
            MovedBy(u, c, StartOfDay(clock))
                <= HighestLimit(u) + (Cardinality(Sessions) - 1) * LargestAmount

(* transfers.service.ts:194: "Verify that this user hasn't exceeded their  *)
(* KYC tier's daily limit."                                                *)
DailyLimitKept ==
    \A u \in Users, c \in Currencies :
        Limited(u) => MovedBy(u, c, StartOfDay(clock)) <= HighestLimit(u)

(* transfers.service.ts:195: "sum of all completed/processing transfers in *)
(* the last 24h".                                                          *)
RollingLimitKept ==
    \A u \in Users, c \in Currencies :
        Limited(u) => MovedBy(u, c, clock - TicksPerDay + 1) <= HighestLimit(u)

(* transfers.service.ts:113: "Debit the source wallet: amount + fee".      *)
DebitIsAmountPlusFee ==
    \A k \in InternalRows :
        LET t == rows[k]
        IN  \A i \in DOMAIN ledger[t.source] :
                LET e == ledger[t.source][i]
                IN  e.transferId = t.id /\ e.type = "debit" => e.amount = t.amount + t.fee.n

(* transfer.dto.ts:32: the currency "must match the source wallet          *)
(* currency".                                                              *)
CurrencyMatches ==
    \A k \in InternalRows : rows[k].currency = CurrencyOf[rows[k].source]
=============================================================================
