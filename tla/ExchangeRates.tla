---------------------------- MODULE ExchangeRates ----------------------------
(***************************************************************************)
(* ExchangeRatesService: rates are rows that expire, found through a cache *)
(* in each process, refreshed by a scheduled task in each process and, on  *)
(* demand, by whoever finds no row.  Calls look up, read, save and fill in *)
(* separate statements.                                                    *)
(***************************************************************************)
EXTENDS Naturals, Sequences, FiniteSetsExt

CONSTANTS
    Pairs,        \* pairs of currencies, as <<from, to>>
    MockRates,    \* MOCK_RATES[pair] = <<numerator, denominator>>
    Jitters,      \* the jitter of a new row, in 200ths: 199..201 is +-0.5%
    Refreshes,    \* the order in which the scheduled task goes through the pairs
    Processes,    \* processes of the application, each with its cache
    Calls,        \* requests for a rate, and runs of the task
    Amounts,      \* amounts to convert
    RowLife,      \* expiresAt - validAt: 5 minutes, as is the period of the task
    CacheLife,    \* the TTL of a cache entry: 1 minute
    FetchTime,    \* bound: from a read or a save to the entry made of it
    MaxRows,      \* bound: rows that are saved
    MaxNow        \* bound: ticks of the clock

ASSUME RatesAssumption ==
    /\ MockRates \in [Pairs -> (Nat \ {0}) \X (Nat \ {0})]
    /\ Jitters \subseteq Nat /\ Amounts \subseteq Nat
    /\ Refreshes \in Seq(Pairs) /\ Refreshes # <<>>
    /\ RowLife \in Nat \ {0} /\ CacheLife \in Nat /\ FetchTime \in Nat
    /\ MaxRows \in Nat /\ MaxNow \in Nat

(* A jitter adds 0.5% at most, and at the rates of a table there and back  *)
(* at the middle gains 2% at most: less than twice the spread.             *)
Balanced(table) ==
    \A p, q \in DOMAIN table : q = <<p[2], p[1]>> =>
        100 * (table[p][1] * table[q][1]) <= 102 * (table[p][2] * table[q][2])

ASSUME SpreadAssumption ==
    Balanced(MockRates) /\ \A jitter \in Jitters : jitter <= 201

VARIABLES
    rates,    \* the rows of exchange_rates, in the order of createdAt
    cache,    \* cache[p][pair] = [row, until]; row 0 is no entry
    call,     \* call[c]: the statement it is about to execute
    quote,    \* the row whose rate has just been given, if any since the last tick
    now       \* the clock

vars == <<rates, cache, call, quote, now>>

NoEntry == [row |-> 0, until |-> 0]
Idle == [at |-> "idle", pair |-> <<>>, rest |-> <<>>, process |-> {}, row |-> 0, time |-> 0]

Init ==
    /\ rates = <<>>
    /\ cache = [p \in Processes |-> [q \in Pairs |-> NoEntry]]
    /\ call = [c \in Calls |-> Idle]
    /\ quote = 0
    /\ now = 0

-----------------------------------------------------------------------------
Rows(pair) == {i \in DOMAIN rates : rates[i].pair = pair}

(* Fault: the row is looked up without regard to its expiry.               *)
AnyRow(pair) == Rows(pair)

Unexpired(pair) == {i \in Rows(pair) : rates[i].expiresAt > now}

(* Fault: entries outlive their minute by as much again.                   *)
LongEntry(i) == [row |-> i, until |-> now + 2 * CacheLife]

Entry(i) == [row |-> i, until |-> now + CacheLife]
Live(p, pair) == cache[p][pair] # NoEntry

Quotes(i) == quote' = i

GetCached(c, p, pair) ==
    /\ call[c] = Idle
    /\ Live(p, pair)
    /\ Quotes(cache[p][pair].row)
    /\ UNCHANGED <<rates, cache, call, now>>

GetMisses(c, p, pair) ==
    /\ call[c] = Idle
    /\ ~Live(p, pair)
    /\ call' = [call EXCEPT ![c] = [Idle EXCEPT !.at = "read", !.pair = pair,
                                                  !.process = {p}]]
    /\ UNCHANGED <<rates, cache, quote, now>>

(* Fault: the oldest of the unexpired rows.                                *)
ReadOldest(c) ==
    /\ call[c].at = "read"
    /\ LET found == Unexpired(call[c].pair)
       IN  call' = [call EXCEPT ![c] =
                      IF found = {} THEN [@ EXCEPT !.at = "save"]
                      ELSE [@ EXCEPT !.at = "fill", !.row = Min(found), !.time = now]]
    /\ UNCHANGED <<rates, cache, quote, now>>

(* The newest unexpired row, or a new one.                                 *)
ReadNewest(c) ==
    /\ call[c].at = "read"
    /\ LET found == Unexpired(call[c].pair)
       IN  call' = [call EXCEPT ![c] =
                      IF found = {} THEN [@ EXCEPT !.at = "save"]
                      ELSE [@ EXCEPT !.at = "fill", !.row = Max(found), !.time = now]]
    /\ UNCHANGED <<rates, cache, quote, now>>

(* refreshMockRates, at startup and by the schedule, in every process.     *)
BeginRefresh(c, p) ==
    /\ call[c] = Idle
    /\ now % RowLife = 0
    /\ call' = [call EXCEPT ![c] = [Idle EXCEPT !.at = "save", !.pair = Head(Refreshes),
                                                  !.rest = Tail(Refreshes), !.process = {p}]]
    /\ UNCHANGED <<rates, cache, quote, now>>

(* upsertMockRate inserts; nothing is ever updated.                        *)
UpsertMockRate(c, jitter) ==
    /\ call[c].at = "save"
    /\ Len(rates) < MaxRows
    /\ rates' = Append(rates, [pair |-> call[c].pair, jitter |-> jitter,
                               createdAt |-> now, expiresAt |-> now + RowLife])
    /\ call' = [call EXCEPT ![c].at = "fill", ![c].row = Len(rates) + 1, ![c].time = now]
    /\ UNCHANGED <<cache, quote, now>>

(* cache.set; a request then answers, the task goes on to its next pair.   *)
Fill(c) ==
    /\ call[c].at = "fill"
    /\ \E p \in call[c].process :
          /\ cache' = [cache EXCEPT ![p][call[c].pair] = Entry(call[c].row)]
          /\ IF call[c].rest = <<>>
             THEN Quotes(call[c].row) /\ call' = [call EXCEPT ![c] = Idle]
             ELSE /\ call' = [call EXCEPT ![c].at = "save", ![c].pair = Head(call[c].rest),
                                          ![c].rest = Tail(@), ![c].row = 0]
                  /\ UNCHANGED quote
    /\ UNCHANGED <<rates, now>>

(* A statement fails: the task leaves the pairs that remain as they are.   *)
Fails(c) ==
    /\ call[c].at \in {"read", "save", "fill"}
    /\ call' = [call EXCEPT ![c] = Idle]
    /\ UNCHANGED <<rates, cache, quote, now>>

(* Entries whose time is up are gone.                                      *)
Tick ==
    /\ now < MaxNow
    /\ \A c \in Calls : call[c].at = "fill" => now - call[c].time < FetchTime
    /\ now' = now + 1
    /\ cache' = [p \in Processes |-> [q \in Pairs |->
                   IF cache[p][q].until < now + 1 THEN NoEntry ELSE cache[p][q]]]
    /\ quote' = 0
    /\ UNCHANGED <<rates, call>>

Next ==
    \/ \E c \in Calls :
          \/ \E p \in Processes :
                \/ \E pair \in Pairs : GetCached(c, p, pair) \/ GetMisses(c, p, pair)
                \/ BeginRefresh(c, p)
          \/ ReadNewest(c)
          \/ \E jitter \in Jitters : UpsertMockRate(c, jitter)
          \/ Fill(c) \/ Fails(c)
    \/ Tick

Spec == Init /\ [][Next]_vars

-----------------------------------------------------------------------------
(* Fault: the spread is forgotten.                                         *)
ConvertAtMid(amount, row) ==
    LET mid == MockRates[row.pair]
    IN  (amount * mid[1] * row.jitter) \div (mid[2] * 200)

(* convert: the floor of the amount at the rate less a spread of 2%.       *)
Convert(amount, row) ==
    LET mid == MockRates[row.pair]
    IN  (amount * mid[1] * row.jitter * 49) \div (mid[2] * 200 * 50)

-----------------------------------------------------------------------------
(* Every variable has its type; an entry and an answer are of their pair.  *)
TypeOK ==
    /\ rates \in Seq([pair : Pairs, jitter : Jitters, createdAt : 0..MaxNow,
                      expiresAt : 0..MaxNow + RowLife])
    /\ Len(rates) <= MaxRows
    /\ \A p \in Processes, q \in Pairs :
          /\ cache[p][q].row \in Rows(q) \union {0}
          /\ cache[p][q].until \in 0..MaxNow + CacheLife
    /\ \A c \in Calls :
          /\ call[c].at \in {"idle", "read", "save", "fill"}
          /\ call[c].row \in (IF call[c].at = "fill" THEN Rows(call[c].pair) ELSE {0})
    /\ quote \in DOMAIN rates \union {0}
    /\ now \in 0..MaxNow

(* The rate a client is quoted has run out less than the life of a cache   *)
(* entry and the time of its fill ago, in whichever process.               *)
ExpiryIsNear == quote # 0 => now < rates[quote].expiresAt + CacheLife + FetchTime

(* A rate is quoted after a newer one was saved, by any process, only for  *)
(* as long: also if an older row is put in the cache over the newer one.   *)
NewerRatesPrevail ==
    quote # 0 =>
        \A i \in Rows(rates[quote].pair) :
            i > quote => now <= rates[i].createdAt + CacheLife + FetchTime

(* The spread outweighs the jitter: whichever rows two conversions find,   *)
(* there and back never gains.                                             *)
RoundTripsLose ==
    \A i, j \in DOMAIN rates : \A a \in Amounts :
        rates[j].pair = <<rates[i].pair[2], rates[i].pair[1]>> =>
            Convert(Convert(a, rates[i]), rates[j]) <= a

-----------------------------------------------------------------------------
(* exchange-rate.entity.ts:32: "Rate expires after this time — force       *)
(* refresh".  No rate is quoted that has expired.                          *)
ExpiredRatesAreNotQuoted ==
    quote # 0 => now < rates[quote].expiresAt
=============================================================================
