------------------------ MODULE ExchangeRatesProofs ------------------------
(***************************************************************************)
(* Proofs about ExchangeRates, for any pairs, rates, processes, calls and  *)
(* times: how old a quoted rate can be, and that round trips lose.         *)
(***************************************************************************)
EXTENDS ExchangeRates, WellFoundedInduction, TLAPS

(* A set of naturals that a natural bounds has a greatest element.         *)
LEMMA GreatestNatural ==
    ASSUME NEW bound \in Nat, NEW S, S \subseteq 0..bound, S # {}
    PROVE  Max(S) \in S /\ \A n \in S : n <= Max(S)
<1> DEFINE R == {ss \in Nat \X Nat : ss[1] < ss[2]}
           T == {n \in Nat : bound - n \in S}
<1>1. IsWellFoundedOn(R, Nat)
  BY NatLessThanWellFounded DEF OpToRel
<1>2. T # {}
  <2>1. PICK n \in S : TRUE
    OBVIOUS
  <2>2. bound - n \in Nat /\ bound - (bound - n) = n
    BY <2>1
  <2>3. bound - n \in T
    BY <2>1, <2>2
  <2> QED
    BY <2>3
<1>3. \E least \in T : \A n \in T : ~(<<n, least>> \in R)
  <2>1. T \subseteq Nat
    OBVIOUS
  <2> HIDE DEF R, T
  <2> QED
    BY <1>1, <1>2, <2>1, WFMin
<1>4. \A m, n \in Nat : m <= n \/ <<n, m>> \in R
  OBVIOUS
<1>5. PICK least \in T : \A n \in T : least <= n
  <2>1. T \subseteq Nat
    OBVIOUS
  <2> HIDE DEF R, T
  <2> QED
    BY <1>3, <1>4, <2>1
<1>6. bound - least \in S /\ \A n \in S : bound - least >= n
  <2>1. least \in Nat /\ bound - least \in S
    BY <1>5
  <2>2. ASSUME NEW n \in S PROVE bound - least >= n
    <3>1. bound - n \in Nat /\ bound - (bound - n) = n
      BY <2>2
    <3>2. bound - n \in T
      BY <3>1
    <3>3. least <= bound - n
      BY <1>5, <3>2
    <3> QED
      BY <2>1, <3>1, <3>3
  <2> QED
    BY <2>1, <2>2
<1>7. \E x \in S : \A y \in S : x >= y
  BY <1>6
<1>8. Max(S) \in S /\ \A y \in S : Max(S) >= y
  BY <1>7 DEF Max
<1> QED
  BY <1>8

-----------------------------------------------------------------------------
(* The inductive invariant.                                                *)

RowType == [pair : Pairs, jitter : Jitters, createdAt : 0..MaxNow,
            expiresAt : 0..(MaxNow + RowLife)]
CallType == [at : {"idle", "read", "save", "fill"}, pair : Pairs \union {<<>>},
             rest : Seq(Pairs), process : SUBSET Processes, row : Nat, time : Nat]
CacheEntry == [row : Nat, until : Int]

Typed ==
    /\ rates \in Seq(RowType) /\ Len(rates) <= MaxRows
    /\ cache \in [Processes -> [Pairs -> CacheEntry]]
    /\ call \in [Calls -> CallType]
    /\ quote \in Nat
    /\ now \in 0..MaxNow

(* Rows come in the order of their creation, and all live as long.         *)
RowsInOrder ==
    /\ \A i \in DOMAIN rates :
          /\ rates[i].createdAt <= now
          /\ rates[i].expiresAt = rates[i].createdAt + RowLife
    /\ \A i, j \in DOMAIN rates : i < j => rates[i].createdAt <= rates[j].createdAt

(* Row i was, at t or later, unexpired and the newest of its pair.         *)
NewestAt(pair, i, t) ==
    /\ i \in Rows(pair)
    /\ t < rates[i].expiresAt
    /\ \A j \in Rows(pair) : j > i => t <= rates[j].createdAt

GoodEntry(pair, e) ==
    \/ e = NoEntry
    \/ /\ now <= e.until /\ e.until <= now + CacheLife
       /\ NewestAt(pair, e.row, e.until - CacheLife - FetchTime)

GoodCall(x) ==
    /\ x.at # "idle" => x.pair \in Pairs
    /\ x.at = "fill" =>
          /\ x.time <= now /\ now <= x.time + FetchTime
          /\ NewestAt(x.pair, x.row, x.time)
    /\ x.at # "fill" => x.row = 0

GoodQuote ==
    quote # 0 => /\ quote \in DOMAIN rates
                 /\ NewestAt(rates[quote].pair, quote, now - CacheLife - FetchTime)

EInv ==
    /\ Typed /\ RowsInOrder /\ GoodQuote
    /\ \A p \in Processes, q \in Pairs : GoodEntry(q, cache[p][q])
    /\ \A c \in Calls : GoodCall(call[c])

LEMMA Times ==
    /\ RowLife \in Nat /\ RowLife >= 1 /\ CacheLife \in Nat /\ FetchTime \in Nat
    /\ MaxRows \in Nat /\ MaxNow \in Nat
BY RatesAssumption

LEMMA RowFacts ==
    ASSUME Typed
    PROVE  /\ Len(rates) \in Nat /\ DOMAIN rates = 1..Len(rates) /\ now \in Nat
           /\ \A i \in DOMAIN rates : /\ rates[i] \in RowType /\ rates[i].pair \in Pairs
                                      /\ rates[i].createdAt \in Nat /\ rates[i].expiresAt \in Nat
           /\ \A q : Rows(q) \subseteq DOMAIN rates
<1>1. Len(rates) \in Nat /\ DOMAIN rates = 1..Len(rates)
      /\ \A i \in DOMAIN rates : rates[i] \in RowType
  BY DEF Typed
<1>2. \A q : Rows(q) \subseteq DOMAIN rates
  BY DEF Rows
<1>3. now \in Nat
  BY Times DEF Typed
<1>4. ASSUME NEW i \in DOMAIN rates
      PROVE  rates[i].pair \in Pairs /\ rates[i].createdAt \in Nat /\ rates[i].expiresAt \in Nat
  BY <1>1, Times DEF RowType
<1> QED
  BY <1>1, <1>2, <1>3, <1>4

LEMMA IdleIsGood == Idle \in CallType /\ GoodCall(Idle) /\ Idle.at = "idle" /\ Idle.rest = <<>>
BY DEF Idle, CallType, GoodCall

(* Nothing that the invariant says depends on more than rows and time.     *)
LEMMA StillNewest ==
    ASSUME UNCHANGED rates
    PROVE  \A q, i, t : NewestAt(q, i, t)' = NewestAt(q, i, t)
BY DEF NewestAt, Rows

LEMMA StillGood ==
    ASSUME UNCHANGED <<rates, now>>
    PROVE  /\ \A q, e : GoodEntry(q, e) => GoodEntry(q, e)'
           /\ \A x : GoodCall(x) => GoodCall(x)'
           /\ RowsInOrder => RowsInOrder'
<1>1. \A q, i, t : NewestAt(q, i, t)' = NewestAt(q, i, t)
  BY StillNewest
<1>2. ASSUME NEW q, NEW e, GoodEntry(q, e) PROVE GoodEntry(q, e)'
  BY <1>1, <1>2 DEF GoodEntry
<1>3. ASSUME NEW x, GoodCall(x) PROVE GoodCall(x)'
  BY <1>1, <1>3 DEF GoodCall
<1>4. RowsInOrder => RowsInOrder'
  BY DEF RowsInOrder
<1> QED
  BY <1>2, <1>3, <1>4

(* A call moves on.                                                        *)
LEMMA CallStep ==
    ASSUME EInv, NEW c \in Calls, NEW x \in CallType, GoodCall(x),
           call' = [call EXCEPT ![c] = x], UNCHANGED <<rates, cache, quote, now>>
    PROVE  EInv'
<1>1. Typed' /\ \A d \in Calls : GoodCall(call'[d])
  BY DEF EInv, Typed
<1>2. \A p \in Processes, q \in Pairs : GoodEntry(q, cache[p][q])'
  BY StillGood DEF EInv
<1>3. \A d \in Calls : GoodCall(call[d])'
  BY <1>1, StillGood
<1>4. GoodQuote'
  BY StillNewest DEF EInv, GoodQuote
<1> QED
  BY <1>1, <1>2, <1>3, <1>4, StillGood DEF EInv

LEMMA MissesStep ==
    ASSUME EInv, NEW c \in Calls, NEW p \in Processes, NEW pair \in Pairs, GetMisses(c, p, pair)
    PROVE  EInv'
<1> DEFINE x == [Idle EXCEPT !.at = "read", !.pair = pair, !.process = {p}]
<1>1. x \in CallType
  BY IdleIsGood DEF CallType
<1>2. x.at = "read" /\ x.pair = pair /\ x.row = 0
  BY DEF Idle
<1> HIDE DEF x
<1>3. GoodCall(x)
  BY <1>2 DEF GoodCall
<1> QED
  BY <1>1, <1>3, CallStep DEF GetMisses, x

LEMMA BeginStep ==
    ASSUME EInv, NEW c \in Calls, NEW p \in Processes, BeginRefresh(c, p)
    PROVE  EInv'
<1> DEFINE x == [Idle EXCEPT !.at = "save", !.pair = Head(Refreshes),
                             !.rest = Tail(Refreshes), !.process = {p}]
<1>1. Head(Refreshes) \in Pairs /\ Tail(Refreshes) \in Seq(Pairs)
  BY RatesAssumption
<1>2. x \in CallType /\ GoodCall(x)
  BY <1>1 DEF Idle, CallType, GoodCall
<1> HIDE DEF x
<1> QED
  BY <1>2, CallStep DEF BeginRefresh, x

LEMMA FailsStep ==
    ASSUME EInv, NEW c \in Calls, Fails(c)
    PROVE  EInv'
BY IdleIsGood, CallStep DEF Fails

LEMMA ReadStep ==
    ASSUME EInv, NEW c \in Calls, ReadNewest(c)
    PROVE  EInv'
<1> DEFINE pair == call[c].pair
           found == Unexpired(pair)
<1>1. /\ Typed /\ RowsInOrder /\ call[c] \in CallType /\ GoodCall(call[c])
      /\ call[c].at = "read" /\ pair \in Pairs /\ call[c].row = 0
      /\ UNCHANGED <<rates, cache, quote, now>>
  BY DEF EInv, Typed, GoodCall, ReadNewest
<1>2. CASE found = {}
  <2> DEFINE x == [call[c] EXCEPT !.at = "save"]
  <2>1. call' = [call EXCEPT ![c] = x]
    BY <1>2 DEF ReadNewest
  <2>2. x \in CallType /\ GoodCall(x)
    BY <1>1 DEF CallType, GoodCall
  <2> HIDE DEF x
  <2> QED
    BY <1>1, <2>1, <2>2, CallStep
<1>3. CASE found # {}
  <2> DEFINE i == Max(found)
             x == [call[c] EXCEPT !.at = "fill", !.row = i, !.time = now]
  <2>1. call' = [call EXCEPT ![c] = x]
    BY <1>3 DEF ReadNewest
  <2>2. /\ Len(rates) \in Nat /\ found \subseteq 0..Len(rates) /\ now \in Nat
        /\ found \subseteq Rows(pair) /\ Rows(pair) \subseteq DOMAIN rates
        /\ DOMAIN rates = 1..Len(rates)
    BY <1>1, RowFacts DEF Unexpired
  <2>3. i \in found /\ \A n \in found : n <= i
    BY <1>3, <2>2, GreatestNatural
  <2> HIDE DEF i
  <2>4. i \in Rows(pair) /\ i \in Nat /\ now < rates[i].expiresAt
    BY <1>1, <2>2, <2>3, RowFacts DEF Unexpired
  <2>5. ASSUME NEW j \in Rows(pair), j > i PROVE FALSE
    <3>1. i \in DOMAIN rates /\ j \in DOMAIN rates /\ j \in Nat
      BY <2>2, <2>3
    <3>2. rates[i].expiresAt <= rates[j].expiresAt
      <4>1. /\ rates[i].createdAt \in Nat /\ rates[j].createdAt \in Nat
            /\ rates[i].createdAt <= rates[j].createdAt
        BY <1>1, <2>4, <2>5, <3>1, RowFacts DEF RowsInOrder
      <4>2. /\ rates[i].expiresAt = rates[i].createdAt + RowLife
            /\ rates[j].expiresAt = rates[j].createdAt + RowLife
        BY <1>1, <3>1 DEF RowsInOrder
      <4> QED
        BY <4>1, <4>2, Times
    <3>3. rates[j].expiresAt > now
      BY <1>1, <2>2, <2>4, <3>1, <3>2, RowFacts
    <3>4. j \in found
      BY <3>3 DEF Unexpired
    <3> QED
      BY <2>3, <2>4, <2>5, <3>1, <3>4
  <2>6. NewestAt(pair, i, now)
    BY <2>4, <2>5 DEF NewestAt
  <2>7. /\ x \in CallType /\ x.at = "fill" /\ x.pair = pair /\ x.row = i /\ x.time = now
    BY <1>1, <2>2, <2>4 DEF CallType
  <2> HIDE DEF x
  <2>8. GoodCall(x)
    BY <1>1, <2>2, <2>6, <2>7, Times DEF GoodCall
  <2> QED
    BY <1>1, <2>1, <2>7, <2>8, CallStep
<1> QED
  BY <1>2, <1>3

LEMMA CachedStep ==
    ASSUME EInv, NEW c \in Calls, NEW p \in Processes, NEW pair \in Pairs, GetCached(c, p, pair)
    PROVE  EInv'
<1> DEFINE e == cache[p][pair]
<1>1. /\ Typed /\ e \in CacheEntry /\ GoodEntry(pair, e) /\ e # NoEntry
      /\ quote' = e.row /\ UNCHANGED <<rates, cache, call, now>>
  BY DEF EInv, Typed, GetCached, Live, Quotes
<1>2. /\ now <= e.until /\ e.row \in Rows(pair) /\ e.until \in Int /\ e.row \in Nat
      /\ NewestAt(pair, e.row, e.until - CacheLife - FetchTime)
  BY <1>1 DEF GoodEntry, NewestAt, CacheEntry
<1> HIDE DEF e
<1>3. e.row \in DOMAIN rates /\ rates[e.row].pair = pair /\ now \in Nat
  BY <1>1, <1>2, RowFacts DEF Rows
<1>4. NewestAt(pair, e.row, now - CacheLife - FetchTime)
  <2>1. \A j \in DOMAIN rates : rates[j].createdAt \in Nat /\ rates[j].expiresAt \in Nat
    BY <1>1, RowFacts
  <2>2. \A j \in Rows(pair) : j \in DOMAIN rates
    BY DEF Rows
  <2> QED
    BY <1>2, <1>3, <2>1, <2>2, Times DEF NewestAt
<1>5. GoodQuote'
  <2>1. quote' = e.row /\ rates' = rates /\ now' = now
    BY <1>1
  <2> QED
    BY <1>3, <1>4, <2>1 DEF GoodQuote, NewestAt, Rows
<1>6. Typed'
  BY <1>1, <1>2 DEF Typed
<1>7. \A x \in Processes, q \in Pairs : GoodEntry(q, cache[x][q])'
  BY <1>1, StillGood DEF EInv
<1>8. \A d \in Calls : GoodCall(call[d])'
  BY <1>1, StillGood DEF EInv
<1> QED
  BY <1>1, <1>5, <1>6, <1>7, <1>8, StillGood DEF EInv

(* A row is saved: it is the newest of its pair, and no older than any     *)
(* time at which another was.                                              *)
LEMMA SavedStep ==
    ASSUME EInv, NEW c \in Calls, NEW jitter \in Jitters, UpsertMockRate(c, jitter)
    PROVE  EInv'
<1> DEFINE pair == call[c].pair
           row == [pair |-> pair, jitter |-> jitter, createdAt |-> now,
                   expiresAt |-> now + RowLife]
           n == Len(rates) + 1
           x == [call[c] EXCEPT !.at = "fill", !.row = n, !.time = now]
<1>1. /\ Typed /\ RowsInOrder /\ call[c] \in CallType /\ GoodCall(call[c])
      /\ call[c].at = "save" /\ pair \in Pairs /\ Len(rates) < MaxRows
      /\ rates' = Append(rates, row) /\ call' = [call EXCEPT ![c] = x]
      /\ UNCHANGED <<cache, quote, now>>
  BY DEF EInv, Typed, GoodCall, UpsertMockRate
<1>2. Len(rates) \in Nat /\ DOMAIN rates = 1..Len(rates) /\ now \in Nat /\ n \in Nat
  BY <1>1, RowFacts
<1>3. row \in RowType
  BY <1>1, <1>2, Times DEF Typed, RowType
<1>4. /\ row.pair = pair /\ row.createdAt = now /\ row.expiresAt = now + RowLife
  OBVIOUS
<1> HIDE DEF row
<1>5. /\ rates' \in Seq(RowType) /\ Len(rates') = n /\ DOMAIN rates' = 1..n
      /\ rates'[n] = row /\ \A i \in DOMAIN rates : rates'[i] = rates[i]
      /\ \A i \in DOMAIN rates : i < n /\ i \in DOMAIN rates'
      /\ \A i \in DOMAIN rates' : i \in DOMAIN rates \/ i = n
      /\ n \notin DOMAIN rates
  BY <1>1, <1>2, <1>3 DEF Typed
<1>6. /\ x \in CallType /\ x.at = "fill" /\ x.pair = pair /\ x.row = n /\ x.time = now
  BY <1>1, <1>2 DEF CallType
<1> HIDE DEF x
<1>7. Typed'
  BY <1>1, <1>2, <1>5, <1>6, Times DEF Typed
<1>8. RowsInOrder'
  <2>1. \A i \in DOMAIN rates' : /\ rates'[i].createdAt <= now
                                 /\ rates'[i].expiresAt = rates'[i].createdAt + RowLife
    BY <1>1, <1>2, <1>4, <1>5 DEF RowsInOrder
  <2>2. \A i, j \in DOMAIN rates' : i < j => rates'[i].createdAt <= rates'[j].createdAt
    <3> SUFFICES ASSUME NEW i \in DOMAIN rates', NEW j \in DOMAIN rates', i < j
                 PROVE  rates'[i].createdAt <= rates'[j].createdAt
      OBVIOUS
    <3>1. i \in DOMAIN rates
      BY <1>2, <1>5
    <3>2. CASE j = n
      BY <1>4, <1>5, <2>1, <3>2
    <3>3. CASE j # n
      BY <1>1, <1>5, <3>1, <3>3 DEF RowsInOrder
    <3> QED
      BY <3>2, <3>3
  <2> QED
    BY <1>1, <2>1, <2>2 DEF RowsInOrder
<1>9. ASSUME NEW q, NEW i, NEW t, t <= now, NewestAt(q, i, t)
      PROVE  NewestAt(q, i, t)'
  <2>1. i \in DOMAIN rates /\ rates[i].pair = q
    BY <1>9 DEF NewestAt, Rows
  <2>2. i \in Rows(q)'
    BY <1>5, <2>1 DEF Rows
  <2>3. ASSUME NEW j \in DOMAIN rates', rates'[j].pair = q, j > i
        PROVE  t <= rates'[j].createdAt
    <3>1. CASE j = n
      BY <1>4, <1>5, <1>9, <3>1
    <3>2. CASE j # n
      BY <1>5, <1>9, <2>3, <3>2 DEF NewestAt, Rows
    <3> QED
      BY <3>1, <3>2
  <2> QED
    BY <1>5, <1>9, <2>1, <2>2, <2>3 DEF NewestAt, Rows
<1>10. ASSUME NEW q, NEW i, NEW t, q = pair, i = n, t = now
       PROVE  NewestAt(q, i, t)'
  <2>1. i \in DOMAIN rates' /\ rates'[i] = row
    BY <1>2, <1>5, <1>10
  <2>2. t < row.expiresAt
    BY <1>2, <1>4, <1>10, Times
  <2>3. \A j \in DOMAIN rates' : ~(j > i)
    BY <1>2, <1>5, <1>10
  <2> QED
    BY <1>4, <1>10, <2>1, <2>2, <2>3 DEF NewestAt, Rows
<1>11. GoodQuote'
  <2>1. CASE quote = 0
    BY <1>1, <2>1 DEF GoodQuote
  <2>2. CASE quote # 0
    <3>1. /\ quote \in DOMAIN rates /\ rates[quote].pair = rates'[quote].pair
          /\ NewestAt(rates[quote].pair, quote, now - CacheLife - FetchTime)
      BY <1>5, <2>2 DEF EInv, GoodQuote
    <3>2. now - CacheLife - FetchTime <= now
      BY <1>2, Times
    <3>3. \A q, i, t : t <= now /\ NewestAt(q, i, t) => NewestAt(q, i, t)'
      BY <1>9
    <3>4. ASSUME NEW q, NEW i, NEW t,
                 q = rates[quote].pair, i = quote, t = now - CacheLife - FetchTime
          PROVE  NewestAt(q, i, t)'
      BY <3>1, <3>2, <3>3, <3>4
    <3>5. quote' = quote /\ now' = now /\ quote \in DOMAIN rates'
      BY <1>1, <1>5, <3>1
    <3> QED
      BY <3>1, <3>4, <3>5 DEF GoodQuote, NewestAt, Rows
  <2> QED
    BY <2>1, <2>2
<1>12. ASSUME NEW p \in Processes, NEW q \in Pairs PROVE GoodEntry(q, cache[p][q])'
  <2>1. ASSUME NEW e \in CacheEntry, GoodEntry(q, e) PROVE GoodEntry(q, e)'
    <3>1. CASE e = NoEntry
      BY <3>1 DEF GoodEntry, NoEntry
    <3>2. CASE e # NoEntry
      <4>1. /\ now <= e.until /\ e.until <= now + CacheLife /\ e.until \in Int
            /\ NewestAt(q, e.row, e.until - CacheLife - FetchTime)
        BY <2>1, <3>2 DEF GoodEntry, CacheEntry
      <4>2. e.until - CacheLife - FetchTime <= now
        BY <1>2, <4>1, Times
      <4>3. NewestAt(q, e.row, e.until - CacheLife - FetchTime)'
        BY <1>9, <4>1, <4>2
      <4> QED
        BY <1>1, <4>1, <4>3 DEF GoodEntry
    <3> QED
      BY <3>1, <3>2
  <2>2. cache[p][q] \in CacheEntry /\ GoodEntry(q, cache[p][q])
    BY <1>1 DEF EInv, Typed
  <2> QED
    BY <1>1, <2>1, <2>2
<1>13. ASSUME NEW d \in Calls PROVE GoodCall(call[d])'
  <2>1. ASSUME NEW y, GoodCall(y) PROVE GoodCall(y)'
    BY <1>1, <1>9, <2>1 DEF GoodCall
  <2>2. ASSUME NEW y, y = x PROVE GoodCall(y)'
    BY <1>1, <1>2, <1>6, <1>10, <2>2, Times DEF GoodCall
  <2>3. call'[d] = IF d = c THEN x ELSE call[d]
    BY <1>1 DEF Typed
  <2>4. GoodCall(call[d])
    BY DEF EInv
  <2> QED
    BY <2>1, <2>2, <2>3, <2>4
<1> QED
  BY <1>7, <1>8, <1>11, <1>12, <1>13 DEF EInv

LEMMA NewestBefore ==
    ASSUME Typed, NEW q, NEW i, NEW t \in Int, NEW s \in Int, s <= t, NewestAt(q, i, t)
    PROVE  NewestAt(q, i, s)
<1>1. \A j \in DOMAIN rates : rates[j].createdAt \in Nat /\ rates[j].expiresAt \in Nat
  BY RowFacts
<1>2. i \in DOMAIN rates /\ \A j \in Rows(q) : j \in DOMAIN rates
  BY DEF NewestAt, Rows
<1> QED
  BY <1>1, <1>2 DEF NewestAt

LEMMA FillStep ==
    ASSUME EInv, NEW c \in Calls, Fill(c)
    PROVE  EInv'
<1> DEFINE pair == call[c].pair
           row == call[c].row
           e == Entry(row)
           next == [call[c] EXCEPT !.at = "save", !.pair = Head(call[c].rest),
                                   !.rest = Tail(@), !.row = 0]
<1>1. /\ Typed /\ call[c] \in CallType /\ call[c].at = "fill" /\ now \in Nat
      /\ call[c].process \subseteq Processes /\ call[c].time \in Nat /\ row \in Nat
      /\ call[c].rest \in Seq(Pairs) /\ pair \in Pairs
      /\ call[c].time <= now /\ now <= call[c].time + FetchTime
      /\ NewestAt(pair, row, call[c].time)
      /\ UNCHANGED <<rates, now>>
  BY RowFacts DEF EInv, Typed, CallType, GoodCall, Fill
<1>2. PICK p \in Processes :
          /\ cache' = [cache EXCEPT ![p][pair] = e]
          /\ IF call[c].rest = <<>>
             THEN quote' = row /\ call' = [call EXCEPT ![c] = Idle]
             ELSE call' = [call EXCEPT ![c] = next] /\ UNCHANGED quote
  BY <1>1 DEF Fill, Quotes
<1>3. /\ NewestAt(pair, row, now - FetchTime)
      /\ NewestAt(pair, row, now - CacheLife - FetchTime)
  <2>1. /\ now - FetchTime \in Int /\ now - FetchTime <= call[c].time
        /\ now - CacheLife - FetchTime \in Int /\ now - CacheLife - FetchTime <= call[c].time
    BY <1>1, Times
  <2> QED
    BY <1>1, <2>1, NewestBefore
<1>4. e \in CacheEntry /\ GoodEntry(pair, e)
  <2>1. e.row = row /\ e.until = now + CacheLife /\ e \in CacheEntry
    BY <1>1, Times DEF Entry, CacheEntry
  <2>2. /\ e.until - CacheLife - FetchTime = now - FetchTime
        /\ now <= e.until /\ e.until <= now + CacheLife
    BY <1>1, <2>1, Times
  <2> HIDE DEF e, row, pair
  <2>3. NewestAt(pair, e.row, e.until - CacheLife - FetchTime)
    BY <1>3, <2>1, <2>2
  <2> QED
    BY <2>1, <2>2, <2>3 DEF GoodEntry
<1>5. (next \in CallType /\ GoodCall(next)) \/ call[c].rest = <<>>
  <2> SUFFICES ASSUME call[c].rest # <<>> PROVE next \in CallType /\ GoodCall(next)
    OBVIOUS
  <2>1. Head(call[c].rest) \in Pairs /\ Tail(call[c].rest) \in Seq(Pairs)
    BY <1>1
  <2>2. next \in CallType /\ next.at = "save" /\ next.row = 0 /\ next.pair \in Pairs
    BY <1>1, <2>1 DEF CallType
  <2> QED
    BY <2>2 DEF GoodCall
<1> HIDE DEF e, next
<1>6. call' \in [Calls -> CallType] /\ \A d \in Calls : GoodCall(call'[d])
  <2>1. PICK x \in CallType : GoodCall(x) /\ call' = [call EXCEPT ![c] = x]
    BY <1>2, <1>5, IdleIsGood
  <2> QED
    BY <1>1, <2>1 DEF EInv, Typed
<1>7. /\ cache' \in [Processes -> [Pairs -> CacheEntry]]
      /\ \A x \in Processes, q \in Pairs : GoodEntry(q, cache'[x][q])
  <2>1. \A x \in Processes, q \in Pairs :
            cache'[x][q] = IF x = p /\ q = pair THEN e ELSE cache[x][q]
    BY <1>1, <1>2 DEF Typed
  <2>2. cache' \in [Processes -> [Pairs -> CacheEntry]]
    BY <1>1, <1>2, <1>4 DEF Typed
  <2> QED
    BY <1>4, <2>1, <2>2 DEF EInv
<1>8. Typed'
  BY <1>1, <1>2, <1>6, <1>7 DEF Typed
<1>9. GoodQuote'
  <2>1. CASE call[c].rest = <<>>
    <3>1. row \in DOMAIN rates /\ rates[row].pair = pair
      BY <1>1 DEF NewestAt, Rows
    <3>2. quote' = row
      BY <1>2, <2>1
    <3> QED
      BY <1>1, <1>3, <3>1, <3>2 DEF GoodQuote, NewestAt, Rows
  <2>2. CASE call[c].rest # <<>>
    BY <1>1, <1>2, <2>2 DEF EInv, GoodQuote, NewestAt, Rows
  <2> QED
    BY <2>1, <2>2
<1>10. \A x \in Processes, q \in Pairs : GoodEntry(q, cache[x][q])'
  BY <1>1, <1>7, StillGood
<1>11. \A d \in Calls : GoodCall(call[d])'
  BY <1>1, <1>6, StillGood
<1> QED
  BY <1>1, <1>8, <1>9, <1>10, <1>11, StillGood DEF EInv

LEMMA TickStep ==
    ASSUME EInv, Tick
    PROVE  EInv'
<1>1. /\ Typed /\ RowsInOrder /\ now \in Nat /\ now < MaxNow /\ now' = now + 1 /\ quote' = 0
      /\ \A c \in Calls : call[c].at = "fill" => now - call[c].time < FetchTime
      /\ cache' = [p \in Processes |-> [q \in Pairs |->
                     IF cache[p][q].until < now + 1 THEN NoEntry ELSE cache[p][q]]]
      /\ UNCHANGED <<rates, call>>
  BY RowFacts DEF EInv, Tick
<1>2. \A p \in Processes, q \in Pairs :
          cache'[p][q] = IF cache[p][q].until < now + 1 THEN NoEntry ELSE cache[p][q]
  BY <1>1
<1>3. Typed'
  <2>1. NoEntry \in CacheEntry
    BY DEF NoEntry, CacheEntry
  <2>2. cache' \in [Processes -> [Pairs -> CacheEntry]]
    BY <1>1, <2>1 DEF Typed
  <2> QED
    BY <1>1, <2>2, Times DEF Typed
<1>4. RowsInOrder'
  <2>1. \A i \in DOMAIN rates : rates[i].createdAt <= now + 1
    BY <1>1, RowFacts DEF RowsInOrder
  <2> QED
    BY <1>1, <2>1 DEF RowsInOrder
<1>5. ASSUME NEW p \in Processes, NEW q \in Pairs PROVE GoodEntry(q, cache[p][q])'
  <2>1. ASSUME NEW y \in CacheEntry, GoodEntry(q, y), ~(y.until < now + 1)
        PROVE  GoodEntry(q, y)'
    <3>1. CASE y = NoEntry
      BY <3>1 DEF GoodEntry, NoEntry
    <3>2. CASE y # NoEntry
      <4>1. /\ y.until \in Int /\ y.until <= now + CacheLife
            /\ NewestAt(q, y.row, y.until - CacheLife - FetchTime)
        BY <2>1, <3>2 DEF GoodEntry, CacheEntry
      <4>2. now + 1 <= y.until /\ y.until <= now + 1 + CacheLife
        BY <1>1, <2>1, <4>1, Times
      <4>3. NewestAt(q, y.row, y.until - CacheLife - FetchTime)'
        BY <1>1, <4>1 DEF NewestAt, Rows
      <4> QED
        BY <1>1, <4>2, <4>3 DEF GoodEntry
    <3> QED
      BY <3>1, <3>2
  <2>2. ASSUME NEW y, y = NoEntry PROVE GoodEntry(q, y)'
    BY <2>2 DEF GoodEntry, NoEntry
  <2>3. cache[p][q] \in CacheEntry /\ GoodEntry(q, cache[p][q])
    BY <1>1 DEF EInv, Typed
  <2> QED
    BY <1>2, <2>1, <2>2, <2>3
<1>6. ASSUME NEW c \in Calls PROVE GoodCall(call[c])'
  <2>1. call[c] \in CallType /\ GoodCall(call[c]) /\ call[c].time \in Nat
    BY <1>1 DEF EInv, Typed, CallType
  <2>2. call[c].at = "fill" => call[c].time <= now + 1 /\ now + 1 <= call[c].time + FetchTime
    BY <1>1, <2>1, Times DEF GoodCall
  <2> QED
    BY <1>1, <2>1, <2>2 DEF GoodCall, NewestAt, Rows
<1>7. GoodQuote'
  BY <1>1 DEF GoodQuote
<1> QED
  BY <1>3, <1>4, <1>5, <1>6, <1>7 DEF EInv

-----------------------------------------------------------------------------
LEMMA InitEInv == Init => EInv
<1> SUFFICES ASSUME Init PROVE EInv
  OBVIOUS
<1>1. Typed
  BY IdleIsGood, Times DEF Init, Typed, NoEntry, CacheEntry
<1>2. RowsInOrder /\ GoodQuote
  BY DEF Init, RowsInOrder, GoodQuote
<1>3. /\ \A p \in Processes, q \in Pairs : GoodEntry(q, cache[p][q])
      /\ \A c \in Calls : GoodCall(call[c])
  BY IdleIsGood DEF Init, GoodEntry
<1> QED
  BY <1>1, <1>2, <1>3 DEF EInv

LEMMA NextEInv == EInv /\ [Next]_vars => EInv'
<1> SUFFICES ASSUME EInv, [Next]_vars PROVE EInv'
  OBVIOUS
<1>1. CASE \E c \in Calls, p \in Processes :
              \/ \E pair \in Pairs : GetCached(c, p, pair) \/ GetMisses(c, p, pair)
              \/ BeginRefresh(c, p)
  BY <1>1, CachedStep, MissesStep, BeginStep
<1>2. CASE \E c \in Calls : \/ ReadNewest(c)
                            \/ \E jitter \in Jitters : UpsertMockRate(c, jitter)
                            \/ Fill(c) \/ Fails(c)
  BY <1>2, ReadStep, SavedStep, FillStep, FailsStep
<1>3. CASE Tick
  BY <1>3, TickStep
<1>4. CASE UNCHANGED vars
  <2>1. UNCHANGED <<rates, cache, call, quote, now>>
    BY <1>4 DEF vars
  <2>2. Typed'
    BY <2>1 DEF EInv, Typed
  <2>3. GoodQuote'
    BY <2>1 DEF EInv, GoodQuote, NewestAt, Rows
  <2>4. \A p \in Processes, q \in Pairs : GoodEntry(q, cache[p][q])'
    BY <2>1, StillGood DEF EInv
  <2>5. \A c \in Calls : GoodCall(call[c])'
    BY <2>1, StillGood DEF EInv
  <2> QED
    BY <2>1, <2>2, <2>3, <2>4, <2>5, StillGood DEF EInv
<1> QED
  BY <1>1, <1>2, <1>3, <1>4 DEF Next

LEMMA EInvHolds == Spec => []EInv
BY InitEInv, NextEInv, PTL DEF Spec

(* Every variable has its type; an entry and an answer are of their pair.  *)
THEOREM RatesTypesHold == Spec => []TypeOK
<1>1. EInv => TypeOK
  <2> SUFFICES ASSUME EInv PROVE TypeOK
    OBVIOUS
  <2>1. Typed /\ now \in Nat /\ now <= MaxNow
    BY Times DEF EInv, Typed
  <2>2. ASSUME NEW p \in Processes, NEW q \in Pairs
        PROVE  /\ cache[p][q].row \in Rows(q) \union {0}
               /\ cache[p][q].until \in 0..MaxNow + CacheLife
    <3>1. cache[p][q] \in CacheEntry /\ GoodEntry(q, cache[p][q])
      BY <2>1 DEF EInv, Typed
    <3>2. CASE cache[p][q] = NoEntry
      BY <3>2, Times DEF NoEntry
    <3>3. CASE cache[p][q] # NoEntry
      BY <2>1, <3>1, <3>3, Times DEF GoodEntry, NewestAt, CacheEntry
    <3> QED
      BY <3>2, <3>3
  <2>3. ASSUME NEW c \in Calls
        PROVE  /\ call[c].at \in {"idle", "read", "save", "fill"}
               /\ call[c].row \in (IF call[c].at = "fill" THEN Rows(call[c].pair) ELSE {0})
    <3>1. call[c] \in CallType /\ GoodCall(call[c])
      BY <2>1 DEF EInv, Typed
    <3> QED
      BY <3>1 DEF GoodCall, NewestAt, CallType
  <2>4. quote \in DOMAIN rates \union {0}
    BY DEF EInv, GoodQuote
  <2> QED
    BY <2>1, <2>2, <2>3, <2>4 DEF TypeOK, Typed, RowType
<1> QED
  BY <1>1, EInvHolds, PTL

(* A quoted rate ran out less than the life of a cache entry and the time  *)
(* of its fill ago.                                                        *)
THEOREM QuotesExpireSoon == Spec => []ExpiryIsNear
<1>1. EInv => ExpiryIsNear
  <2> SUFFICES ASSUME EInv, quote # 0
               PROVE  now < rates[quote].expiresAt + CacheLife + FetchTime
    BY DEF ExpiryIsNear
  <2>1. Typed /\ quote \in DOMAIN rates /\ now - CacheLife - FetchTime < rates[quote].expiresAt
    BY DEF EInv, GoodQuote, NewestAt
  <2> QED
    BY <2>1, RowFacts, Times
<1> QED
  BY <1>1, EInvHolds, PTL

(* A rate is quoted no longer than that after a newer one of its pair was  *)
(* saved, by whichever process.                                            *)
THEOREM NewerRatesTakeOver == Spec => []NewerRatesPrevail
<1>1. EInv => NewerRatesPrevail
  <2> SUFFICES ASSUME EInv, quote # 0, NEW i \in Rows(rates[quote].pair), i > quote
               PROVE  now <= rates[i].createdAt + CacheLife + FetchTime
    BY DEF NewerRatesPrevail
  <2>1. Typed /\ i \in DOMAIN rates /\ now - CacheLife - FetchTime <= rates[i].createdAt
    BY DEF EInv, GoodQuote, NewestAt, Rows
  <2> QED
    BY <2>1, RowFacts, Times
<1> QED
  BY <1>1, EInvHolds, PTL

-----------------------------------------------------------------------------
(* Round trips.                                                            *)

LEMMA FloorDivision ==
    ASSUME NEW m \in Nat, NEW d \in Nat, d >= 1
    PROVE  m \div d \in Nat /\ (m \div d) * d <= m
OBVIOUS

LEMMA ProductsGrow ==
    ASSUME NEW a \in Nat, NEW b \in Nat, NEW k \in Nat, a <= b
    PROVE  a * k <= b * k /\ k * a <= k * b
OBVIOUS

LEMMA Product ==
    ASSUME NEW a \in Nat, NEW b \in Nat
    PROVE  a * b \in Nat /\ a * b = b * a
OBVIOUS

LEMMA Regrouped ==
    ASSUME NEW a \in Nat, NEW b \in Nat, NEW c \in Nat, NEW d \in Nat
    PROVE  /\ (a * b) * (c * d) = (a * c) * (b * d)
           /\ (a * b) * c = a * (b * c)
OBVIOUS

(* y is no more than what the rate n / d, the jitter j / 200 and the       *)
(* spread leave of x.                                                      *)
Converts(x, y, n, d, j) ==
    /\ x \in Nat /\ y \in Nat /\ n \in Nat /\ d \in Nat \ {0} /\ j \in Nat /\ j <= 201
    /\ y * (10000 * d) <= x * (49 * (n * j))

InBalance(n1, d1, n2, d2) == 100 * (n1 * n2) <= 102 * (d1 * d2)

LEMMA ThereAndBack ==
    ASSUME NEW a, NEW x, NEW y, NEW n1, NEW d1, NEW j1, NEW n2, NEW d2, NEW j2,
           Converts(a, x, n1, d1, j1), Converts(x, y, n2, d2, j2), InBalance(n1, d1, n2, d2)
    PROVE  y <= a
<1>0. /\ a \in Nat /\ x \in Nat /\ y \in Nat
      /\ n1 \in Nat /\ d1 \in Nat /\ d1 >= 1 /\ j1 \in Nat /\ j1 <= 201
      /\ n2 \in Nat /\ d2 \in Nat /\ d2 >= 1 /\ j2 \in Nat /\ j2 <= 201
      /\ 100 * (n1 * n2) <= 102 * (d1 * d2)
      /\ x * (10000 * d1) <= a * (49 * (n1 * j1))
      /\ y * (10000 * d2) <= x * (49 * (n2 * j2))
  BY DEF Converts, InBalance
<1> DEFINE N == n1 * n2
           D == d1 * d2
           J == j1 * j2
<1>1. N \in Nat /\ D \in Nat /\ D >= 1 /\ J \in Nat /\ 100 * N <= 102 * D
  BY <1>0, Product
<1>2. J <= 40401
  <2>1. j1 * j2 <= 201 * j2
    BY <1>0, ProductsGrow
  <2> QED
    BY <1>0, <2>1
<1>3. (y * (10000 * d2)) * (10000 * d1) <= (x * (49 * (n2 * j2))) * (10000 * d1)
  <2>1. y * (10000 * d2) \in Nat /\ x * (49 * (n2 * j2)) \in Nat /\ 10000 * d1 \in Nat
    BY <1>0, Product
  <2> QED
    BY <1>0, <2>1, ProductsGrow
<1>4. (x * (10000 * d1)) * (49 * (n2 * j2)) <= (a * (49 * (n1 * j1))) * (49 * (n2 * j2))
  <2>1. x * (10000 * d1) \in Nat /\ a * (49 * (n1 * j1)) \in Nat /\ 49 * (n2 * j2) \in Nat
    BY <1>0, Product
  <2> QED
    BY <1>0, <2>1, ProductsGrow
<1>5. (x * (49 * (n2 * j2))) * (10000 * d1) = (x * (10000 * d1)) * (49 * (n2 * j2))
  <2>1. 49 * (n2 * j2) \in Nat /\ 10000 * d1 \in Nat
    BY <1>0, Product
  <2> QED
    BY <1>0, <2>1, Regrouped, Product
<1>6. (y * (10000 * d2)) * (10000 * d1) = 100000000 * (y * D)
  BY <1>0
<1>7. (a * (49 * (n1 * j1))) * (49 * (n2 * j2)) = 2401 * (a * (N * J))
  BY <1>0
<1>8. 100000000 * (y * D) <= 2401 * (a * (N * J))
  <2>1. /\ (y * (10000 * d2)) * (10000 * d1) \in Nat
        /\ (x * (49 * (n2 * j2))) * (10000 * d1) \in Nat
        /\ (a * (49 * (n1 * j1))) * (49 * (n2 * j2)) \in Nat
    BY <1>0, Product
  <2> QED
    BY <1>0, <1>3, <1>4, <1>5, <1>6, <1>7, <2>1
<1> HIDE DEF N, D, J
<1>9. a * (N * J) <= 40401 * (a * N)
  <2>1. N * J <= N * 40401
    BY <1>1, <1>2, ProductsGrow
  <2>2. a * (N * J) <= a * (N * 40401)
    BY <1>0, <1>1, <2>1, Product, ProductsGrow
  <2> QED
    BY <1>0, <1>1, <2>2
<1>10. 100 * (a * N) <= 102 * (a * D)
  <2>1. a * (100 * N) <= a * (102 * D)
    BY <1>0, <1>1, ProductsGrow
  <2> QED
    BY <1>0, <1>1, <2>1
<1>11. y * D \in Nat /\ a * D \in Nat /\ a * N \in Nat /\ a * (N * J) \in Nat
  BY <1>0, <1>1, Product
<1>12. 10000000000 * (y * D) <= 9894285702 * (a * D)
  BY <1>8, <1>9, <1>10, <1>11
<1>13. y * D <= a * D
  BY <1>11, <1>12
<1> QED
  BY <1>0, <1>1, <1>13

(* What a row's conversion needs of it.                                    *)
LEMMA ConvertFacts ==
    ASSUME Typed, NEW i \in DOMAIN rates, NEW a \in Nat
    PROVE  /\ Convert(a, rates[i]) \in Nat
           /\ Converts(a, Convert(a, rates[i]), MockRates[rates[i].pair][1],
                       MockRates[rates[i].pair][2], rates[i].jitter)
<1> DEFINE mid == MockRates[rates[i].pair]
           n == mid[1]
           d == mid[2]
           j == rates[i].jitter
<1>1. n \in Nat /\ d \in Nat \ {0} /\ j \in Nat /\ j <= 201
  <2>1. rates[i] \in RowType
    BY RowFacts
  <2>2. rates[i].pair \in Pairs /\ j \in Jitters
    BY <2>1 DEF RowType
  <2>3. mid \in (Nat \ {0}) \X (Nat \ {0})
    BY <2>2, RatesAssumption
  <2> QED
    BY <2>2, <2>3, RatesAssumption, SpreadAssumption
<1>2. Convert(a, rates[i]) = (a * n * j * 49) \div (d * 200 * 50)
  BY DEF Convert
<1> HIDE DEF n, d, j
<1>3. /\ a * n * j * 49 = a * (49 * (n * j)) /\ a * n * j * 49 \in Nat
      /\ d * 200 * 50 = 10000 * d /\ d * 200 * 50 \in Nat /\ d * 200 * 50 >= 1
  <2>1. a * n * j * 49 = a * (49 * (n * j)) /\ d * 200 * 50 = 10000 * d
    BY <1>1
  <2>2. n * j \in Nat
    BY <1>1, Product
  <2>3. 49 * (n * j) \in Nat
    BY <2>2
  <2>4. a * (49 * (n * j)) \in Nat
    BY <2>3, Product
  <2> QED
    BY <1>1, <2>1, <2>4
<1>4. /\ Convert(a, rates[i]) \in Nat
      /\ Convert(a, rates[i]) * (10000 * d) <= a * (49 * (n * j))
  BY <1>2, <1>3, FloorDivision
<1> QED
  BY <1>1, <1>4 DEF Converts, n, d, j

(* There and back, at whichever rows, never gains: the spread outweighs    *)
(* the jitter and what the two rates of MOCK_RATES are out of balance.     *)
THEOREM RoundTripsNeverGain == Spec => []RoundTripsLose
<1>1. EInv => RoundTripsLose
  <2> SUFFICES ASSUME EInv, NEW i \in DOMAIN rates, NEW j \in DOMAIN rates, NEW a \in Amounts,
                      rates[j].pair = <<rates[i].pair[2], rates[i].pair[1]>>
               PROVE  Convert(Convert(a, rates[i]), rates[j]) <= a
    BY DEF RoundTripsLose
  <2> DEFINE p == rates[i].pair
             q == rates[j].pair
             x == Convert(a, rates[i])
             y == Convert(x, rates[j])
  <2>1. Typed /\ a \in Nat /\ p \in Pairs /\ q \in Pairs /\ q = <<p[2], p[1]>>
    BY RatesAssumption, RowFacts DEF EInv
  <2>2. InBalance(MockRates[p][1], MockRates[p][2], MockRates[q][1], MockRates[q][2])
    <3>1. p \in DOMAIN MockRates /\ q \in DOMAIN MockRates
      BY <2>1, RatesAssumption
    <3> QED
      BY <2>1, <3>1, SpreadAssumption DEF Balanced, InBalance
  <2>3. x \in Nat /\ Converts(a, x, MockRates[p][1], MockRates[p][2], rates[i].jitter)
    BY <2>1, ConvertFacts
  <2> HIDE DEF x
  <2>4. Converts(x, y, MockRates[q][1], MockRates[q][2], rates[j].jitter)
    BY <2>1, <2>3, ConvertFacts
  <2> HIDE DEF y, p, q
  <2>5. y <= a
    BY <2>2, <2>3, <2>4, ThereAndBack
  <2> QED
    BY <2>5 DEF x, y
<1> QED
  BY <1>1, EInvHolds, PTL
=============================================================================
