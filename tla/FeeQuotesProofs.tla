-------------------------- MODULE FeeQuotesProofs --------------------------
(***************************************************************************)
(* Proofs about FeeRules and FeeQuotes, for any processes, keys, rules,    *)
(* requests, administrators and times, and both ways of reading a BIGINT.  *)
(***************************************************************************)
EXTENDS FeeQuotes, FiniteSetTheorems, WellFoundedInduction, TLAPS

(* A set of naturals has a least element.                                  *)
LEMMA LeastNatural ==
    ASSUME NEW S, S \subseteq Nat, S # {}
    PROVE  \E least \in S : \A n \in S : least <= n
<1> DEFINE R == {ss \in Nat \X Nat : ss[1] < ss[2]}
<1>1. IsWellFoundedOn(R, Nat)
  BY NatLessThanWellFounded DEF OpToRel
<1>2. \E least \in S : \A n \in S : ~(<<n, least>> \in R)
  <2> HIDE DEF R
  <2> QED
    BY <1>1, WFMin
<1>3. \A m, n \in Nat : m <= n \/ <<n, m>> \in R
  OBVIOUS
<1> QED
  <2> HIDE DEF R
  <2> QED
    BY <1>2, <1>3

-----------------------------------------------------------------------------
(* The computation of a fee.                                               *)

FeeType == [baseFee : Values, tax : Nat, totalFee : Values]

(* The width of what a column holds is a number.                           *)
LEMMA ShiftIsNatural ==
    ASSUME NEW n \in Column
    PROVE  Shift(n) \in Nat
<1> DEFINE Wide(p) == n < p /\ \A q \in PowersOfTen : n < q => p <= q
<1>1. \E p \in PowersOfTen : Wide(p)
  BY MoneyAssumption DEF Column
<1>2. Shift(n) = CHOOSE p \in PowersOfTen : Wide(p)
  BY DEF Shift
<1>3. Shift(n) \in PowersOfTen
  <2> HIDE DEF Wide
  <2> QED
    BY <1>1, <1>2
<1> QED
  BY <1>3, MoneyAssumption

(* Math.round(n * rate) for a rate of at most 100%: no more than n.        *)
LEMMA PercentBounded ==
    ASSUME NEW n \in Nat, NEW rate \in 0..100
    PROVE  Percent(n, rate) \in 0..n
<1>1. n * rate \in Nat /\ n * rate <= n * 100
  BY SMT
<1> DEFINE m == n * rate
<1>2. 2 * n * rate = 2 * m
  BY SMT
<1>3. (2 * m + 100) \div 200 \in 0..n
  <2> HIDE DEF m
  <2>1. m \in Nat /\ m <= n * 100
    BY <1>1 DEF m
  <2> QED
    BY <2>1, SMT
<1> QED
  BY <1>2, <1>3 DEF Percent

LEMMA ColumnIsNatural == Column \subseteq Nat /\ \A n \in Column : 0..n \subseteq Column
BY MoneyAssumption DEF Column

(* What the type of a rule says of its columns.                            *)
LEMMA RuleColumns ==
    ASSUME NEW r \in FeeRule
    PROVE  /\ r.feeType \in {"flat", "percentage", "tiered"} /\ r.flatAmount \in Column
           /\ r.percentage \in 0..100 /\ r.taxRate \in 0..100 /\ r.tierConfig \in Seq(Tier)
           /\ r.cap \subseteq Column /\ r.floor \subseteq Column
           /\ \A m, n \in r.cap : m = n
           /\ \A m, n \in r.floor : m = n
<1>1. /\ r \in [feeType : {"flat", "percentage", "tiered"}, flatAmount : Column,
                percentage : 0..100, cap : OrNull(Column), floor : OrNull(Column),
                tierConfig : Seq(Tier), taxRate : 0..100,
                minTransferAmount : Column, maxTransferAmount : OrNull(Column)]
      /\ Cardinality(r.cap) <= 1 /\ Cardinality(r.floor) <= 1
  BY DEF FeeRule
<1>2. IsFiniteSet(Column)
  BY FS_Interval, MoneyAssumption DEF Column
<1>3. ASSUME NEW S \in SUBSET Column, Cardinality(S) <= 1, NEW m \in S, NEW n \in S
      PROVE  m = n
  <2>1. IsFiniteSet(S)
    BY <1>2, FS_Subset
  <2>2. Cardinality(S) \in Nat
    BY <2>1, FS_CardinalityType
  <2>3. S # {} /\ Cardinality(S) # 0
    BY <2>1, FS_EmptySet
  <2>4. Cardinality(S) = 1
    BY <1>3, <2>2, <2>3
  <2> QED
    BY <2>1, <2>4, FS_Singleton
<1>4. r.cap \in SUBSET Column /\ r.floor \in SUBSET Column
  BY <1>1 DEF OrNull
<1> QED
  BY <1>1, <1>3, <1>4

(* What a base fee is before the limits: a number, or the flat column.     *)
OfColumn(v) == v.text = Int8AsText /\ v.n \in Column

FromColumnOrNumber(v) == v \in Values /\ (v.text => OfColumn(v))

LEMMA FromColumnType ==
    ASSUME NEW n \in Column
    PROVE  /\ FromColumnOrNumber(FromColumn(n))
           /\ FromColumn(n).n = n /\ FromColumn(n).text = Int8AsText
BY MoneyAssumption, ColumnIsNatural DEF FromColumn, FromColumnOrNumber, OfColumn, Values

LEMMA NumberType ==
    ASSUME NEW n \in Nat
    PROVE  FromColumnOrNumber(Number(n)) /\ Number(n).n = n /\ Number(n).text = FALSE
BY DEF Number, FromColumnOrNumber, OfColumn, Values

(* The first matching tier's fee, or the flat amount.                      *)
LEMMA TieredFeeType ==
    ASSUME NEW r \in FeeRule, NEW amount \in Nat
    PROVE  FromColumnOrNumber(TieredFee(r, amount))
<1> DEFINE matches == MatchingTiers(r, amount)
           first == CHOOSE i \in matches : \A j \in matches : i <= j
<1>1. CASE matches = {}
  BY <1>1, RuleColumns, FromColumnType DEF TieredFee
<1>2. CASE matches # {}
  <2>1. matches \subseteq 1..Len(r.tierConfig)
    BY DEF MatchingTiers
  <2>2. matches \subseteq Nat
    BY <2>1, RuleColumns
  <2>3. \E i \in matches : \A j \in matches : i <= j
    <3> HIDE DEF matches
    <3> QED
      BY <1>2, <2>2, LeastNatural
  <2>4. first \in matches
    BY <2>3
  <2>5. r.tierConfig[first] \in Tier
    BY <2>1, <2>4, RuleColumns
  <2>6. r.tierConfig[first].flatFee \in Nat
    BY <2>5 DEF Tier
  <2> QED
    BY <1>2, <2>6, NumberType DEF TieredFee
<1> QED
  BY <1>1, <1>2

LEMMA BaseFeeType ==
    ASSUME NEW r \in FeeRule, NEW amount \in Nat
    PROVE  FromColumnOrNumber(ComputeBaseFee(r, amount))
<1>1. CASE r.feeType = "flat"
  BY <1>1, RuleColumns, FromColumnType DEF ComputeBaseFee
<1>2. CASE r.feeType = "percentage"
  <2>1. r.percentage \in 0..100
    BY RuleColumns
  <2>2. Percent(amount, r.percentage) \in 0..amount
    BY <2>1, PercentBounded
  <2>3. Percent(amount, r.percentage) \in Nat
    BY <2>2
  <2> QED
    BY <1>2, <2>3, NumberType DEF ComputeBaseFee
<1>3. CASE r.feeType = "tiered"
  BY <1>3, TieredFeeType DEF ComputeBaseFee
<1> QED
  BY <1>1, <1>2, <1>3, RuleColumns

(* The fee after the floor, and then the cap: a number that no limit has   *)
(* replaced respects both; a limit that did replace it is from its column. *)
LEMMA FlooredFee ==
    ASSUME NEW r \in FeeRule, NEW v, FromColumnOrNumber(v)
    PROVE  /\ FromColumnOrNumber(Floored(r, v))
           /\ ~Floored(r, v).text => \A f \in r.floor : f <= Floored(r, v).n
<1>1. CASE \E f \in r.floor : Below(v, FromColumn(f))
  <2> DEFINE f == CHOOSE f \in r.floor : TRUE
  <2>1. f \in r.floor /\ f \in Column /\ \A g \in r.floor : g = f
    BY <1>1, RuleColumns
  <2>2. Floored(r, v) = FromColumn(f)
    BY <1>1 DEF Floored
  <2>3. f \in Nat
    BY <2>1, ColumnIsNatural
  <2> HIDE DEF f
  <2> QED
    BY <2>1, <2>2, <2>3, FromColumnType
<1>2. CASE ~\E f \in r.floor : Below(v, FromColumn(f))
  <2>1. Floored(r, v) = v
    BY <1>2 DEF Floored
  <2>2. ASSUME NEW f \in r.floor, ~v.text PROVE f <= v.n
    <3>1. f \in Nat /\ v.n \in Nat
      BY RuleColumns, ColumnIsNatural DEF FromColumnOrNumber, Values
    <3>2. ~(v.n < FromColumn(f).n)
      BY <1>2, <2>2 DEF Below
    <3> QED
      BY <3>1, <3>2 DEF FromColumn
  <2> QED
    BY <2>1, <2>2
<1> QED
  BY <1>1, <1>2

LEMMA CappedFee ==
    ASSUME NEW r \in FeeRule, NEW v, FromColumnOrNumber(v),
           ~v.text => \A f \in r.floor : f <= v.n
    PROVE  /\ FromColumnOrNumber(Capped(r, v))
           /\ ~Capped(r, v).text =>
                /\ \A f \in r.floor : f <= Capped(r, v).n \/ \E c \in r.cap : c < f
                /\ \A c \in r.cap : Capped(r, v).n <= c
<1>1. CASE \E c \in r.cap : Below(FromColumn(c), v)
  <2> DEFINE c == CHOOSE c \in r.cap : TRUE
  <2>1. c \in r.cap /\ c \in Column /\ \A d \in r.cap : d = c
    BY <1>1, RuleColumns
  <2>2. Capped(r, v) = FromColumn(c)
    BY <1>1 DEF Capped
  <2>3. \A f \in r.floor : f \in Nat
    BY RuleColumns, ColumnIsNatural
  <2>4. c \in Nat
    BY <2>1, ColumnIsNatural
  <2>5. \A f \in r.floor : f <= c \/ c < f
    BY <2>3, <2>4
  <2> HIDE DEF c
  <2> QED
    BY <2>1, <2>2, <2>4, <2>5, FromColumnType
<1>2. CASE ~\E c \in r.cap : Below(FromColumn(c), v)
  <2>1. Capped(r, v) = v
    BY <1>2 DEF Capped
  <2>2. ASSUME NEW c \in r.cap, ~v.text PROVE v.n <= c
    <3>1. c \in Nat /\ v.n \in Nat
      BY RuleColumns, ColumnIsNatural DEF FromColumnOrNumber, Values
    <3>2. ~(FromColumn(c).n < v.n)
      BY <1>2, <2>2 DEF Below
    <3> QED
      BY <3>1, <3>2 DEF FromColumn
  <2> QED
    BY <2>1, <2>2
<1> QED
  BY <1>1, <1>2

(* A fee computed in range, when it is still a number.                     *)
Exact(r, fee) ==
    /\ fee.totalFee.n = fee.baseFee.n + fee.tax
    /\ \A f \in r.floor : f <= fee.baseFee.n \/ \E c \in r.cap : c < f
    /\ \A c \in r.cap : fee.baseFee.n <= c

(* Every fee that calculate returns has its type; one that is still a      *)
(* number is the sum of its parts and respects the limits of its rule.     *)
LEMMA CalculateIsExact ==
    ASSUME NEW r \in FeeRule, NEW amount \in Nat
    PROVE  LET fee == Calculate(r, amount)
           IN  /\ fee \in FeeType
               /\ InRange(r, amount) /\ ~fee.totalFee.text => Exact(r, fee)
<1> DEFINE floored == Floored(r, ComputeBaseFee(r, amount))
           base == Capped(r, floored)
           tax == Percent(base.n, r.taxRate)
           fee == [baseFee |-> base, tax |-> tax, totalFee |-> Plus(base, Number(tax))]
<1>1. CASE ~InRange(r, amount)
  <2>1. Calculate(r, amount) = ZeroFee
    BY <1>1 DEF Calculate
  <2>2. ZeroFee \in FeeType
    BY DEF ZeroFee, FeeType, Number, Values
  <2> QED
    BY <1>1, <2>1, <2>2
<1>2. CASE InRange(r, amount)
  <2>1. Calculate(r, amount) = fee
    BY <1>2 DEF Calculate
  <2>2. /\ FromColumnOrNumber(floored)
        /\ ~floored.text => \A f \in r.floor : f <= floored.n
    BY BaseFeeType, FlooredFee
  <2>3. /\ FromColumnOrNumber(base)
        /\ ~base.text => /\ \A f \in r.floor : f <= base.n \/ \E c \in r.cap : c < f
                         /\ \A c \in r.cap : base.n <= c
    <3> HIDE DEF floored
    <3> QED
      BY <2>2, CappedFee
  <2> HIDE DEF base
  <2>4. base \in Values /\ base.n \in Nat /\ base.text \in BOOLEAN
        /\ (base.text => base.n \in Column)
    BY <2>3 DEF FromColumnOrNumber, OfColumn, Values
  <2>5. tax \in 0..base.n /\ tax \in Nat
    <3>1. r.taxRate \in 0..100
      BY RuleColumns
    <3>2. tax \in 0..base.n
      BY <2>4, <3>1, PercentBounded
    <3> QED
      BY <2>4, <3>2
  <2>6. Number(tax).n = tax /\ Number(tax).text = FALSE
    BY DEF Number
  <2> HIDE DEF tax
  <2>7. CASE base.text
    <3>1. tax \in Column
      BY <2>4, <2>5, <2>7, ColumnIsNatural
    <3>2. base.n * Shift(tax) + tax \in Nat
      BY <2>4, <2>5, <3>1, ShiftIsNatural
    <3>3. Plus(base, Number(tax)) = [text |-> TRUE, n |-> base.n * Shift(tax) + tax]
      BY <2>6, <2>7 DEF Plus, AppendDigits
    <3>4. fee \in FeeType /\ fee.totalFee.text
      BY <2>4, <2>5, <3>2, <3>3 DEF FeeType, Values
    <3> QED
      BY <2>1, <3>4
  <2>8. CASE ~base.text
    <3>1. Plus(base, Number(tax)) = [text |-> FALSE, n |-> base.n + tax]
      BY <2>6, <2>8 DEF Plus, Number
    <3>2. fee \in FeeType
      BY <2>4, <2>5, <3>1 DEF FeeType, Values
    <3>3. Exact(r, fee)
      BY <2>3, <2>8, <3>1 DEF Exact
    <3> QED
      BY <2>1, <3>2, <3>3
  <2> QED
    BY <2>4, <2>7, <2>8
<1> QED
  BY <1>1, <1>2

-----------------------------------------------------------------------------
(* The inductive invariant.                                                *)

Entry == [rule : MaybeConfig, until : Int, raced : BOOLEAN]
QuoteRow == [step : {"new", "read", "fill", "over", "dead"}, process : SUBSET Processes,
             rule : MaybeConfig, readAt : Nat, fee : FeeType, at : Nat]
AdminRow == [step : {"new", "saved", "failed", "over"},
             process : SUBSET Processes, key : SUBSET Keys]
Ended == [key : Keys, rule : MaybeConfig, end : Nat]

Typed ==
    /\ rules \in [RuleIds -> {NoRow} \union Row]
    /\ cache \in [Processes -> [Keys -> Entry]]
    /\ quote \in [Quotes -> QuoteRow]
    /\ admin \in [Admins -> AdminRow]
    /\ clock \in 0..MaxTime
    /\ superseded \subseteq Ended

(* A rule was in force at t, or at some time since.                        *)
InForceSince(k, rule, t) ==
    \/ rule \in InForce(rules, k)
    \/ \E s \in superseded : s.key = k /\ s.rule = rule /\ s.end >= t

(* Whoever holds a rule got it when it was in force: a request that fills  *)
(* the cache when it read it, an entry a life and a fetch before it ends.  *)
FairEntry(k, e) ==
    \/ e = Empty
    \/ /\ e.rule # Null
       /\ e.until \in TTL..(clock + TTL)
       /\ InForceSince(k, e.rule, e.until - TTL - FetchTime)

FairQuote(q, r) ==
    /\ r.at <= clock
    /\ r.step = "fill" =>
          /\ r.rule # Null
          /\ r.readAt <= clock /\ clock <= r.readAt + FetchTime
          /\ InForceSince(Key(q), r.rule, r.readAt)
    /\ r.step = "over" => \A rule \in r.rule : r.fee = Calculate(rule, Asks[q].amount)
    /\ r.step = "over" /\ r.rule # Null =>
          InForceSince(Key(q), r.rule, r.at - TTL - FetchTime)

Fair ==
    /\ \A p \in Processes, k \in Keys : FairEntry(k, cache[p][k])
    /\ \A q \in Quotes : FairQuote(q, quote[q])

(* A request of an administrator knows its process and key once it saved.  *)
Administered ==
    \A a \in Admins :
        /\ admin[a].step = "new" => admin[a].key = Null
        /\ admin[a].step # "new" =>
              \E p \in Processes, k \in Keys : admin[a].process = {p} /\ admin[a].key = {k}

FInv == Typed /\ Fair /\ Administered /\ OnlyRacesKeepStale

LEMMA Times == TTL \in Nat /\ FetchTime \in Nat /\ MaxTime \in Nat
BY FeeQuotesAssumption

LEMMA KeyType == ASSUME NEW q \in Quotes PROVE Key(q) \in Keys /\ Asks[q].amount \in Nat
BY FeeQuotesAssumption DEF Key

(* What is in force is null or one of the configurations.                  *)
LEMMA InForceType ==
    ASSUME NEW table \in [RuleIds -> {NoRow} \union Row], NEW k
    PROVE  InForce(table, k) \subseteq MaybeConfig
<1>1. ASSUME NEW i \in Winners(table, k) PROVE table[i].config \in MaybeConfig
  <2>1. i \in RuleIds /\ table[i].active
    BY DEF Winners
  <2>2. table[i] \in Row
    BY <2>1 DEF NoRow
  <2> QED
    BY <2>2 DEF Row, MaybeConfig
<1> QED
  BY <1>1 DEF InForce, MaybeConfig

LEMMA ZeroFeeType == ZeroFee \in FeeType
BY DEF ZeroFee, FeeType, Number, Values

(* An answer from a rule that was in force recently is a fair one.         *)
LEMMA AnswerIsFair ==
    ASSUME Typed, NEW q \in Quotes, NEW rule \in MaybeConfig,
           rule # Null => InForceSince(Key(q), rule, clock - TTL - FetchTime)
    PROVE  Answered(q, rule) \in QuoteRow /\ FairQuote(q, Answered(q, rule))
<1> DEFINE r == Answered(q, rule)
<1>1. clock \in Nat
  BY Times DEF Typed
<1>2. CASE rule = Null
  <2>1. r = [step |-> "over", process |-> Null, rule |-> Null, readAt |-> 0,
             fee |-> ZeroFee, at |-> clock]
    BY <1>2 DEF Answered
  <2>2. r \in QuoteRow
    BY <1>1, <1>2, <2>1, ZeroFeeType DEF QuoteRow, Null
  <2>3. FairQuote(q, r)
    BY <1>1, <2>1 DEF FairQuote, Null
  <2> QED
    BY <2>2, <2>3
<1>3. CASE rule # Null
  <2>1. PICK c \in Configs : rule = {c}
    BY <1>3 DEF MaybeConfig
  <2>2. c \in FeeRule /\ (CHOOSE d \in rule : TRUE) = c
    BY <2>1, FeeQuotesAssumption
  <2> DEFINE fee == Calculate(c, Asks[q].amount)
  <2>3. fee \in FeeType
    BY <2>2, KeyType, CalculateIsExact
  <2>4. r = [step |-> "over", process |-> Null, rule |-> rule, readAt |-> 0,
             fee |-> fee, at |-> clock]
    BY <1>3, <2>2 DEF Answered
  <2> HIDE DEF fee
  <2>5. r \in QuoteRow
    BY <1>1, <2>3, <2>4 DEF QuoteRow, Null
  <2>6. \A d \in rule : fee = Calculate(d, Asks[q].amount)
    BY <2>1 DEF fee
  <2>7. FairQuote(q, r)
    BY <1>1, <2>4, <2>6 DEF FairQuote
  <2> QED
    BY <2>5, <2>7
<1> QED
  BY <1>2, <1>3

(* The excuses for an outdated rule, apart from a race.                    *)
Pending(k) == \E a \in Admins : admin[a].step \in {"saved", "failed"} /\ admin[a].key = {k}
Elsewhere(p, k) == \E a \in Admins : admin[a].key = {k} /\ admin[a].process # {p}

Excused(p, k, e) ==
    e.rule # Null /\ e.rule \notin InForce(rules, k) => e.raced \/ Pending(k) \/ Elsewhere(p, k)

LEMMA AllExcused ==
    OnlyRacesKeepStale <=> \A p \in Processes, k \in Keys : Excused(p, k, cache[p][k])
BY DEF OnlyRacesKeepStale, Excused, Pending, Elsewhere

LEMMA AllExcusedNext ==
    OnlyRacesKeepStale' <=> \A p \in Processes, k \in Keys : Excused(p, k, cache[p][k])'
BY DEF OnlyRacesKeepStale, Excused, Pending, Elsewhere

LEMMA StillExcused ==
    ASSUME UNCHANGED <<rules, admin>>
    PROVE  \A p, k, e : Excused(p, k, e) => Excused(p, k, e)'
<1> SUFFICES ASSUME NEW p, NEW k, NEW e, Excused(p, k, e) PROVE Excused(p, k, e)'
  OBVIOUS
<1> QED
  BY DEF Excused, Pending, Elsewhere, InForce, Winners

(* A request moves on while everything else stays.                         *)
LEMMA QuoteStep ==
    ASSUME FInv, NEW q \in Quotes, NEW r \in QuoteRow, FairQuote(q, r),
           quote' = [quote EXCEPT ![q] = r],
           UNCHANGED <<rules, cache, admin, clock, superseded>>
    PROVE  FInv'
<1>1. Typed'
  BY DEF FInv, Typed
<1>2. \A x \in Quotes : FairQuote(x, quote'[x])
  BY DEF FInv, Fair, Typed
<1>3. ASSUME NEW x, NEW row, FairQuote(x, row) PROVE FairQuote(x, row)'
  BY <1>3 DEF FairQuote, InForceSince
<1>4. ASSUME NEW k, NEW e, FairEntry(k, e) PROVE FairEntry(k, e)'
  BY <1>4 DEF FairEntry, InForceSince
<1>5. Fair'
  BY <1>2, <1>3, <1>4 DEF FInv, Fair
<1>6. Administered'
  BY DEF FInv, Administered
<1>7. \A p, k, e : Excused(p, k, e) => Excused(p, k, e)'
  BY StillExcused
<1>8. OnlyRacesKeepStale'
  BY <1>7, AllExcused, AllExcusedNext DEF FInv
<1> QED
  BY <1>1, <1>5, <1>6, <1>8 DEF FInv

LEMMA HitStep ==
    ASSUME FInv, NEW q \in Quotes, NEW p \in Processes, Hit(q, p)
    PROVE  FInv'
<1> DEFINE e == cache[p][Key(q)]
<1>1. Typed /\ Key(q) \in Keys /\ clock \in Int
  BY KeyType DEF FInv, Typed
<1>2. e \in Entry /\ FairEntry(Key(q), e)
  BY <1>1 DEF FInv, Fair, Typed
<1>3. e.rule # Null /\ clock <= e.until
  BY DEF Hit, Cached
<1>4. e.rule \in MaybeConfig /\ e.until \in Int
  BY <1>2 DEF Entry
<1>5. InForceSince(Key(q), e.rule, e.until - TTL - FetchTime)
  BY <1>2, <1>3 DEF FairEntry, Empty
<1>6. \A s \in superseded : s.end \in Int
  BY <1>1 DEF Typed, Ended
<1>7. InForceSince(Key(q), e.rule, clock - TTL - FetchTime)
  <2> HIDE DEF e
  <2> QED
    BY <1>1, <1>3, <1>4, <1>5, <1>6, Times DEF InForceSince
<1>8. Answered(q, e.rule) \in QuoteRow /\ FairQuote(q, Answered(q, e.rule))
  <2> HIDE DEF e
  <2> QED
    BY <1>1, <1>4, <1>7, AnswerIsFair
<1> QED
  BY <1>8, QuoteStep DEF Hit

LEMMA MissStep ==
    ASSUME FInv, NEW q \in Quotes, NEW p \in Processes, Miss(q, p)
    PROVE  FInv'
<1> DEFINE r == [quote[q] EXCEPT !.step = "read", !.process = {p}]
<1>1. quote[q] \in QuoteRow /\ FairQuote(q, quote[q])
  BY DEF FInv, Fair, Typed
<1>2. r \in QuoteRow
  BY <1>1 DEF QuoteRow
<1>3. FairQuote(q, r)
  BY <1>1 DEF FairQuote, QuoteRow
<1>4. quote' = [quote EXCEPT ![q] = r]
  BY DEF Miss, FInv, Typed
<1> QED
  BY <1>2, <1>3, <1>4, QuoteStep DEF Miss

LEMMA ReadStep ==
    ASSUME FInv, NEW q \in Quotes, Read(q)
    PROVE  FInv'
<1>1. PICK rule \in InForce(rules, Key(q)) :
          quote' = [quote EXCEPT ![q] =
                      IF rule = Null THEN Answered(q, Null)
                      ELSE [@ EXCEPT !.step = "fill", !.rule = rule, !.readAt = clock]]
  BY DEF Read
<1>2. Typed /\ Key(q) \in Keys /\ clock \in Nat
  BY KeyType, Times DEF FInv, Typed
<1>3. rule \in MaybeConfig
  BY <1>2, InForceType DEF Typed
<1>4. CASE rule = Null
  BY <1>1, <1>2, <1>3, <1>4, AnswerIsFair, QuoteStep DEF Read
<1>5. CASE rule # Null
  <2> DEFINE r == [quote[q] EXCEPT !.step = "fill", !.rule = rule, !.readAt = clock]
  <2>1. quote[q] \in QuoteRow /\ FairQuote(q, quote[q])
    BY DEF FInv, Fair, Typed
  <2>2. r \in QuoteRow
    BY <1>2, <1>3, <2>1 DEF QuoteRow
  <2>3. FairQuote(q, r)
    BY <1>2, <1>5, <2>1, Times DEF FairQuote, QuoteRow, InForceSince
  <2>4. quote' = [quote EXCEPT ![q] = r]
    BY <1>1, <1>5
  <2> QED
    BY <2>2, <2>3, <2>4, QuoteStep DEF Read
<1> QED
  BY <1>4, <1>5

-----------------------------------------------------------------------------
LEMMA EmptyIsFair ==
    /\ Empty \in Entry
    /\ \A k, p : FairEntry(k, Empty) /\ Excused(p, k, Empty)
BY DEF Empty, Entry, MaybeConfig, FairEntry, Excused

(* An entry of one process and key is written.                             *)
LEMMA FillStep ==
    ASSUME FInv, NEW q \in Quotes, Fill(q)
    PROVE  FInv'
<1> DEFINE e == [rule |-> quote[q].rule, until |-> clock + TTL,
                 raced |-> quote[q].rule \notin InForce(rules, Key(q))]
           answer == Answered(q, quote[q].rule)
<1>1. PICK p \in quote[q].process : /\ cache' = [cache EXCEPT ![p][Key(q)] = e]
                                    /\ quote' = [quote EXCEPT ![q] = answer]
  BY DEF Fill
<1>2. /\ Typed /\ Key(q) \in Keys /\ clock \in Nat /\ quote[q].step = "fill"
      /\ UNCHANGED <<rules, admin, clock, superseded>>
  BY KeyType, Times DEF FInv, Typed, Fill
<1>3. quote[q] \in QuoteRow /\ FairQuote(q, quote[q])
  BY DEF FInv, Fair, Typed
<1>4. /\ p \in Processes /\ quote[q].rule \in MaybeConfig /\ quote[q].readAt \in Nat
      /\ quote[q].rule # Null /\ clock <= quote[q].readAt + FetchTime
      /\ InForceSince(Key(q), quote[q].rule, quote[q].readAt)
  BY <1>1, <1>2, <1>3 DEF QuoteRow, FairQuote
<1>5. \A s \in superseded : s.end \in Int
  BY <1>2 DEF Typed, Ended
<1>6. /\ InForceSince(Key(q), quote[q].rule, clock - FetchTime)
      /\ InForceSince(Key(q), quote[q].rule, clock - TTL - FetchTime)
  <2> DEFINE rule == quote[q].rule
             t == quote[q].readAt
  <2>1. t \in Nat /\ clock <= t + FetchTime /\ InForceSince(Key(q), rule, t)
    BY <1>4
  <2> HIDE DEF rule, t
  <2>2. InForceSince(Key(q), rule, clock - FetchTime)
    BY <1>2, <1>5, <2>1, Times DEF InForceSince
  <2>3. InForceSince(Key(q), rule, clock - TTL - FetchTime)
    BY <1>2, <1>5, <2>1, Times DEF InForceSince
  <2> QED
    BY <2>2, <2>3 DEF rule
<1>7. answer \in QuoteRow /\ FairQuote(q, answer)
  BY <1>2, <1>4, <1>6, AnswerIsFair
<1>8. e \in Entry /\ FairEntry(Key(q), e) /\ Excused(p, Key(q), e)
  <2>1. e \in Entry
    BY <1>2, <1>4, Times DEF Entry
  <2>2. e.until - TTL - FetchTime = clock - FetchTime /\ e.until \in TTL..(clock + TTL)
    BY <1>2, Times
  <2>3. FairEntry(Key(q), e)
    BY <1>4, <1>6, <2>2 DEF FairEntry
  <2> QED
    BY <2>1, <2>3 DEF Excused
<1> HIDE DEF e, answer
<1>9. Typed'
  BY <1>1, <1>2, <1>4, <1>7, <1>8 DEF Typed
<1>10. /\ \A x \in Processes, k \in Keys : FairEntry(k, cache'[x][k])
       /\ \A x \in Processes, k \in Keys : Excused(x, k, cache'[x][k])
       /\ \A x \in Quotes : FairQuote(x, quote'[x])
  <2>1. ASSUME NEW x \in Processes, NEW k \in Keys
        PROVE  FairEntry(k, cache'[x][k]) /\ Excused(x, k, cache'[x][k])
    <3>1. FairEntry(k, cache[x][k]) /\ Excused(x, k, cache[x][k])
      BY AllExcused DEF FInv, Fair
    <3>2. cache'[x][k] = IF x = p /\ k = Key(q) THEN e ELSE cache[x][k]
      BY <1>1, <1>2 DEF Typed
    <3> QED
      BY <1>8, <3>1, <3>2
  <2>2. ASSUME NEW x \in Quotes PROVE FairQuote(x, quote'[x])
    BY <1>1, <1>2, <1>7 DEF FInv, Fair, Typed
  <2> QED
    BY <2>1, <2>2
<1>11. ASSUME NEW x, NEW row, FairQuote(x, row) PROVE FairQuote(x, row)'
  BY <1>2, <1>11 DEF FairQuote, InForceSince
<1>12. ASSUME NEW k, NEW row, FairEntry(k, row) PROVE FairEntry(k, row)'
  BY <1>2, <1>12 DEF FairEntry, InForceSince
<1>13. \A x, k, row : Excused(x, k, row) => Excused(x, k, row)'
  BY <1>2, StillExcused
<1>14. Fair'
  BY <1>10, <1>11, <1>12 DEF Fair
<1>15. OnlyRacesKeepStale'
  <2>1. \A x \in Processes, k \in Keys : Excused(x, k, cache[x][k])'
    BY <1>10, <1>13
  <2> QED
    BY <2>1, AllExcusedNext
<1>16. Administered'
  BY <1>2 DEF FInv, Administered
<1> QED
  BY <1>9, <1>14, <1>15, <1>16 DEF FInv

-----------------------------------------------------------------------------
(* A save only adds to what was in force at some time: a rule that it      *)
(* replaces is remembered with its end, other keys are not touched.        *)
LEMMA SavesRemember ==
    ASSUME Typed, NEW a \in Admins, NEW p \in Processes, NEW i \in RuleIds,
           NEW row \in Row, Saves(a, p, i, row), clock' = clock,
           NEW k \in Keys
    PROVE  /\ k # KeyOf[i] => InForce(rules, k)' = InForce(rules, k)
           /\ \A rule, t : t \in Int /\ t <= clock /\ InForceSince(k, rule, t)
                              => InForceSince(k, rule, t)'
<1>1. /\ rules \in [RuleIds -> {NoRow} \union Row]
      /\ rules' = [rules EXCEPT ![i] = row]
      /\ superseded' = superseded \union
            {[key |-> KeyOf[i], rule |-> r, end |-> clock] :
                r \in InForce(rules, KeyOf[i]) \ InForce(rules', KeyOf[i])}
  BY DEF Typed, Saves, Replaced
<1>2. k # KeyOf[i] => InForce(rules', k) = InForce(rules, k)
  <2> SUFFICES ASSUME k # KeyOf[i] PROVE InForce(rules', k) = InForce(rules, k)
    OBVIOUS
  <2>1. \A j \in RuleIds : KeyOf[j] = k => rules'[j] = rules[j]
    BY <1>1
  <2>2. Winners(rules', k) = Winners(rules, k)
    BY <2>1 DEF Winners
  <2>3. \A j \in Winners(rules, k) : rules'[j] = rules[j]
    BY <2>1 DEF Winners
  <2>4. {rules'[j].config : j \in Winners(rules, k)} = {rules[j].config : j \in Winners(rules, k)}
    BY <2>3
  <2> QED
    BY <2>2, <2>4 DEF InForce
<1>3. ASSUME NEW rule, NEW t \in Int, t <= clock, InForceSince(k, rule, t)
      PROVE  \/ rule \in InForce(rules', k)
             \/ \E s \in superseded' : s.key = k /\ s.rule = rule /\ s.end >= t
  <2>1. CASE rule \in InForce(rules, k) /\ k = KeyOf[i] /\ rule \notin InForce(rules', k)
    <3> DEFINE s == [key |-> k, rule |-> rule, end |-> clock]
    <3>1. s \in superseded'
      BY <1>1, <2>1
    <3>2. s.key = k /\ s.rule = rule /\ s.end >= t
      BY <1>3 DEF Typed
    <3> QED
      BY <3>1, <3>2
  <2>2. CASE rule \in InForce(rules, k) /\ (k # KeyOf[i] \/ rule \in InForce(rules', k))
    BY <1>2, <2>2
  <2>3. CASE rule \notin InForce(rules, k)
    BY <1>1, <1>3, <2>3 DEF InForceSince
  <2> QED
    BY <2>1, <2>2, <2>3
<1>4. InForce(rules, k)' = InForce(rules', k)
  BY DEF InForce, Winners
<1> QED
  BY <1>2, <1>3, <1>4 DEF InForceSince

LEMMA SavesStep ==
    ASSUME FInv, NEW a \in Admins, NEW p \in Processes, NEW i \in RuleIds, NEW row \in Row,
           admin[a].step = "new", Saves(a, p, i, row), UNCHANGED <<cache, quote, clock>>
    PROVE  FInv'
<1> DEFINE saved == [step |-> "saved", process |-> {p}, key |-> {KeyOf[i]}]
<1>1. /\ Typed /\ KeyOf[i] \in Keys
      /\ rules' = [rules EXCEPT ![i] = row]
      /\ superseded' = superseded \union
            {[key |-> KeyOf[i], rule |-> r, end |-> clock] :
                r \in InForce(rules, KeyOf[i]) \ InForce(rules', KeyOf[i])}
      /\ admin' = [admin EXCEPT ![a] = saved]
      /\ admin[a].key = Null
  BY FeeQuotesAssumption DEF FInv, Administered, Saves, Replaced
<1>2. clock \in Nat
  BY <1>1, Times DEF Typed
<1>3. Typed'
  <2>1. rules' \in [RuleIds -> {NoRow} \union Row]
    BY <1>1 DEF Typed
  <2>2. superseded' \subseteq Ended
    <3>1. InForce(rules, KeyOf[i]) \subseteq MaybeConfig
      BY <1>1, InForceType DEF Typed
    <3> QED
      BY <1>1, <1>2, <3>1 DEF Typed, Ended
  <2>3. admin' \in [Admins -> AdminRow]
    BY <1>1 DEF Typed, AdminRow
  <2> QED
    BY <2>1, <2>2, <2>3 DEF FInv, Typed
<1>4. ASSUME NEW k \in Keys, NEW e \in Entry, FairEntry(k, e) PROVE FairEntry(k, e)'
  <2>1. CASE e = Empty
    BY <2>1 DEF FairEntry, Empty
  <2>2. CASE e # Empty
    <3>1. /\ e.rule # Null /\ e.until \in TTL..(clock + TTL)
          /\ InForceSince(k, e.rule, e.until - TTL - FetchTime)
      BY <1>4, <2>2 DEF FairEntry
    <3>2. e.until - TTL - FetchTime \in Int /\ e.until - TTL - FetchTime <= clock
      BY <1>2, <3>1, Times
    <3>3. InForceSince(k, e.rule, e.until - TTL - FetchTime)'
      BY <1>1, <3>1, <3>2, SavesRemember
    <3> QED
      BY <3>1, <3>3 DEF FairEntry
  <2> QED
    BY <2>1, <2>2
<1>5. ASSUME NEW q \in Quotes, NEW r \in QuoteRow, FairQuote(q, r) PROVE FairQuote(q, r)'
  <2>1. Key(q) \in Keys /\ r.at \in Nat /\ r.readAt \in Nat /\ r.at <= clock
    BY <1>5, KeyType DEF QuoteRow, FairQuote
  <2>2. r.at - TTL - FetchTime \in Int /\ r.at - TTL - FetchTime <= clock
    BY <1>2, <2>1, Times
  <2>3. r.step = "fill" => InForceSince(Key(q), r.rule, r.readAt)'
    BY <1>1, <1>5, <2>1, SavesRemember DEF FairQuote
  <2>4. r.step = "over" /\ r.rule # Null =>
            InForceSince(Key(q), r.rule, r.at - TTL - FetchTime)'
    BY <1>1, <1>5, <2>1, <2>2, SavesRemember DEF FairQuote
  <2> QED
    BY <1>5, <2>3, <2>4 DEF FairQuote
<1>6. Fair'
  BY <1>1, <1>4, <1>5 DEF FInv, Fair, Typed
<1>7. Administered'
  BY <1>1 DEF FInv, Administered, Typed
<1>8. ASSUME NEW x \in Processes, NEW k \in Keys PROVE Excused(x, k, cache[x][k])'
  <2>1. CASE k = KeyOf[i]
    <3>1. admin'[a].step = "saved" /\ admin'[a].key = {k}
      BY <1>1, <2>1 DEF Typed
    <3> QED
      BY <3>1 DEF Excused, Pending
  <2>2. CASE k # KeyOf[i]
    <3>1. InForce(rules, k)' = InForce(rules, k)
      BY <1>1, <2>2, SavesRemember
    <3>2. Excused(x, k, cache[x][k])
      BY AllExcused DEF FInv
    <3>3. \A b \in Admins : admin[b].key = {k} => admin'[b] = admin[b]
      BY <1>1 DEF Typed, Null
    <3>4. Pending(k) => Pending(k)'
      BY <3>3 DEF Pending
    <3>5. Elsewhere(x, k) => Elsewhere(x, k)'
      BY <3>3 DEF Elsewhere
    <3> QED
      BY <3>1, <3>2, <3>4, <3>5 DEF Excused
  <2> QED
    BY <2>1, <2>2
<1> QED
  BY <1>3, <1>6, <1>7, <1>8, AllExcusedNext DEF FInv

LEMMA CreateStep ==
    ASSUME FInv, NEW a \in Admins, NEW p \in Processes, NEW i \in RuleIds, NEW c \in Configs,
           CreateFeeRule(a, p, i, c)
    PROVE  FInv'
<1>1. [active |-> TRUE, config |-> {c}] \in Row
  BY DEF Row
<1> QED
  BY <1>1, SavesStep DEF CreateFeeRule

LEMMA UpdateStep ==
    ASSUME FInv, NEW a \in Admins, NEW p \in Processes, NEW i \in RuleIds, NEW row \in Row,
           UpdateFeeRule(a, p, i, row)
    PROVE  FInv'
BY SavesStep DEF UpdateFeeRule

(* What an administrator may make of a row that exists is a row.           *)
LEMMA UpdatedRow ==
    ASSUME Typed, NEW i \in RuleIds, rules[i] # NoRow, NEW c \in Configs
    PROVE  [rules[i] EXCEPT !.config = {c}] \in Row /\ [rules[i] EXCEPT !.active = ~@] \in Row
BY DEF Typed, Row

-----------------------------------------------------------------------------
(* The cache loses entries, requests end: nothing else changes.            *)
LEMMA StillFair ==
    ASSUME UNCHANGED <<rules, clock, superseded>>
    PROVE  /\ \A k, e : FairEntry(k, e) => FairEntry(k, e)'
           /\ \A q, r : FairQuote(q, r) => FairQuote(q, r)'
           /\ \A k : InForce(rules, k)' = InForce(rules, k)
BY DEF FairEntry, FairQuote, InForceSince, InForce, Winners

LEMMA InvalidateStep ==
    ASSUME FInv, NEW a \in Admins, InvalidateFeeCache(a)
    PROVE  FInv'
<1>1. /\ Typed /\ admin[a].step = "saved"
      /\ admin' = [admin EXCEPT ![a].step = "over"]
      /\ UNCHANGED <<rules, quote, clock, superseded>>
  BY DEF FInv, InvalidateFeeCache
<1>2. PICK p \in Processes, k \in Keys :
          /\ admin[a].process = {p} /\ admin[a].key = {k}
          /\ cache' = [cache EXCEPT ![p][k] = Empty]
  <2>1. PICK p \in Processes, k \in Keys : admin[a].process = {p} /\ admin[a].key = {k}
    BY <1>1 DEF FInv, Administered
  <2>2. cache' = [cache EXCEPT ![p][k] = Empty]
    BY <2>1 DEF InvalidateFeeCache
  <2> QED
    BY <2>1, <2>2
<1>3. cache' \in [Processes -> [Keys -> Entry]]
  BY <1>1, <1>2, EmptyIsFair DEF Typed
<1>4. \A b \in Admins : /\ admin'[b].process = admin[b].process /\ admin'[b].key = admin[b].key
                        /\ b # a => admin'[b].step = admin[b].step
                        /\ b = a => admin'[b].step = "over"
  BY <1>1 DEF Typed, AdminRow
<1>5. admin' \in [Admins -> AdminRow]
  BY <1>1 DEF Typed, AdminRow
<1>6. Typed'
  BY <1>1, <1>3, <1>5 DEF Typed
<1>7. \A x \in Processes, y \in Keys :
          cache'[x][y] = IF x = p /\ y = k THEN Empty ELSE cache[x][y]
  BY <1>1, <1>2 DEF Typed
<1>8. Fair'
  <2>1. \A x \in Processes, y \in Keys : FairEntry(y, cache'[x][y])
    BY <1>7, EmptyIsFair DEF FInv, Fair
  <2> QED
    BY <1>1, <2>1, StillFair DEF FInv, Fair
<1>9. Administered'
  BY <1>1, <1>4 DEF FInv, Administered
<1>10. ASSUME NEW x \in Processes, NEW y \in Keys PROVE Excused(x, y, cache[x][y])'
  <2>1. CASE x = p /\ y = k
    BY <1>7, <2>1 DEF Excused, Empty
  <2>2. CASE ~(x = p /\ y = k)
    <3>1. Excused(x, y, cache[x][y]) /\ cache'[x][y] = cache[x][y]
      BY <1>7, <2>2, AllExcused DEF FInv
    <3>2. Pending(y) => Pending(y)' \/ Elsewhere(x, y)'
      <4> SUFFICES ASSUME NEW b \in Admins, admin[b].step \in {"saved", "failed"},
                          admin[b].key = {y}
                   PROVE  Pending(y)' \/ Elsewhere(x, y)'
        BY DEF Pending
      <4>1. CASE b = a
        <5>1. y = k /\ x # p
          BY <1>2, <2>2, <4>1
        <5>2. admin'[a].key = {y} /\ admin'[a].process # {x}
          BY <1>2, <1>4, <5>1
        <5> QED
          BY <5>2 DEF Elsewhere
      <4>2. CASE b # a
        BY <1>4, <4>2 DEF Pending
      <4> QED
        BY <4>1, <4>2
    <3>3. Elsewhere(x, y) => Elsewhere(x, y)'
      BY <1>4 DEF Elsewhere
    <3>4. InForce(rules, y)' = InForce(rules, y)
      BY <1>1, StillFair
    <3> QED
      BY <3>1, <3>2, <3>3, <3>4 DEF Excused
  <2> QED
    BY <2>1, <2>2
<1> QED
  BY <1>6, <1>8, <1>9, <1>10, AllExcusedNext DEF FInv

LEMMA ReadBackFailsStep ==
    ASSUME FInv, NEW a \in Admins, ReadBackFails(a)
    PROVE  FInv'
<1>1. /\ Typed /\ admin[a].step = "saved"
      /\ admin' = [admin EXCEPT ![a].step = "failed"]
      /\ UNCHANGED <<rules, cache, quote, clock, superseded>>
  BY DEF FInv, ReadBackFails
<1>2. \A b \in Admins : /\ admin'[b].process = admin[b].process /\ admin'[b].key = admin[b].key
                        /\ b # a => admin'[b].step = admin[b].step
                        /\ b = a => admin'[b].step = "failed"
  BY <1>1 DEF Typed, AdminRow
<1>3. Typed'
  BY <1>1 DEF Typed, AdminRow
<1>4. Fair'
  BY <1>1, StillFair DEF FInv, Fair
<1>5. Administered'
  BY <1>1, <1>2 DEF FInv, Administered
<1>6. ASSUME NEW x \in Processes, NEW y \in Keys PROVE Excused(x, y, cache[x][y])'
  <2>1. Excused(x, y, cache[x][y]) /\ InForce(rules, y)' = InForce(rules, y)
    BY <1>1, AllExcused, StillFair DEF FInv
  <2>2. Pending(y) => Pending(y)'
    BY <1>1, <1>2 DEF Pending
  <2>3. Elsewhere(x, y) => Elsewhere(x, y)'
    BY <1>2 DEF Elsewhere
  <2> QED
    BY <1>1, <2>1, <2>2, <2>3 DEF Excused
<1> QED
  BY <1>3, <1>4, <1>5, <1>6, AllExcusedNext DEF FInv

LEMMA RestartStep ==
    ASSUME FInv, NEW p \in Processes, Restart(p)
    PROVE  FInv'
<1> DEFINE dead == [NewQuote EXCEPT !.step = "dead"]
<1>1. /\ Typed
      /\ cache' = [cache EXCEPT ![p] = [k \in Keys |-> Empty]]
      /\ quote' = [q \in Quotes |-> IF p \in quote[q].process /\ quote[q].step # "over"
                                    THEN dead ELSE quote[q]]
      /\ admin' = [a \in Admins |-> IF p \in admin[a].process /\ admin[a].step = "saved"
                                    THEN [admin[a] EXCEPT !.step = "over"] ELSE admin[a]]
      /\ UNCHANGED <<rules, clock, superseded>>
  BY DEF FInv, Restart
<1>2. dead \in QuoteRow /\ \A q \in Quotes : FairQuote(q, dead)
  <2>1. dead = [step |-> "dead", process |-> Null, rule |-> Null, readAt |-> 0,
                fee |-> ZeroFee, at |-> 0]
    BY DEF NewQuote
  <2> HIDE DEF dead
  <2>2. dead \in QuoteRow
    BY <2>1, ZeroFeeType DEF QuoteRow, MaybeConfig, Null
  <2>3. clock >= 0
    BY <1>1, Times DEF Typed
  <2> QED
    BY <2>1, <2>2, <2>3 DEF FairQuote
<1> HIDE DEF dead
<1>3. \A a \in Admins :
          /\ admin'[a].process = admin[a].process /\ admin'[a].key = admin[a].key
          /\ p \in admin[a].process /\ admin[a].step = "saved" => admin'[a].step = "over"
          /\ ~(p \in admin[a].process /\ admin[a].step = "saved") => admin'[a].step = admin[a].step
  BY <1>1 DEF Typed, AdminRow
<1>4. Typed'
  <2>1. cache' \in [Processes -> [Keys -> Entry]]
    BY <1>1, EmptyIsFair DEF Typed
  <2>2. quote' \in [Quotes -> QuoteRow]
    BY <1>1, <1>2 DEF Typed
  <2>3. admin' \in [Admins -> AdminRow]
    BY <1>1 DEF Typed, AdminRow
  <2> QED
    BY <1>1, <2>1, <2>2, <2>3 DEF Typed
<1>5. \A x \in Processes, k \in Keys : cache'[x][k] = IF x = p THEN Empty ELSE cache[x][k]
  BY <1>1 DEF Typed
<1>6. Fair'
  <2>1. \A x \in Processes, k \in Keys : FairEntry(k, cache'[x][k])
    BY <1>5, EmptyIsFair DEF FInv, Fair
  <2>2. \A q \in Quotes : FairQuote(q, quote'[q])
    BY <1>1, <1>2 DEF FInv, Fair
  <2> QED
    BY <1>1, <2>1, <2>2, StillFair DEF Fair
<1>7. Administered'
  BY <1>3 DEF FInv, Administered
<1>8. ASSUME NEW x \in Processes, NEW y \in Keys PROVE Excused(x, y, cache[x][y])'
  <2>1. CASE x = p
    BY <1>5, <2>1 DEF Excused, Empty
  <2>2. CASE x # p
    <3>1. Excused(x, y, cache[x][y]) /\ cache'[x][y] = cache[x][y]
      BY <1>5, <2>2, AllExcused DEF FInv
    <3>2. Pending(y) => Pending(y)' \/ Elsewhere(x, y)'
      <4> SUFFICES ASSUME NEW b \in Admins, admin[b].step \in {"saved", "failed"},
                          admin[b].key = {y}
                   PROVE  Pending(y)' \/ Elsewhere(x, y)'
        BY DEF Pending
      <4>1. CASE p \in admin[b].process
        <5>1. admin'[b].key = {y} /\ admin'[b].process # {x}
          BY <1>3, <2>2, <4>1
        <5> QED
          BY <5>1 DEF Elsewhere
      <4>2. CASE p \notin admin[b].process
        BY <1>3, <4>2 DEF Pending
      <4> QED
        BY <4>1, <4>2
    <3>3. Elsewhere(x, y) => Elsewhere(x, y)'
      BY <1>3 DEF Elsewhere
    <3>4. InForce(rules, y)' = InForce(rules, y)
      BY <1>1, StillFair
    <3> QED
      BY <3>1, <3>2, <3>3, <3>4 DEF Excused
  <2> QED
    BY <2>1, <2>2
<1> QED
  BY <1>4, <1>6, <1>7, <1>8, AllExcusedNext DEF FInv

LEMMA TickStep ==
    ASSUME FInv, Tick
    PROVE  FInv'
<1>1. /\ Typed /\ clock' = clock + 1 /\ clock < MaxTime /\ clock \in Nat
      /\ \A q \in Quotes : quote[q].step = "fill" => clock - quote[q].readAt < FetchTime
      /\ UNCHANGED <<rules, cache, quote, admin, superseded>>
  BY Times DEF FInv, Typed, Tick
<1>2. Typed'
  BY <1>1, Times DEF Typed
<1>3. \A k, rule, t : InForceSince(k, rule, t) => InForceSince(k, rule, t)'
  BY <1>1 DEF InForceSince, InForce, Winners
<1>4. ASSUME NEW p \in Processes, NEW k \in Keys PROVE FairEntry(k, cache[p][k])'
  <2>1. FairEntry(k, cache[p][k])
    BY DEF FInv, Fair
  <2>2. TTL..(clock + TTL) \subseteq TTL..(clock + 1 + TTL)
    BY <1>1, Times
  <2> QED
    BY <1>1, <1>3, <2>1, <2>2 DEF FairEntry
<1>5. ASSUME NEW q \in Quotes PROVE FairQuote(q, quote[q])'
  <2>1. FairQuote(q, quote[q]) /\ quote[q].at \in Nat /\ quote[q].readAt \in Nat
    BY <1>1 DEF FInv, Fair, Typed, QuoteRow
  <2>2. quote[q].at <= clock' /\ (quote[q].readAt <= clock => quote[q].readAt <= clock')
    BY <1>1, <2>1 DEF FairQuote
  <2>3. quote[q].step = "fill" => clock' <= quote[q].readAt + FetchTime
    BY <1>1, <2>1, Times
  <2> QED
    BY <1>1, <1>3, <2>1, <2>2, <2>3 DEF FairQuote
<1>6. Administered'
  BY <1>1 DEF FInv, Administered
<1>7. ASSUME NEW x \in Processes, NEW y \in Keys PROVE Excused(x, y, cache[x][y])'
  BY <1>1, AllExcused, StillExcused DEF FInv
<1> QED
  BY <1>2, <1>4, <1>5, <1>6, <1>7, AllExcusedNext DEF FInv, Fair

-----------------------------------------------------------------------------
LEMMA InitFInv == Init => FInv
<1> SUFFICES ASSUME Init PROVE FInv
  OBVIOUS
<1>1. NewQuote \in QuoteRow
  BY ZeroFeeType DEF NewQuote, QuoteRow, MaybeConfig, Null
<1>2. Typed
  BY <1>1, EmptyIsFair, FeeQuotesAssumption
     DEF Init, Typed, NewAdmin, AdminRow, Null, Ended
<1>3. Fair
  <2>1. \A q \in Quotes : FairQuote(q, quote[q])
    BY DEF Init, NewQuote, FairQuote
  <2> QED
    BY <2>1, EmptyIsFair DEF Fair, Init
<1>4. Administered
  BY DEF Init, Administered, NewAdmin
<1>5. OnlyRacesKeepStale
  BY EmptyIsFair, AllExcused DEF Init
<1> QED
  BY <1>2, <1>3, <1>4, <1>5 DEF FInv

LEMMA NextFInv == FInv /\ [Next]_vars => FInv'
<1> SUFFICES ASSUME FInv, [Next]_vars PROVE FInv'
  OBVIOUS
<1>1. CASE \E q \in Quotes : \/ \E p \in Processes : Hit(q, p) \/ Miss(q, p)
                             \/ Read(q) \/ Fill(q)
  BY <1>1, HitStep, MissStep, ReadStep, FillStep
<1>2. CASE \E a \in Admins, p \in Processes, i \in RuleIds, c \in Configs :
              \/ CreateFeeRule(a, p, i, c)
              \/ UpdateFeeRule(a, p, i, [rules[i] EXCEPT !.config = {c}])
              \/ UpdateFeeRule(a, p, i, [rules[i] EXCEPT !.active = ~@])
  <2> SUFFICES ASSUME NEW a \in Admins, NEW p \in Processes, NEW i \in RuleIds, NEW c \in Configs,
                      \/ CreateFeeRule(a, p, i, c)
                      \/ UpdateFeeRule(a, p, i, [rules[i] EXCEPT !.config = {c}])
                      \/ UpdateFeeRule(a, p, i, [rules[i] EXCEPT !.active = ~@])
               PROVE  FInv'
    BY <1>2
  <2>1. CASE CreateFeeRule(a, p, i, c)
    BY <2>1, CreateStep
  <2>2. CASE \/ UpdateFeeRule(a, p, i, [rules[i] EXCEPT !.config = {c}])
             \/ UpdateFeeRule(a, p, i, [rules[i] EXCEPT !.active = ~@])
    <3>1. Typed /\ rules[i] # NoRow
      BY <2>2 DEF FInv, UpdateFeeRule
    <3> QED
      BY <2>2, <3>1, UpdatedRow, UpdateStep
  <2> QED
    BY <2>1, <2>2
<1>3. CASE \E a \in Admins : InvalidateFeeCache(a) \/ ReadBackFails(a)
  BY <1>3, InvalidateStep, ReadBackFailsStep
<1>4. CASE \E p \in Processes : Restart(p)
  BY <1>4, RestartStep
<1>5. CASE Tick
  BY <1>5, TickStep
<1>6. CASE UNCHANGED vars
  <2>1. Typed' /\ Administered'
    BY <1>6 DEF vars, FInv, Typed, Administered
  <2>2. Fair'
    BY <1>6, StillFair DEF vars, FInv, Fair
  <2>3. ASSUME NEW x \in Processes, NEW y \in Keys PROVE Excused(x, y, cache[x][y])'
    BY <1>6, AllExcused, StillExcused DEF vars, FInv
  <2> QED
    BY <2>1, <2>2, <2>3, AllExcusedNext DEF FInv
<1> QED
  BY <1>1, <1>2, <1>3, <1>4, <1>5, <1>6 DEF Next

LEMMA FInvHolds == Spec => []FInv
BY InitFInv, NextFInv, PTL DEF Spec

(* Every variable has its type; a cached rule is never null.               *)
THEOREM FeeTypesHold == Spec => []TypeOK
<1>1. FInv => TypeOK
  <2> SUFFICES ASSUME FInv PROVE TypeOK
    OBVIOUS
  <2>1. Typed /\ Fair /\ clock \in Nat /\ clock <= MaxTime
    BY Times DEF FInv, Typed
  <2>2. ASSUME NEW p \in Processes, NEW k \in Keys
        PROVE  \/ cache[p][k] = Empty
               \/ /\ cache[p][k].rule \in MaybeConfig \ {Null}
                  /\ cache[p][k].until \in TTL..(MaxTime + TTL)
    <3>1. cache[p][k] \in Entry /\ FairEntry(k, cache[p][k])
      BY <2>1 DEF Typed, Fair
    <3>2. TTL..(clock + TTL) \subseteq TTL..(MaxTime + TTL)
      BY <2>1, Times
    <3> QED
      BY <3>1, <3>2 DEF FairEntry, Entry
  <2>3. ASSUME NEW q \in Quotes
        PROVE  /\ quote[q].step \in {"new", "read", "fill", "over", "dead"}
               /\ quote[q].rule \in MaybeConfig
               /\ quote[q].step = "fill" => quote[q].rule # Null
               /\ quote[q].fee.totalFee \in Values
    BY <2>1 DEF Typed, Fair, FairQuote, QuoteRow, FeeType
  <2> QED
    BY <2>1, <2>2, <2>3 DEF TypeOK, Typed, AdminRow
<1> QED
  BY <1>1, FInvHolds, PTL

(* A fee never comes from a rule that had been replaced for longer than a  *)
(* cached rule lives and a fill takes, whichever fills raced with updates. *)
THEOREM QuotesStayRecent == Spec => []QuotesAreRecent
<1>1. FInv => QuotesAreRecent
  <2> SUFFICES ASSUME FInv, NEW q \in Quotes, quote[q].step = "over", quote[q].rule # Null
               PROVE  \/ quote[q].rule \in InForce(rules, Key(q))
                      \/ \E s \in superseded : s.key = Key(q) /\ s.rule = quote[q].rule
                                                 /\ s.end + TTL + FetchTime >= quote[q].at
    BY DEF QuotesAreRecent
  <2>1. InForceSince(Key(q), quote[q].rule, quote[q].at - TTL - FetchTime)
    BY DEF FInv, Fair, FairQuote
  <2>2. quote[q].at \in Int /\ \A s \in superseded : s.end \in Int
    BY DEF FInv, Typed, QuoteRow, Ended
  <2>3. \A end, at \in Int : end >= at - TTL - FetchTime => end + TTL + FetchTime >= at
    BY Times
  <2> QED
    BY <2>1, <2>2, <2>3 DEF InForceSince
<1> QED
  BY <1>1, FInvHolds, PTL

(* An outdated rule stays in a process only through a fill that raced with *)
(* the update, while the update is not answered, or in another process.    *)
THEOREM StaleRulesAreRaces == Spec => []OnlyRacesKeepStale
<1>1. FInv => OnlyRacesKeepStale
  BY DEF FInv
<1> QED
  BY <1>1, FInvHolds, PTL

(* A fee that is still a number is the sum of its parts and respects the   *)
(* limits of its rule, for every rule that the columns can hold.           *)
THEOREM FeesAreExact == Spec => []NumericFeesAreExact
<1>1. FInv => NumericFeesAreExact
  <2> SUFFICES ASSUME FInv, NEW q \in Quotes, NEW rule \in quote[q].rule,
                      quote[q].step = "over", InRange(rule, Asks[q].amount),
                      ~quote[q].fee.totalFee.text
               PROVE  Exact(rule, quote[q].fee)
    BY DEF NumericFeesAreExact, Exact
  <2>1. rule \in FeeRule
    BY FeeQuotesAssumption DEF FInv, Typed, QuoteRow, MaybeConfig, Null
  <2>2. quote[q].fee = Calculate(rule, Asks[q].amount)
    BY DEF FInv, Fair, FairQuote
  <2> QED
    BY <2>1, <2>2, KeyType, CalculateIsExact
<1> QED
  BY <1>1, FInvHolds, PTL
=============================================================================
