---------------------------- MODULE LedgerProofs ----------------------------
(***************************************************************************)
(* Proofs about the ledger, for every set of wallets, sessions and         *)
(* transactions, and for both ways of reading a BIGINT column: what        *)
(* WalletLedger keeps, that it implements AtomicLedger, what internal      *)
(* transfers, which move money only through it, keep on top, and what a    *)
(* reconciliation finds.                                                   *)
(***************************************************************************)
EXTENDS InternalTransfers, Reconciliation, FiniteSetTheorems, WellFoundedInduction, TLAPS

-----------------------------------------------------------------------------
(* Facts about Money and Postings, for both ways of reading a BIGINT       *)
(* column, and about sums.                                                 *)

(* The width of a storable amount is a positive number.                    *)
LEMMA ShiftIsPositive ==
    ASSUME NEW n \in Column
    PROVE  Shift(n) \in Nat /\ Shift(n) >= 1
<1> DEFINE Wide(p) == n < p /\ \A q \in PowersOfTen : n < q => p <= q
<1>1. \E p \in PowersOfTen : Wide(p)
  BY MoneyAssumption DEF Column
<1>2. Shift(n) = CHOOSE p \in PowersOfTen : Wide(p)
  BY DEF Shift
<1>3. Shift(n) \in PowersOfTen
  <2> HIDE DEF Wide
  <2> QED
    BY <1>1, <1>2
<1>4. \A p \in PowersOfTen : p \in Nat /\ p >= 1
  BY MoneyAssumption
<1> QED
  BY <1>3, <1>4

(* A product with a factor of at least one is not smaller.                 *)
LEMMA TimesGrows ==
    ASSUME NEW a \in Nat, NEW p \in Nat, p >= 1
    PROVE  a * p \in Nat /\ a * p >= a
BY SMT

(* Adding to a column, either way, yields a number and never less than the *)
(* column held; to an empty column it yields the amount.                   *)
LEMMA ColumnPlusGrows ==
    ASSUME NEW a \in Nat, NEW n \in Column
    PROVE  /\ ColumnPlus(a, n) \in Nat
           /\ ColumnPlus(a, n) >= a + n
           /\ a = 0 => ColumnPlus(a, n) = n
<1>1. n \in Nat
  BY MoneyAssumption DEF Column
<1>2. a * Shift(n) \in Nat /\ a * Shift(n) >= a
  BY ShiftIsPositive, TimesGrows
<1>3. a = 0 => a * Shift(n) = 0
  BY ShiftIsPositive
<1> QED
  BY <1>1, <1>2, <1>3 DEF ColumnPlus, AppendDigits

(* A transaction's i-th posting is found again by its wallet.              *)
LEMMA IndexOfPosting ==
    ASSUME NEW t \in Transactions, NEW i \in 1..Len(t.postings)
    PROVE  IndexOf(t, t.postings[i].wallet) = i
BY PostingsAssumption DEF IndexOf, TouchesOnce

LEMMA IndexOfTouched ==
    ASSUME NEW t \in Transactions, NEW w \in Touched(t)
    PROVE  /\ IndexOf(t, w) \in 1..Len(t.postings)
           /\ t.postings[IndexOf(t, w)].wallet = w
BY DEF IndexOf, Touched

(* The postings of a transaction, typed.                                   *)
LEMMA PostingTyped ==
    ASSUME NEW t \in Transactions, NEW i \in 1..Len(t.postings)
    PROVE  /\ t.postings[i] \in Posting
           /\ t.postings[i].wallet \in Wallets
           /\ t.postings[i].type \in EntryType
           /\ t.postings[i].amount \in Int
           /\ t.postings[i].type = "credit" => t.postings[i].amount <= BigIntMax
           /\ t.user \in Users
           /\ Len(t.postings) \in Nat
<1>1. /\ t.postings \in Seq(Posting)
      /\ t.postings[i].type = "credit" => t.postings[i].amount <= BigIntMax
      /\ t.user \in Users
  BY PostingsAssumption
<1>2. t.postings[i] \in Posting /\ Len(t.postings) \in Nat
  BY <1>1
<1> QED
  BY <1>1, <1>2 DEF Posting

(* A posting that passes its checks leaves a balance that is not negative; *)
(* the amount of a debit fits its column, as the balance covers it.        *)
LEMMA NewBalanceIsNat ==
    ASSUME NEW bal \in Column, NEW st, NEW p \in Posting, NEW user,
           p.amount > 0, p.type = "credit" => p.amount <= BigIntMax,
           Allowed(bal, st, p, user)
    PROVE  /\ NewBalance(bal, p) \in Nat
           /\ p.amount <= BigIntMax
           /\ p.type = "credit" => NewBalance(bal, p) >= bal
<1>1. p.amount \in Int /\ p.type \in {"debit", "credit"}
  BY DEF Posting, EntryType
<1>2. bal \in Nat /\ p.amount \in Column /\ p.amount <= BigIntMax
  <2>1. bal \in Nat /\ bal <= BigIntMax /\ BigIntMax \in Nat
    BY MoneyAssumption DEF Column
  <2>2. p.type = "debit" => bal >= p.amount
    BY <2>1 DEF Allowed, DebitAllowed, Available, HeldBalance
  <2> QED
    BY <1>1, <2>1, <2>2 DEF Column
<1>3. CASE p.type = "debit"
  BY <1>1, <1>2, <1>3 DEF NewBalance, Allowed, DebitAllowed, Available, HeldBalance
<1>4. CASE p.type = "credit"
  <2>1. NewBalance(bal, p) = ColumnPlus(bal, p.amount)
    BY <1>4 DEF NewBalance
  <2>2. ColumnPlus(bal, p.amount) \in Nat /\ ColumnPlus(bal, p.amount) >= bal + p.amount
    BY <1>2, ColumnPlusGrows
  <2> QED
    BY <1>1, <1>2, <2>1, <2>2
<1> QED
  BY <1>1, <1>2, <1>3, <1>4

(* The initial rows: an empty ledger, or the row of the first credit.      *)
LEMMA OpeningRows ==
    ASSUME NEW w \in Wallets
    PROVE  /\ Opening[w] \in Column
           /\ Opening[w] >= 0
           /\ OpeningLedger(w) \in Seq(Entry)
           /\ Opening[w] = 0 => Len(OpeningLedger(w)) = 0
           /\ \A i \in 1..Len(OpeningLedger(w)) : i = 1 /\ Opening[w] # 0
           /\ Opening[w] # 0 =>
                /\ Len(OpeningLedger(w)) = 1
                /\ OpeningLedger(w)[1].type = "credit"
                /\ OpeningLedger(w)[1].amount = Opening[w]
                /\ OpeningLedger(w)[1].balanceAfter = Opening[w]
                /\ OpeningLedger(w)[1].transferId = 0
<1> DEFINE e == [type |-> "credit", amount |-> Opening[w],
                 balanceAfter |-> Opening[w], transferId |-> 0]
<1>1. Opening[w] \in Column /\ Opening[w] >= 0
  BY PostingsAssumption, MoneyAssumption DEF Column
<1>2. e \in Entry
  BY <1>1, MoneyAssumption DEF Entry, EntryType, Column
<1>3. /\ e.type = "credit" /\ e.amount = Opening[w]
      /\ e.balanceAfter = Opening[w] /\ e.transferId = 0
  OBVIOUS
<1>4. OpeningLedger(w) = IF Opening[w] = 0 THEN <<>> ELSE <<e>>
  BY DEF OpeningLedger
<1> HIDE DEF e
<1>5. /\ <<>> \in Seq(Entry) /\ Len(<<>>) = 0
      /\ <<e>> \in Seq(Entry) /\ Len(<<e>>) = 1 /\ <<e>>[1] = e
  BY <1>2
<1>6. CASE Opening[w] = 0
  <2>1. OpeningLedger(w) = <<>>
    BY <1>4, <1>6
  <2>2. Len(OpeningLedger(w)) = 0
    BY <1>5, <2>1
  <2> QED
    BY <1>1, <1>5, <1>6, <2>1, <2>2
<1>7. CASE Opening[w] # 0
  BY <1>1, <1>3, <1>4, <1>5, <1>7
<1> QED
  BY <1>6, <1>7

-----------------------------------------------------------------------------
(* A set of naturals has a least element.                                  *)
LEMMA LeastNatural ==
    ASSUME NEW S, S \subseteq Nat, S # {}
    PROVE  \E least \in S : \A n \in S : least <= n
<1> DEFINE R == {ss \in Nat \X Nat : ss[1] < ss[2]}
<1>1. IsWellFoundedOn(R, Nat)
  BY NatLessThanWellFounded DEF OpToRel
<1>2. \E least \in S : \A n \in S : ~(<<n, least>> \in R)
  <2> HIDE DEF R
  <2> QED
    BY <1>1, WFMin
<1>3. \A m, n \in Nat : m <= n \/ <<n, m>> \in R
  OBVIOUS
<1> QED
  <2> HIDE DEF R
  <2> QED
    BY <1>2, <1>3

(* f holds the sums of the first 0, 1, .. len numbers of v.                *)
Adds(len, v, f) == f = [n \in 0..len |-> IF n = 0 THEN 0 ELSE f[n - 1] + v[n]]

(* The recursive function that adds up a list of numbers exists.           *)
LEMMA SumExists ==
    ASSUME NEW len \in Nat, NEW v \in [1..len -> Int]
    PROVE  \E f \in [0..len -> Int] : Adds(len, v, f)
<1> DEFINE Sums(m, f) == f = [n \in 0..m |-> IF n = 0 THEN 0 ELSE f[n - 1] + v[n]]
           S == {m \in 0..len : ~ \E f \in [0..m -> Int] : Sums(m, f)}
<1>1. SUFFICES ASSUME S # {} PROVE FALSE
  <2>1. len \notin S => \E f \in [0..len -> Int] : Sums(len, f)
    OBVIOUS
  <2> HIDE DEF Sums
  <2>2. \E f \in [0..len -> Int] : Sums(len, f)
    BY <2>1
  <2>3. ASSUME NEW f, Sums(len, f) PROVE Adds(len, v, f)
    BY <2>3 DEF Sums, Adds
  <2> QED
    BY <2>2, <2>3
<1>2. PICK m \in S : \A n \in S : m <= n
  <2>1. S \subseteq Nat
    OBVIOUS
  <2> HIDE DEF S
  <2> QED
    BY <1>1, <2>1, LeastNatural
<1>3. m \in 0..len /\ ~ \E f \in [0..m -> Int] : Sums(m, f)
  OBVIOUS
<1>4. CASE m = 0
  <2> DEFINE f == [n \in 0..0 |-> 0]
  <2>1. f \in [0..0 -> Int] /\ Sums(0, f)
    OBVIOUS
  <2> QED
    BY <1>3, <1>4, <2>1
<1>5. CASE m # 0
  <2>1. m - 1 \in 0..len /\ ~(m <= m - 1)
    BY <1>3, <1>5
  <2>2. m - 1 \notin S
    <3> HIDE DEF S
    <3> QED
      BY <1>2, <2>1
  <2>3. PICK f \in [0..(m - 1) -> Int] : Sums(m - 1, f)
    BY <2>1, <2>2
  <2> DEFINE g == [n \in 0..m |-> IF n = m THEN f[m - 1] + v[m] ELSE f[n]]
  <2>4. /\ f[0] = 0 /\ \A n \in 1..(m - 1) : f[n] = f[n - 1] + v[n]
        /\ \A n \in 0..(m - 1) : f[n] \in Int
    BY <1>3, <1>5, <2>3
  <2>5. v[m] \in Int /\ f[m - 1] \in Int
    BY <1>3, <1>5, <2>4
  <2>6. /\ \A n \in 0..m : g[n] = IF n = m THEN f[m - 1] + v[m] ELSE f[n]
        /\ DOMAIN g = 0..m
    OBVIOUS
  <2>7. g \in [0..m -> Int]
    BY <1>3, <2>4, <2>5
  <2> HIDE DEF g
  <2>8. \A n \in 0..m : g[n] = IF n = 0 THEN 0 ELSE g[n - 1] + v[n]
    BY <1>3, <1>5, <2>4, <2>6
  <2>9. Sums(m, g)
    BY <2>7, <2>8
  <2> QED
    BY <1>3, <2>7, <2>9
<1> QED
  BY <1>4, <1>5

(* And what it adds up are integers, whichever function it is.             *)
LEMMA SumIsInteger ==
    ASSUME NEW len \in Nat, NEW v \in [1..len -> Int], NEW f, Adds(len, v, f)
    PROVE  f \in [0..len -> Int]
<1> DEFINE S == {m \in 0..len : f[m] \notin Int}
<1>1. f[0] = 0 /\ \A n \in 1..len : f[n] = f[n - 1] + v[n]
  BY DEF Adds
<1>2. S = {}
  <2> SUFFICES ASSUME S # {} PROVE FALSE
    OBVIOUS
  <2>1. PICK m \in S : \A n \in S : m <= n
    <3>1. S \subseteq Nat
      OBVIOUS
    <3> HIDE DEF S
    <3> QED
      BY <3>1, LeastNatural
  <2>2. m \in 1..len /\ m - 1 \in 0..len /\ ~(m <= m - 1)
    BY <1>1
  <2>3. m - 1 \notin S
    <3> HIDE DEF S
    <3> QED
      BY <2>1, <2>2
  <2>4. f[m - 1] \in Int /\ v[m] \in Int /\ f[m] = f[m - 1] + v[m]
    BY <1>1, <2>2, <2>3
  <2>5. f[m] \notin Int
    OBVIOUS
  <2> QED
    BY <2>4, <2>5
<1>3. \A m \in 0..len : f[m] \in Int
  BY <1>2
<1>4. f = [n \in 0..len |-> f[n]]
  BY DEF Adds
<1> HIDE DEF S
<1> QED
  BY <1>3, <1>4

(* What Total computes, row by row.                                        *)
LEMMA TotalRowByRow ==
    ASSUME NEW v \in Seq(Int)
    PROVE  \E sum \in [0..Len(v) -> Int] :
              /\ sum[0] = 0
              /\ \A n \in 1..Len(v) : sum[n] = sum[n - 1] + v[n]
              /\ Total(v) = sum[Len(v)]
<1> DEFINE len == Len(v)
           sum == CHOOSE f : Adds(len, v, f)
<1>1. len \in Nat /\ v \in [1..len -> Int]
  OBVIOUS
<1>2. Total(v) = sum[len]
  BY DEF Total, Adds
<1> HIDE DEF len
<1>3. Adds(len, v, sum)
  BY <1>1, SumExists
<1> HIDE DEF sum
<1>4. sum \in [0..len -> Int]
  BY <1>1, <1>3, SumIsInteger
<1>5. sum[0] = 0 /\ \A n \in 1..len : sum[n] = sum[n - 1] + v[n]
  BY <1>1, <1>3 DEF Adds
<1> USE DEF len
<1> QED
  BY <1>2, <1>4, <1>5

(* Of two sums the one that grows less in every row stays below.           *)
LEMMA SumsCompare ==
    ASSUME NEW len \in Nat, NEW f \in [0..len -> Int], NEW g \in [0..len -> Int],
           f[0] <= g[0], \A n \in 1..len : f[n] - f[n - 1] <= g[n] - g[n - 1]
    PROVE  f[len] <= g[len]
<1> DEFINE S == {m \in 0..len : ~(f[m] <= g[m])}
<1>1. SUFFICES ASSUME S # {} PROVE FALSE
  OBVIOUS
<1>2. PICK m \in S : \A n \in S : m <= n
  <2>1. S \subseteq Nat
    OBVIOUS
  <2> HIDE DEF S
  <2> QED
    BY <1>1, <2>1, LeastNatural
<1>3. m \in 1..len /\ m - 1 \in 0..len /\ ~(m <= m - 1)
  OBVIOUS
<1>4. m - 1 \notin S
  <2> HIDE DEF S
  <2> QED
    BY <1>2, <1>3
<1>5. f[m - 1] <= g[m - 1] /\ f[m] - f[m - 1] <= g[m] - g[m - 1]
  BY <1>3, <1>4
<1>6. f[m] \in Int /\ g[m] \in Int /\ f[m - 1] \in Int /\ g[m - 1] \in Int
  BY <1>3
<1> QED
  BY <1>5, <1>6

(* A total is an integer, monotone in its rows, and grows by a new row.    *)
LEMMA TotalFacts ==
    ASSUME NEW v \in Seq(Int)
    PROVE  /\ Total(v) \in Int
           /\ \A w \in Seq(Int) :
                 Len(w) = Len(v) /\ (\A n \in 1..Len(v) : v[n] <= w[n]) => Total(v) <= Total(w)
           /\ \A x \in Int : Total(Append(v, x)) = Total(v) + x
<1> DEFINE len == Len(v)
<1>0. len \in Nat
  OBVIOUS
<1>1. PICK f \in [0..len -> Int] :
          /\ f[0] = 0 /\ \A n \in 1..len : f[n] = f[n - 1] + v[n]
          /\ Total(v) = f[len]
  BY TotalRowByRow
<1>2. ASSUME NEW w \in Seq(Int), Len(w) = len, \A n \in 1..len : v[n] <= w[n]
      PROVE  Total(v) <= Total(w)
  <2>1. PICK g \in [0..len -> Int] :
            /\ g[0] = 0 /\ \A n \in 1..len : g[n] = g[n - 1] + w[n]
            /\ Total(w) = g[len]
    BY <1>2, TotalRowByRow
  <2>2. ASSUME NEW n \in 1..len PROVE f[n] - f[n - 1] <= g[n] - g[n - 1]
    <3>1. n \in 0..len /\ n - 1 \in 0..len /\ v[n] \in Int /\ w[n] \in Int /\ v[n] <= w[n]
      BY <1>0, <1>2
    <3>2. f[n - 1] \in Int /\ g[n - 1] \in Int
      BY <3>1
    <3> QED
      BY <1>1, <2>1, <3>1, <3>2
  <2>3. f[0] <= g[0]
    BY <1>1, <2>1
  <2> HIDE DEF len
  <2> QED
    BY <1>0, <1>1, <2>1, <2>2, <2>3, SumsCompare
<1>3. ASSUME NEW x \in Int PROVE Total(Append(v, x)) = Total(v) + x
  <2> DEFINE w == Append(v, x)
  <2>1. /\ w \in Seq(Int) /\ Len(w) = len + 1 /\ w[len + 1] = x
        /\ \A n \in 1..len : w[n] = v[n]
    BY <1>0
  <2> HIDE DEF w
  <2>2. PICK h \in [0..(len + 1) -> Int] :
            /\ h[0] = 0 /\ \A n \in 1..(len + 1) : h[n] = h[n - 1] + w[n]
            /\ Total(w) = h[len + 1]
    BY <2>1, TotalRowByRow
  <2> DEFINE g == [n \in 0..len |-> h[n]]
  <2>3. g \in [0..len -> Int] /\ \A n \in 0..len : g[n] = h[n]
    BY <1>0
  <2> HIDE DEF g
  <2>4. ASSUME NEW n \in 1..len PROVE f[n] - f[n - 1] = g[n] - g[n - 1]
    <3>1. n \in 0..len /\ n - 1 \in 0..len /\ n \in 1..(len + 1) /\ v[n] \in Int
      BY <1>0
    <3>2. f[n - 1] \in Int /\ g[n - 1] \in Int
      BY <2>3, <3>1
    <3>3. g[n] = g[n - 1] + v[n]
      BY <2>1, <2>2, <2>3, <3>1
    <3> QED
      BY <1>1, <3>1, <3>2, <3>3
  <2>5. f[0] = g[0] /\ 0 \in 0..len /\ len \in 0..len /\ f[0] \in Int
    BY <1>0, <1>1, <2>2, <2>3
  <2>6. \A n \in 1..len : /\ f[n] - f[n - 1] <= g[n] - g[n - 1]
                          /\ g[n] - g[n - 1] <= f[n] - f[n - 1]
    <3>1. ASSUME NEW n \in 1..len PROVE f[n] - f[n - 1] \in Int
      <4>1. n \in 0..len /\ n - 1 \in 0..len
        BY <1>0
      <4> QED
        BY <4>1
    <3> QED
      BY <2>4, <3>1
  <2>7. f[len] = g[len] /\ f[len] \in Int
    <3>1. f[0] <= g[0] /\ g[0] <= f[0]
      BY <2>5
    <3>2. f[len] <= g[len] /\ g[len] <= f[len]
      <4> HIDE DEF len
      <4> QED
        BY <1>0, <2>3, <2>6, <3>1, SumsCompare
    <3> QED
      BY <2>3, <2>5, <3>2
  <2>8. h[len + 1] = h[len] + x
    <3> DEFINE m == len + 1
    <3>1. m \in 1..m /\ m - 1 = len
      BY <1>0
    <3>2. h[m] = h[m - 1] + w[m]
      BY <2>2, <3>1
    <3> HIDE DEF m
    <3>3. h[m] = h[len] + w[m]
      BY <3>1, <3>2
    <3> QED
      BY <2>1, <3>3 DEF m
  <2> QED
    BY <1>1, <2>2, <2>3, <2>5, <2>7, <2>8 DEF w
<1>4. Total(v) \in Int
  <2>1. len \in 0..len
    BY <1>0
  <2> QED
    BY <1>1, <2>1
<1> QED
  BY <1>2, <1>3, <1>4

(* Rows that add nothing have no total.                                    *)
LEMMA NothingToTotal ==
    ASSUME NEW v \in Seq(Int), \A n \in 1..Len(v) : v[n] <= 0
    PROVE  Total(v) <= 0
<1> DEFINE len == Len(v)
           zero == [n \in 0..len |-> 0]
<1>1. PICK f \in [0..len -> Int] :
          /\ f[0] = 0 /\ \A n \in 1..len : f[n] = f[n - 1] + v[n]
          /\ Total(v) = f[len]
  BY TotalRowByRow
<1>2. len \in Nat /\ zero \in [0..len -> Int] /\ \A n \in 0..len : zero[n] = 0
  OBVIOUS
<1>3. \A n \in 1..len : v[n] \in Int /\ v[n] <= 0
  OBVIOUS
<1> HIDE DEF len, zero
<1>4. ASSUME NEW n \in 1..len PROVE f[n] - f[n - 1] <= zero[n] - zero[n - 1]
  <2>1. n \in 0..len /\ n - 1 \in 0..len
    BY <1>2
  <2>2. f[n] = f[n - 1] + v[n] /\ v[n] \in Int /\ v[n] <= 0
    BY <1>1, <1>3
  <2>3. f[n - 1] \in Int /\ zero[n] = 0 /\ zero[n - 1] = 0
    BY <1>2, <2>1
  <2> QED
    BY <2>2, <2>3
<1>5. f[0] <= zero[0] /\ len \in 0..len
  BY <1>1, <1>2
<1> QED
  BY <1>1, <1>2, <1>4, <1>5, SumsCompare

(* One of a bounded set of indices has the highest value.                  *)
LEMMA HighestValue ==
    ASSUME NEW n \in Nat, NEW f \in [0..(n - 1) -> Nat], NEW T \in SUBSET (0..(n - 1)), T # {}
    PROVE  \E t \in T : \A v \in T : f[v] <= f[t]
<1> DEFINE Best(m) == \E t \in T : \A v \in T : v < m => f[v] <= f[t]
           S == {m \in Nat : ~Best(m)}
<1>1. ASSUME S # {} PROVE FALSE
  <2>1. PICK m \in S : \A k \in S : m <= k
    <3>1. S \subseteq Nat
      OBVIOUS
    <3> HIDE DEF S
    <3> QED
      BY <1>1, <3>1, LeastNatural
  <2>2. m # 0 /\ m \in Nat
    <3>1. Best(0)
      <4>1. \A v \in T : ~(v < 0)
        OBVIOUS
      <4> QED
        BY <4>1
    <3> QED
      BY <3>1
  <2>3. m - 1 \in Nat /\ ~(m <= m - 1)
    BY <2>2
  <2>4. m - 1 \notin S
    <3> HIDE DEF S
    <3> QED
      BY <2>1, <2>3
  <2>5. Best(m - 1)
    <3> HIDE DEF Best
    <3> QED
      BY <2>3, <2>4
  <2>6. PICK t \in T : \A v \in T : v < m - 1 => f[v] <= f[t]
    BY <2>5
  <2>7. \A v \in T : v \in Nat /\ f[v] \in Nat
    OBVIOUS
  <2>8. CASE m - 1 \in T /\ f[t] < f[m - 1]
    <3>1. ASSUME NEW v \in T, v < m PROVE f[v] <= f[m - 1]
      <4>1. v \in Nat /\ f[v] \in Nat /\ f[t] \in Nat /\ f[m - 1] \in Nat
        BY <2>7, <2>8
      <4>2. v < m - 1 \/ v = m - 1
        BY <2>2, <3>1, <4>1
      <4>3. CASE v < m - 1
        <5>1. f[v] <= f[t] /\ f[t] < f[m - 1]
          BY <2>6, <2>8, <4>3
        <5>2. \A a, b, c \in Nat : a <= b /\ b < c => a <= c
          OBVIOUS
        <5> QED
          BY <4>1, <5>1, <5>2, Zenon
      <4>4. CASE v = m - 1
        BY <4>1, <4>4
      <4> QED
        BY <4>2, <4>3, <4>4
    <3> QED
      BY <2>1, <2>8, <3>1
  <2>9. CASE ~(m - 1 \in T /\ f[t] < f[m - 1])
    <3>1. \A v \in T : v < m => f[v] <= f[t]
      BY <2>2, <2>6, <2>7, <2>9
    <3> QED
      BY <2>1, <3>1
  <2> QED
    BY <2>8, <2>9
<1>2. Best(n)
  <2> HIDE DEF Best
  <2> QED
    BY <1>1
<1> QED
  BY <1>2

-----------------------------------------------------------------------------
(* I. WalletLedger.                                                        *)

(* The values that stand for no row, no posting done, no identifier.       *)
LEMMA NullsTyped ==
    /\ NoRow \in [balance : Column, status : WalletStatus]
    /\ <<>> \in Seq(Column)
    /\ 0 \in 0..MaxTransactions
<1>1. 0 \in Column /\ 0 \in 0..MaxTransactions
  BY MoneyAssumption, SessionsAssumption DEF Column
<1> QED
  BY <1>1 DEF NoRow, WalletStatus

-----------------------------------------------------------------------------
LEMMA InitIInv == Init => IInv
<1> SUFFICES ASSUME Init PROVE IInv
  OBVIOUS
<1>1. \A w \in Wallets : ledger[w] = OpeningLedger(w) /\ balance[w] = Opening[w]
  BY DEF Init
<1>2. TypeOK
  <2>1. 0 \in Column /\ 0 \in 0..MaxTransactions
    BY MoneyAssumption, SessionsAssumption DEF Column
  <2>2. balance \in [Wallets -> Column]
    BY PostingsAssumption DEF Init
  <2>3. status \in [Wallets -> WalletStatus]
    BY DEF Init, WalletStatus
  <2>4. ledger \in [Wallets -> Seq(Entry)]
    BY OpeningRows DEF Init
  <2>5. /\ seen \in [Sessions -> [balance : Column, status : WalletStatus]]
        /\ draft \in [Sessions -> Seq(Column)]
    BY NullsTyped DEF Init
  <2> QED
    BY <2>1, <2>2, <2>3, <2>4, <2>5 DEF Init, TypeOK
<1>3. InStep
  BY DEF Init, InStep, Running
<1>4. LocksHeld /\ ViewsStayTrue
  BY DEF Init, LocksHeld, ViewsStayTrue
<1>5. IdsUnique
  <2> SUFFICES ASSUME NEW w \in Wallets, NEW i \in 1..Len(ledger[w])
               PROVE  ledger[w][i].transferId = 0
    BY DEF Init, IdsUnique, Running
  <2>1. i = 1 /\ Opening[w] # 0
    BY <1>1, OpeningRows
  <2> QED
    BY <1>1, <2>1, OpeningRows
<1>6. BalanceIsNewestEntry
  <2> SUFFICES ASSUME NEW w \in Wallets
               PROVE  balance[w] = BalanceBefore(w, Len(ledger[w]) + 1)
    BY DEF BalanceIsNewestEntry
  <2> QED
    BY <1>1, OpeningRows DEF BalanceBefore
<1>7. LedgerChained
  <2> SUFFICES ASSUME NEW w \in Wallets, NEW i \in 1..Len(ledger[w])
               PROVE  /\ ledger[w][i].type = "credit"
                      /\ ledger[w][i].balanceAfter
                           = ColumnPlus(BalanceBefore(w, i), ledger[w][i].amount)
                      /\ ledger[w][i].balanceAfter >= 0
    BY DEF LedgerChained
  <2>1. i = 1 /\ Opening[w] # 0
    BY <1>1, OpeningRows
  <2>2. ColumnPlus(0, Opening[w]) = Opening[w]
    BY OpeningRows, ColumnPlusGrows
  <2> QED
    BY <1>1, <2>1, <2>2, OpeningRows DEF BalanceBefore
<1> QED
  BY <1>2, <1>3, <1>4, <1>5, <1>6, <1>7 DEF IInv

(* What a session is at is a posting of its transaction, and so is         *)
(* whatever it has written.                                                *)
LEMMA RunningTyped ==
    ASSUME TypeOK, InStep, NEW s \in Sessions
    PROVE  /\ Len(draft[s]) \in Nat
           /\ pc[s] \in {"select", "check"} =>
                /\ tx[s] \in Transactions
                /\ Len(draft[s]) + 1 \in 1..Len(tx[s].postings)
                /\ Current(s) \in Posting
                /\ Current(s).wallet \in Wallets
                /\ Current(s).amount \in Int
                /\ Current(s).type = "credit" => Current(s).amount <= BigIntMax
                /\ Current(s).wallet \in Touched(tx[s])
                /\ IndexOf(tx[s], Current(s).wallet) = Len(draft[s]) + 1
           /\ \A i \in 1..Len(draft[s]) :
                /\ tx[s] \in Transactions
                /\ i \in 1..Len(tx[s].postings)
                /\ tx[s].postings[i].wallet \in Wallets
                /\ draft[s][i] \in Column
<1>1. /\ draft[s] \in Seq(Column) /\ Len(draft[s]) \in Nat
      /\ pc[s] \in {"idle", "select", "check", "commit"}
  BY DEF TypeOK
<1>2. CASE pc[s] = "idle"
  <2>1. Len(draft[s]) = 0
    BY <1>2 DEF InStep
  <2> QED
    BY <1>1, <1>2, <2>1
<1>3. CASE pc[s] # "idle"
  <2>1. tx[s] \in Transactions
    BY <1>3 DEF InStep, Running
  <2>2. Len(tx[s].postings) \in Nat
    BY <2>1, PostingsAssumption
  <2>3. Len(draft[s]) <= Len(tx[s].postings)
    BY <1>1, <1>3, <2>2 DEF InStep
  <2>4. \A i \in 1..Len(draft[s]) : i \in 1..Len(tx[s].postings) /\ draft[s][i] \in Column
    <3>1. \A i \in 1..Len(draft[s]) : draft[s][i] \in Column
      BY <1>1
    <3>2. \A i \in 1..Len(draft[s]) : i \in 1..Len(tx[s].postings)
      BY <1>1, <2>2, <2>3
    <3> QED
      BY <3>1, <3>2
  <2>5. pc[s] \in {"select", "check"} => Len(draft[s]) + 1 \in 1..Len(tx[s].postings)
    BY <1>1, <2>2 DEF InStep
  <2> QED
    <3>1. pc[s] \in {"select", "check"} =>
            /\ Current(s) = tx[s].postings[Len(draft[s]) + 1]
            /\ Len(draft[s]) + 1 \in 1..Len(tx[s].postings)
      BY <2>5 DEF Current
    <3>2. \A i \in 1..Len(tx[s].postings) :
            /\ tx[s].postings[i] \in Posting
            /\ tx[s].postings[i].wallet \in Wallets \cap Touched(tx[s])
            /\ tx[s].postings[i].amount \in Int
            /\ tx[s].postings[i].type = "credit" => tx[s].postings[i].amount <= BigIntMax
            /\ IndexOf(tx[s], tx[s].postings[i].wallet) = i
      BY <2>1, PostingTyped, IndexOfPosting DEF Touched
    <3> QED
      BY <1>1, <2>1, <2>4, <3>1, <3>2
<1> QED
  BY <1>2, <1>3

(* A rollback touches no committed row and gives up only its own locks.    *)
LEMMA RollbackIInv ==
    ASSUME IInv, NEW s \in Sessions, Rollback(s)
    PROVE  IInv'
<1> USE DEF IInv, Rollback, Finish, committed
<1>1. /\ \A u \in Sessions \ {s} : /\ pc'[u] = pc[u] /\ tx'[u] = tx[u] /\ id'[u] = id[u]
                                   /\ seen'[u] = seen[u] /\ draft'[u] = draft[u]
      /\ pc'[s] = "idle" /\ draft'[s] = <<>>
  BY DEF TypeOK
<1>2. \A w \in Wallets, u \in Sessions \ {s} : lock[w] = u => lock'[w] = u
  BY DEF TypeOK
<1>3. TypeOK'
  <2>1. lock' \in [Wallets -> Sessions \union {NoSession}]
    BY DEF TypeOK
  <2>2. seen' \in [Sessions -> [balance : Column, status : WalletStatus]]
    BY NullsTyped DEF TypeOK
  <2>3. draft' \in [Sessions -> Seq(Column)]
    BY NullsTyped DEF TypeOK
  <2>4. /\ pc' \in [Sessions -> {"idle", "select", "check", "commit"}]
        /\ tx' \in [Sessions -> Transactions \union {NoTransaction}]
        /\ id' \in [Sessions -> 0..MaxTransactions]
    BY NullsTyped DEF TypeOK
  <2> QED
    BY <2>1, <2>2, <2>3, <2>4 DEF TypeOK
<1>4. InStep'
  BY <1>1 DEF InStep, Running, Current
<1>5. LocksHeld'
  <2> SUFFICES ASSUME NEW u \in Sessions
               PROVE  /\ pc'[u] = "check" => lock'[Current(u)'.wallet] = u
                      /\ \A i \in 1..Len(draft'[u]) : lock'[tx'[u].postings[i].wallet] = u
    BY DEF LocksHeld
  <2>1. CASE u = s
    BY <1>1, <2>1
  <2>2. CASE u # s
    <3>1. Current(u)' = Current(u)
      BY <1>1, <2>2 DEF Current
    <3>2. pc[u] = "check" => Current(u).wallet \in Wallets
      BY RunningTyped
    <3>3. \A i \in 1..Len(draft[u]) : tx[u].postings[i].wallet \in Wallets
      BY RunningTyped
    <3> QED
      BY <1>1, <1>2, <2>2, <3>1, <3>2, <3>3 DEF LocksHeld
  <2> QED
    BY <2>1, <2>2
<1>6. ViewsStayTrue'
  BY <1>1 DEF ViewsStayTrue, Current
<1>7. IdsUnique'
  BY <1>1 DEF IdsUnique, Running
<1>8. BalanceIsNewestEntry' /\ LedgerChained'
  BY DEF BalanceIsNewestEntry, LedgerChained, BalanceBefore
<1> QED
  BY <1>3, <1>4, <1>5, <1>6, <1>7, <1>8

(* A transaction begins with an identifier nobody has used.                *)
LEMMA BeginIInv ==
    ASSUME IInv, NEW s \in Sessions, NEW t \in Transactions, Begin(s, t)
    PROVE  IInv'
<1> USE DEF IInv, Begin
<1>1. /\ \A u \in Sessions \ {s} : /\ pc'[u] = pc[u] /\ tx'[u] = tx[u] /\ id'[u] = id[u]
                                   /\ seen'[u] = seen[u] /\ draft'[u] = draft[u]
      /\ pc[s] = "idle" /\ pc'[s] = "select" /\ tx'[s] = t /\ id'[s] = begun + 1
      /\ draft'[s] = draft[s] /\ draft[s] = <<>> /\ Len(draft[s]) = 0
  BY DEF TypeOK, InStep
<1>2. Len(t.postings) > 0 /\ begun \in Nat /\ begun + 1 \in 0..MaxTransactions
  BY PostingsAssumption, SessionsAssumption DEF TypeOK
<1>3. TypeOK'
  BY <1>2 DEF TypeOK
<1>4. InStep'
  <2> SUFFICES ASSUME NEW u \in Sessions
               PROVE  /\ pc'[u] = "idle" => draft'[u] = <<>>
                      /\ pc'[u] # "idle" => tx'[u] \in Transactions
                      /\ pc'[u] \in {"select", "check"} => Len(draft'[u]) < Len(tx'[u].postings)
                      /\ pc'[u] = "commit" => Len(draft'[u]) = Len(tx'[u].postings)
                      /\ pc'[u] = "check" => Current(u)'.amount > 0
                      /\ \A i \in 1..Len(draft'[u]) : tx'[u].postings[i].amount > 0
    BY DEF InStep, Running
  <2>1. CASE u = s
    BY <1>1, <1>2, <2>1
  <2>2. CASE u # s
    BY <1>1, <2>2 DEF InStep, Running, Current
  <2> QED
    BY <2>1, <2>2
<1>5. LocksHeld' /\ ViewsStayTrue'
  BY <1>1 DEF LocksHeld, ViewsStayTrue, Current
<1>6. IdsUnique'
  <2>1. \A u \in Sessions \ {s} : Running(u)' <=> Running(u)
    BY <1>1 DEF Running
  <2>2. \A u \in Sessions : Running(u)' => id'[u] \in 1..begun'
    BY <1>1, <1>2, <2>1 DEF IdsUnique
  <2>3. \A u, v \in Sessions : Running(u)' /\ Running(v)' /\ id'[u] = id'[v] => u = v
    BY <1>1, <1>2, <2>1 DEF IdsUnique
  <2>4. ASSUME NEW w \in Wallets, NEW i \in 1..Len(ledger[w])
        PROVE  /\ ledger[w][i].transferId <= begun'
               /\ \A u \in Sessions : Running(u)' => ledger[w][i].transferId # id'[u]
    <3>1. ledger[w][i].transferId \in Nat /\ ledger[w][i].transferId <= begun
      <4>1. ledger[w][i] \in Entry
        BY DEF TypeOK
      <4> QED
        BY <4>1 DEF Entry, IdsUnique
    <3> QED
      BY <1>1, <1>2, <2>1, <3>1 DEF IdsUnique
  <2> QED
    BY <2>2, <2>3, <2>4 DEF IdsUnique
<1>7. BalanceIsNewestEntry' /\ LedgerChained'
  BY DEF BalanceIsNewestEntry, LedgerChained, BalanceBefore
<1> QED
  BY <1>3, <1>4, <1>5, <1>6, <1>7

(* The row is read when nobody else can change it.                         *)
LEMMA SelectIInv ==
    ASSUME IInv, NEW s \in Sessions, SelectForUpdate(s)
    PROVE  IInv'
<1> DEFINE w == Current(s).wallet
<1> USE DEF IInv
<1>1. /\ \A u \in Sessions \ {s} : pc'[u] = pc[u] /\ seen'[u] = seen[u]
      /\ pc[s] = "select" /\ pc'[s] = "check"
      /\ seen'[s] = [balance |-> balance[w], status |-> status[w]]
      /\ Current(s).amount > 0
      /\ tx' = tx /\ id' = id /\ draft' = draft /\ begun' = begun
      /\ balance' = balance /\ status' = status /\ ledger' = ledger
  BY DEF SelectForUpdate, TypeOK
<1>2. w \in Wallets
  BY <1>1, RunningTyped
<1>3. /\ lock'[w] = s
      /\ \A v \in Wallets \ {w} : lock'[v] = lock[v]
      /\ lock[w] \in {NoSession, s}
  BY <1>2 DEF SelectForUpdate, LockFree, TypeOK
<1>4. \A v \in Wallets, u \in Sessions : lock[v] = u => lock'[v] = u
  BY <1>2, <1>3, SessionsAssumption
<1>5. TypeOK'
  <2>1. [balance |-> balance[w], status |-> status[w]]
          \in [balance : Column, status : WalletStatus]
    BY <1>2 DEF TypeOK
  <2> HIDE DEF w
  <2>2. seen' \in [Sessions -> [balance : Column, status : WalletStatus]]
    BY <2>1 DEF SelectForUpdate, TypeOK, w
  <2>3. lock' \in [Wallets -> Sessions \union {NoSession}]
    BY DEF SelectForUpdate, TypeOK
  <2>4. pc' \in [Sessions -> {"idle", "select", "check", "commit"}]
    BY DEF SelectForUpdate, TypeOK
  <2> QED
    BY <1>1, <2>2, <2>3, <2>4 DEF TypeOK
<1>6. \A u \in Sessions : Current(u)' = Current(u)
  BY <1>1 DEF Current
<1>7. InStep'
  BY <1>1, <1>6 DEF InStep, Running
<1>8. LocksHeld'
  <2> SUFFICES ASSUME NEW u \in Sessions
               PROVE  /\ pc'[u] = "check" => lock'[Current(u).wallet] = u
                      /\ \A i \in 1..Len(draft[u]) : lock'[tx[u].postings[i].wallet] = u
    BY <1>1, <1>6 DEF LocksHeld
  <2>1. \A i \in 1..Len(draft[u]) : lock'[tx[u].postings[i].wallet] = u
    BY <1>4, RunningTyped DEF LocksHeld
  <2>2. pc[u] = "check" => lock'[Current(u).wallet] = u
    BY <1>4, RunningTyped DEF LocksHeld
  <2> QED
    BY <1>1, <1>3, <2>1, <2>2
<1>9. ViewsStayTrue'
  BY <1>1, <1>6 DEF ViewsStayTrue
<1>10. IdsUnique'
  BY <1>1 DEF IdsUnique, Running
<1>11. BalanceIsNewestEntry' /\ LedgerChained'
  BY <1>1 DEF BalanceIsNewestEntry, LedgerChained, BalanceBefore
<1> QED
  BY <1>5, <1>7, <1>8, <1>9, <1>10, <1>11

(* What is written was computed from the committed row, under its lock.    *)
LEMMA WriteIInv ==
    ASSUME IInv, NEW s \in Sessions, Write(s)
    PROVE  IInv'
<1> DEFINE w == Current(s).wallet
           n == Len(draft[s])
<1> USE DEF IInv
<1>1. /\ \A u \in Sessions \ {s} : pc'[u] = pc[u] /\ draft'[u] = draft[u]
      /\ pc[s] = "check"
      /\ draft'[s] = Append(draft[s], Result(s))
      /\ tx' = tx /\ id' = id /\ seen' = seen /\ begun' = begun
      /\ balance' = balance /\ status' = status /\ ledger' = ledger
      /\ Passes(s) /\ Result(s) <= BigIntMax
  BY DEF Write, TypeOK
<1>2. pc'[s] = IF n + 1 = Len(tx[s].postings) THEN "commit" ELSE "select"
  BY DEF Write, TypeOK
<1>3. /\ w \in Wallets /\ n \in Nat /\ tx[s] \in Transactions
      /\ Current(s) \in Posting /\ Current(s).amount > 0
      /\ Current(s).type = "credit" => Current(s).amount <= BigIntMax
      /\ n + 1 \in 1..Len(tx[s].postings)
      /\ Current(s) = tx[s].postings[n + 1]
  BY <1>1, RunningTyped DEF InStep, Current
<1>4. lock[w] = s /\ lock' = lock
  BY <1>1, <1>3 DEF LocksHeld, Write, TypeOK
<1>5. /\ seen[s].balance = balance[w] /\ seen[s].status = status[w]
      /\ Result(s) = NewBalance(balance[w], Current(s))
      /\ Allowed(balance[w], status[w], Current(s), tx[s].user)
  <2>1. seen[s] = [balance |-> balance[w], status |-> status[w]]
    BY <1>1 DEF ViewsStayTrue
  <2>2. seen[s].balance = balance[w] /\ seen[s].status = status[w]
    BY <2>1
  <2> QED
    BY <1>1, <2>2 DEF Passes, Result
<1>6. Result(s) \in Column
  <2>1. balance[w] \in Column
    BY <1>3 DEF TypeOK
  <2>2. Result(s) \in Nat
    BY <1>3, <1>5, <2>1, NewBalanceIsNat
  <2> QED
    BY <1>1, <2>2, MoneyAssumption DEF Column
<1>7. /\ Len(draft'[s]) = n + 1
      /\ draft'[s][n + 1] = Result(s)
      /\ \A i \in 1..n : draft'[s][i] = draft[s][i]
      /\ draft'[s] \in Seq(Column)
  <2>1. draft[s] \in Seq(Column)
    BY DEF TypeOK
  <2> QED
    BY <1>1, <1>6, <2>1
<1>8. TypeOK'
  <2>1. draft' \in [Sessions -> Seq(Column)]
    BY <1>6 DEF Write, TypeOK
  <2>2. pc' \in [Sessions -> {"idle", "select", "check", "commit"}]
    BY DEF Write, TypeOK
  <2> QED
    BY <1>1, <1>4, <2>1, <2>2 DEF TypeOK
<1>9. \A i \in 1..(n + 1) : i = n + 1 \/ i \in 1..n
  BY <1>3
<1>10. \A u \in Sessions \ {s} : Current(u)' = Current(u)
  BY <1>1 DEF Current
<1>11. InStep'
  <2> SUFFICES ASSUME NEW u \in Sessions
               PROVE  /\ pc'[u] = "idle" => draft'[u] = <<>>
                      /\ pc'[u] # "idle" => tx[u] \in Transactions
                      /\ pc'[u] \in {"select", "check"} => Len(draft'[u]) < Len(tx[u].postings)
                      /\ pc'[u] = "commit" => Len(draft'[u]) = Len(tx[u].postings)
                      /\ pc'[u] = "check" => Current(u)'.amount > 0
                      /\ \A i \in 1..Len(draft'[u]) : tx[u].postings[i].amount > 0
    BY <1>1 DEF InStep, Running
  <2>1. CASE u # s
    BY <1>1, <1>10, <2>1 DEF InStep, Running
  <2>2. CASE u = s
    <3>1. Len(tx[s].postings) \in Nat
      BY <1>3, PostingsAssumption
    <3>2. \A i \in 1..n : tx[s].postings[i].amount > 0
      BY DEF InStep
    <3>3. \A i \in 1..Len(draft'[s]) : tx[s].postings[i].amount > 0
      BY <1>3, <1>7, <1>9, <3>2
    <3> QED
      BY <1>2, <1>3, <1>7, <2>2, <3>1, <3>3
  <2> QED
    BY <2>1, <2>2
<1>12. LocksHeld'
  <2> SUFFICES ASSUME NEW u \in Sessions
               PROVE  /\ pc'[u] = "check" => lock[Current(u)'.wallet] = u
                      /\ \A i \in 1..Len(draft'[u]) : lock[tx[u].postings[i].wallet] = u
    BY <1>1, <1>4 DEF LocksHeld
  <2>1. CASE u # s
    BY <1>1, <1>10, <2>1 DEF LocksHeld
  <2>2. CASE u = s
    BY <1>2, <1>3, <1>4, <1>7, <1>9, <2>2 DEF LocksHeld
  <2> QED
    BY <2>1, <2>2
<1>13. ViewsStayTrue'
  <2> SUFFICES ASSUME NEW u \in Sessions
               PROVE  /\ pc'[u] = "check" =>
                          seen[u] = [balance |-> balance[Current(u)'.wallet],
                                     status |-> status[Current(u)'.wallet]]
                      /\ \A i \in 1..Len(draft'[u]) :
                           LET p == tx[u].postings[i]
                           IN  /\ draft'[u][i] = NewBalance(balance[p.wallet], p)
                               /\ Allowed(balance[p.wallet], status[p.wallet], p, tx[u].user)
    BY <1>1 DEF ViewsStayTrue
  <2>1. CASE u # s
    BY <1>1, <1>10, <2>1 DEF ViewsStayTrue
  <2>2. CASE u = s
    <3>1. pc'[u] # "check"
      BY <1>2, <2>2
    <3>2. ASSUME NEW i \in 1..n
          PROVE  LET p == tx[s].postings[i]
                 IN  /\ draft'[s][i] = NewBalance(balance[p.wallet], p)
                     /\ Allowed(balance[p.wallet], status[p.wallet], p, tx[s].user)
      BY <1>7 DEF ViewsStayTrue
    <3>3. LET p == tx[s].postings[n + 1]
          IN  /\ draft'[s][n + 1] = NewBalance(balance[p.wallet], p)
              /\ Allowed(balance[p.wallet], status[p.wallet], p, tx[s].user)
      BY <1>3, <1>5, <1>7
    <3> QED
      BY <1>7, <1>9, <2>2, <3>1, <3>2, <3>3
  <2> QED
    BY <2>1, <2>2
<1>14. \A u \in Sessions : Running(u)' <=> Running(u)
  BY <1>1, <1>2 DEF Running
<1>15. IdsUnique'
  BY <1>1, <1>14 DEF IdsUnique
<1>16. BalanceIsNewestEntry' /\ LedgerChained'
  BY <1>1 DEF BalanceIsNewestEntry, LedgerChained, BalanceBefore
<1> QED
  BY <1>8, <1>11, <1>12, <1>13, <1>15, <1>16

(* A wallet that a committing session touched carries the balance of its   *)
(* posting, computed from the committed row the session still has locked.  *)
LEMMA CommittedWallet ==
    ASSUME IInv, NEW s \in Sessions, Commit(s), NEW w \in Touched(tx[s])
    PROVE  LET p == tx[s].postings[IndexOf(tx[s], w)]
               e == EntryFor(tx[s], IndexOf(tx[s], w), Written(s, w), id[s])
           IN  /\ w \in Wallets /\ lock[w] = s
               /\ tx[s] \in Transactions
               /\ IndexOf(tx[s], w) \in 1..Len(tx[s].postings)
               /\ p \in Posting /\ p.wallet = w
               /\ p.amount > 0 /\ p.amount <= BigIntMax
               /\ Allowed(balance[w], status[w], p, tx[s].user)
               /\ Written(s, w) = NewBalance(balance[w], p)
               /\ Written(s, w) \in Column /\ Written(s, w) \in Nat
               /\ balance'[w] = Written(s, w)
               /\ ledger'[w] = Append(ledger[w], e)
               /\ e \in Entry
               /\ e.type = p.type /\ e.amount = p.amount
               /\ e.balanceAfter = Written(s, w) /\ e.transferId = id[s]
<1> DEFINE j == IndexOf(tx[s], w)
           p == tx[s].postings[j]
<1> USE DEF IInv
<1>1. pc[s] = "commit" /\ Running(s)
  BY DEF Commit, Running
<1>2. tx[s] \in Transactions /\ Len(draft[s]) = Len(tx[s].postings)
  BY <1>1 DEF InStep
<1>3. j \in 1..Len(tx[s].postings) /\ p.wallet = w
  BY <1>2, IndexOfTouched
<1>4. /\ p \in Posting /\ w \in Wallets /\ p.type \in EntryType /\ p.amount \in Int
      /\ p.type = "credit" => p.amount <= BigIntMax
  BY <1>2, <1>3, PostingTyped
<1>5. j \in 1..Len(draft[s])
  BY <1>2, <1>3
<1>6. p.amount > 0 /\ lock[w] = s /\ draft[s][j] \in Column
  BY <1>3, <1>5, RunningTyped DEF InStep, LocksHeld
<1>7. /\ Allowed(balance[w], status[w], p, tx[s].user)
      /\ Written(s, w) = draft[s][j]
      /\ Written(s, w) = NewBalance(balance[w], p)
  BY <1>3, <1>5 DEF ViewsStayTrue, Written
<1>8. p.amount <= BigIntMax
  <2>1. balance[w] \in Column
    BY <1>4 DEF TypeOK
  <2> HIDE DEF p
  <2> QED
    BY <1>4, <1>6, <1>7, <2>1, NewBalanceIsNat
<1>9. balance'[w] = Written(s, w)
  BY <1>4 DEF Commit
<1>10. ledger'[w] = Append(ledger[w], EntryFor(tx[s], j, Written(s, w), id[s]))
  BY <1>4 DEF Commit
<1>11. Written(s, w) \in Nat
  BY <1>6, <1>7, MoneyAssumption DEF Column
<1>12. id[s] \in Nat
  BY SessionsAssumption DEF TypeOK
<1>13. EntryFor(tx[s], j, Written(s, w), id[s]) \in Entry
  BY <1>4, <1>11, <1>12 DEF EntryFor, Entry
<1> QED
  BY <1>2, <1>3, <1>4, <1>6, <1>7, <1>8, <1>9, <1>10, <1>11, <1>13 DEF EntryFor

(* A wallet that it did not touch is as before.                            *)
LEMMA UntouchedWallet ==
    ASSUME NEW s \in Sessions, Commit(s), NEW w \in Wallets, w \notin Touched(tx[s])
    PROVE  balance'[w] = balance[w] /\ ledger'[w] = ledger[w]
BY DEF Commit

(* The new ledger rows continue the chain; the views of the others are     *)
(* about rows that the committing session does not hold.                   *)
LEMMA CommitIInv ==
    ASSUME IInv, NEW s \in Sessions, Commit(s)
    PROVE  IInv'
<1> USE DEF IInv
<1>1. /\ \A u \in Sessions \ {s} : /\ pc'[u] = pc[u] /\ tx'[u] = tx[u] /\ id'[u] = id[u]
                                   /\ seen'[u] = seen[u] /\ draft'[u] = draft[u]
      /\ pc[s] = "commit" /\ pc'[s] = "idle" /\ draft'[s] = <<>> /\ Len(draft'[s]) = 0
      /\ status' = status /\ begun' = begun
      /\ \A w \in Wallets : lock'[w] = IF lock[w] = s THEN NoSession ELSE lock[w]
      /\ Running(s)
  BY DEF Commit, Finish, Running, TypeOK
<1>2. \A w \in Wallets : Len(ledger[w]) \in Nat
  BY DEF TypeOK
<1>3. ASSUME NEW w \in Wallets
      PROVE  /\ balance'[w] \in Column
             /\ ledger'[w] \in Seq(Entry)
  <2>1. balance[w] \in Column /\ ledger[w] \in Seq(Entry)
    BY DEF TypeOK
  <2>2. CASE w \in Touched(tx[s])
    <3> DEFINE e == EntryFor(tx[s], IndexOf(tx[s], w), Written(s, w), id[s])
    <3>1. /\ e \in Entry /\ Written(s, w) \in Column
          /\ balance'[w] = Written(s, w) /\ ledger'[w] = Append(ledger[w], e)
      BY <2>2, CommittedWallet
    <3> HIDE DEF e
    <3> QED
      BY <2>1, <3>1
  <2>3. CASE w \notin Touched(tx[s])
    BY <2>1, <2>3, UntouchedWallet
  <2> QED
    BY <2>2, <2>3
<1>4. TypeOK'
  <2>1. balance' \in [Wallets -> Column]
    <3>1. balance' = [w \in Wallets |-> balance'[w]]
      BY DEF Commit
    <3> QED
      BY <1>3, <3>1
  <2>2. ledger' \in [Wallets -> Seq(Entry)]
    <3>1. ledger' = [w \in Wallets |-> ledger'[w]]
      BY DEF Commit
    <3> QED
      BY <1>3, <3>1
  <2>3. lock' \in [Wallets -> Sessions \union {NoSession}]
    BY DEF Commit, Finish, TypeOK
  <2>4. seen' \in [Sessions -> [balance : Column, status : WalletStatus]]
    BY NullsTyped DEF Commit, Finish, TypeOK
  <2>5. draft' \in [Sessions -> Seq(Column)]
    BY NullsTyped DEF Commit, Finish, TypeOK
  <2>6. /\ pc' \in [Sessions -> {"idle", "select", "check", "commit"}]
        /\ tx' \in [Sessions -> Transactions \union {NoTransaction}]
        /\ id' \in [Sessions -> 0..MaxTransactions]
    BY NullsTyped DEF Commit, Finish, TypeOK
  <2> QED
    BY <1>1, <2>1, <2>2, <2>3, <2>4, <2>5, <2>6 DEF TypeOK
<1>5. \A u \in Sessions \ {s} : Current(u)' = Current(u) /\ (Running(u)' <=> Running(u))
  BY <1>1 DEF Current, Running
<1>6. InStep'
  BY <1>1, <1>5 DEF InStep, Running
<1>7. \A w \in Wallets, u \in Sessions \ {s} :
         lock[w] = u => lock'[w] = u /\ balance'[w] = balance[w] /\ w \notin Touched(tx[s])
  BY <1>1, CommittedWallet, UntouchedWallet
<1>8. LocksHeld'
  <2> SUFFICES ASSUME NEW u \in Sessions
               PROVE  /\ pc'[u] = "check" => lock'[Current(u)'.wallet] = u
                      /\ \A i \in 1..Len(draft'[u]) : lock'[tx'[u].postings[i].wallet] = u
    BY DEF LocksHeld
  <2>1. CASE u = s
    BY <1>1, <2>1
  <2>2. CASE u # s
    <3>1. pc[u] = "check" => Current(u).wallet \in Wallets
      BY RunningTyped
    <3>2. \A i \in 1..Len(draft[u]) : tx[u].postings[i].wallet \in Wallets
      BY RunningTyped
    <3> QED
      BY <1>1, <1>5, <1>7, <2>2, <3>1, <3>2 DEF LocksHeld
  <2> QED
    BY <2>1, <2>2
<1>9. ViewsStayTrue'
  <2> SUFFICES ASSUME NEW u \in Sessions
               PROVE  /\ pc'[u] = "check" =>
                          seen'[u] = [balance |-> balance'[Current(u)'.wallet],
                                      status |-> status[Current(u)'.wallet]]
                      /\ \A i \in 1..Len(draft'[u]) :
                           LET p == tx'[u].postings[i]
                           IN  /\ draft'[u][i] = NewBalance(balance'[p.wallet], p)
                               /\ Allowed(balance'[p.wallet], status[p.wallet], p, tx'[u].user)
    BY <1>1 DEF ViewsStayTrue
  <2>1. CASE u = s
    BY <1>1, <2>1
  <2>2. CASE u # s
    <3>1. pc[u] = "check" => balance'[Current(u).wallet] = balance[Current(u).wallet]
      BY <1>7, <2>2, RunningTyped DEF LocksHeld
    <3>2. ASSUME NEW i \in 1..Len(draft[u])
          PROVE  balance'[tx[u].postings[i].wallet] = balance[tx[u].postings[i].wallet]
      BY <1>7, <2>2, RunningTyped DEF LocksHeld
    <3>3. pc[u] = "check" =>
            seen[u] = [balance |-> balance'[Current(u).wallet],
                       status |-> status[Current(u).wallet]]
      BY <3>1 DEF ViewsStayTrue
    <3>4. ASSUME NEW i \in 1..Len(draft[u])
          PROVE  LET p == tx[u].postings[i]
                 IN  /\ draft[u][i] = NewBalance(balance'[p.wallet], p)
                     /\ Allowed(balance'[p.wallet], status[p.wallet], p, tx[u].user)
      BY <3>2 DEF ViewsStayTrue
    <3> QED
      BY <1>1, <1>5, <2>2, <3>3, <3>4
  <2> QED
    BY <2>1, <2>2
<1>10. ASSUME NEW w \in Wallets
       PROVE  \/ /\ w \notin Touched(tx[s])
                 /\ Len(ledger'[w]) = Len(ledger[w])
                 /\ ledger'[w] = ledger[w]
              \/ /\ w \in Touched(tx[s])
                 /\ Len(ledger'[w]) = Len(ledger[w]) + 1
                 /\ \A i \in 1..Len(ledger[w]) : ledger'[w][i] = ledger[w][i]
                 /\ ledger'[w][Len(ledger[w]) + 1]
                      = EntryFor(tx[s], IndexOf(tx[s], w), Written(s, w), id[s])
  <2>1. ledger[w] \in Seq(Entry)
    BY DEF TypeOK
  <2>2. CASE w \in Touched(tx[s])
    <3> DEFINE e == EntryFor(tx[s], IndexOf(tx[s], w), Written(s, w), id[s])
    <3>1. e \in Entry /\ ledger'[w] = Append(ledger[w], e)
      BY <2>2, CommittedWallet
    <3> HIDE DEF e
    <3>2. /\ Len(ledger'[w]) = Len(ledger[w]) + 1
          /\ \A i \in 1..Len(ledger[w]) : ledger'[w][i] = ledger[w][i]
          /\ ledger'[w][Len(ledger[w]) + 1] = e
      BY <2>1, <3>1
    <3> QED
      BY <2>2, <3>2 DEF e
  <2>3. CASE w \notin Touched(tx[s])
    BY <2>3, UntouchedWallet
  <2> QED
    BY <2>2, <2>3
<1>11. IdsUnique'
  <2>1. id[s] \in 1..begun /\ begun \in Nat
    BY <1>1, SessionsAssumption DEF IdsUnique, TypeOK
  <2>2. ~Running(s)'
    BY <1>1 DEF Running
  <2>3. \A u \in Sessions : Running(u)' => /\ u # s /\ Running(u) /\ id'[u] = id[u]
                                           /\ id[u] # id[s]
    BY <1>1, <1>5, <2>2 DEF IdsUnique
  <2>4. ASSUME NEW w \in Wallets, NEW i \in 1..Len(ledger'[w])
        PROVE  /\ ledger'[w][i].transferId <= begun
               /\ \A u \in Sessions : Running(u)' => ledger'[w][i].transferId # id'[u]
    <3>1. CASE i \in 1..Len(ledger[w])
      <4>1. ledger'[w][i] = ledger[w][i]
        BY <1>10, <3>1
      <4> QED
        BY <2>3, <3>1, <4>1 DEF IdsUnique
    <3>2. CASE i \notin 1..Len(ledger[w])
      <4>1. i = Len(ledger[w]) + 1 /\ w \in Touched(tx[s])
        BY <1>2, <1>10, <3>2
      <4>2. ledger'[w][i].transferId = id[s]
        BY <1>10, <4>1, CommittedWallet
      <4> QED
        BY <2>1, <2>3, <4>2
    <3> QED
      BY <3>1, <3>2
  <2>5. \A u \in Sessions : Running(u)' => id'[u] \in 1..begun
    BY <2>3 DEF IdsUnique
  <2>6. \A u, v \in Sessions : Running(u)' /\ Running(v)' /\ id'[u] = id'[v] => u = v
    BY <2>3 DEF IdsUnique
  <2> QED
    BY <1>1, <2>4, <2>5, <2>6 DEF IdsUnique
<1>12. BalanceIsNewestEntry'
  <2> SUFFICES ASSUME NEW w \in Wallets
               PROVE  balance'[w] = IF Len(ledger'[w]) + 1 = 1 THEN 0
                                    ELSE ledger'[w][Len(ledger'[w]) + 1 - 1].balanceAfter
    BY DEF BalanceIsNewestEntry, BalanceBefore
  <2>1. CASE w \in Touched(tx[s])
    <3> DEFINE m == Len(ledger[w]) + 1
    <3>1. m \in Nat /\ m >= 1 /\ Len(ledger'[w]) = m
      BY <1>2, <1>10, <2>1
    <3>2. ledger'[w][m].balanceAfter = balance'[w]
      BY <1>10, <2>1, CommittedWallet
    <3> HIDE DEF m
    <3>3. Len(ledger'[w]) + 1 # 1 /\ Len(ledger'[w]) + 1 - 1 = m
      BY <3>1
    <3> QED
      BY <3>2, <3>3
  <2>2. CASE w \notin Touched(tx[s])
    <3>1. balance'[w] = balance[w] /\ ledger'[w] = ledger[w]
      BY <2>2, UntouchedWallet
    <3> QED
      BY <3>1 DEF BalanceIsNewestEntry, BalanceBefore
  <2> QED
    BY <2>1, <2>2
<1>13. LedgerChained'
  <2> DEFINE Before(w, i) == IF i = 1 THEN 0 ELSE ledger'[w][i - 1].balanceAfter
  <2> SUFFICES ASSUME NEW w \in Wallets, NEW i \in 1..Len(ledger'[w])
               PROVE  LET e == ledger'[w][i]
                      IN  /\ e.balanceAfter = IF e.type = "debit"
                                              THEN Before(w, i) - e.amount
                                              ELSE ColumnPlus(Before(w, i), e.amount)
                          /\ e.balanceAfter >= 0
    BY DEF LedgerChained, BalanceBefore
  <2>1. CASE i \in 1..Len(ledger[w])
    <3>1. ledger'[w][i] = ledger[w][i]
      BY <1>10, <2>1
    <3>2. i # 1 => i - 1 \in 1..Len(ledger[w])
      BY <1>2, <2>1
    <3>3. Before(w, i) = BalanceBefore(w, i)
      BY <1>10, <3>2 DEF BalanceBefore
    <3> QED
      BY <2>1, <3>1, <3>3 DEF LedgerChained
  <2>2. CASE i \notin 1..Len(ledger[w])
    <3> DEFINE q == tx[s].postings[IndexOf(tx[s], w)]
               e == ledger'[w][i]
    <3>1. i = Len(ledger[w]) + 1 /\ w \in Touched(tx[s])
      BY <1>2, <1>10, <2>2
    <3>2. /\ e.type = q.type /\ e.amount = q.amount
          /\ e.balanceAfter = NewBalance(balance[w], q)
          /\ e.balanceAfter \in Nat
      BY <1>10, <3>1, CommittedWallet
    <3>3. i # 1 => i - 1 \in 1..Len(ledger[w])
      BY <1>2, <3>1
    <3>4. Before(w, i) = BalanceBefore(w, Len(ledger[w]) + 1)
      BY <1>10, <3>1, <3>3 DEF BalanceBefore
    <3>5. Before(w, i) = balance[w]
      BY <3>4 DEF BalanceIsNewestEntry
    <3> QED
      BY <3>2, <3>5 DEF NewBalance
  <2> QED
    BY <2>1, <2>2
<1> QED
  BY <1>4, <1>6, <1>8, <1>9, <1>11, <1>12, <1>13

(* A status is written only while no session holds the row.                *)
LEMMA StatusIInv ==
    ASSUME IInv, NEW w \in Wallets, NEW st \in WalletStatus,
           FreezeWallet(w) \/ SetStatusByHand(w, st)
    PROVE  IInv'
<1> USE DEF IInv
<1>1. /\ pc' = pc /\ tx' = tx /\ id' = id /\ seen' = seen /\ draft' = draft
      /\ lock' = lock /\ begun' = begun /\ balance' = balance /\ ledger' = ledger
      /\ lock[w] = NoSession
      /\ status' \in [Wallets -> WalletStatus]
      /\ \A v \in Wallets \ {w} : status'[v] = status[v]
  BY DEF FreezeWallet, SetStatusByHand, private, TypeOK, WalletStatus
<1>2. TypeOK'
  BY <1>1 DEF TypeOK
<1>3. InStep' /\ LocksHeld'
  BY <1>1 DEF InStep, LocksHeld, Running, Current
<1>4. \A v \in Wallets, u \in Sessions : lock[v] = u => status'[v] = status[v]
  BY <1>1, SessionsAssumption
<1>5. ViewsStayTrue'
  <2> SUFFICES ASSUME NEW u \in Sessions
               PROVE  /\ pc[u] = "check" =>
                          seen[u] = [balance |-> balance[Current(u).wallet],
                                     status |-> status'[Current(u).wallet]]
                      /\ \A i \in 1..Len(draft[u]) :
                           LET p == tx[u].postings[i]
                           IN  /\ draft[u][i] = NewBalance(balance[p.wallet], p)
                               /\ Allowed(balance[p.wallet], status'[p.wallet], p, tx[u].user)
    BY <1>1 DEF ViewsStayTrue, Current
  <2>1. pc[u] = "check" => status'[Current(u).wallet] = status[Current(u).wallet]
    BY <1>4, RunningTyped DEF LocksHeld
  <2>2. ASSUME NEW i \in 1..Len(draft[u])
        PROVE  status'[tx[u].postings[i].wallet] = status[tx[u].postings[i].wallet]
    BY <1>4, RunningTyped DEF LocksHeld
  <2> QED
    BY <2>1, <2>2 DEF ViewsStayTrue
<1>6. IdsUnique' /\ BalanceIsNewestEntry' /\ LedgerChained'
  BY <1>1 DEF IdsUnique, Running, BalanceIsNewestEntry, LedgerChained, BalanceBefore
<1> QED
  BY <1>2, <1>3, <1>5, <1>6

LEMMA StutterIInv == IInv /\ UNCHANGED vars => IInv'
<1> SUFFICES ASSUME IInv, UNCHANGED vars PROVE IInv'
  OBVIOUS
<1> USE DEF IInv, vars
<1>1. TypeOK'
  BY DEF TypeOK
<1>2. InStep' /\ LocksHeld' /\ ViewsStayTrue'
  BY DEF InStep, LocksHeld, ViewsStayTrue, Running, Current
<1>3. IdsUnique' /\ BalanceIsNewestEntry' /\ LedgerChained'
  BY DEF IdsUnique, Running, BalanceIsNewestEntry, LedgerChained, BalanceBefore
<1> QED
  BY <1>1, <1>2, <1>3

(* Every step preserves the inductive invariant.                           *)
LEMMA NextIInv == IInv /\ [Next]_vars => IInv'
<1> SUFFICES ASSUME IInv, [Next]_vars PROVE IInv'
  OBVIOUS
<1>1. CASE UNCHANGED vars
  BY <1>1, StutterIInv
<1>2. ASSUME NEW s \in Sessions, NEW t \in Transactions, Begin(s, t) PROVE IInv'
  BY <1>2, BeginIInv
<1>3. ASSUME NEW s \in Sessions, Step(s) PROVE IInv'
  <2>1. CASE RefuseAmount(s) \/ Refuse(s) \/ WriteFails(s)
    BY <2>1, RollbackIInv DEF RefuseAmount, Refuse, WriteFails
  <2>2. CASE SelectForUpdate(s)
    BY <2>2, SelectIInv
  <2>3. CASE Write(s)
    BY <2>3, WriteIInv
  <2>4. CASE Commit(s)
    BY <2>4, CommitIInv
  <2> QED
    BY <1>3, <2>1, <2>2, <2>3, <2>4 DEF Step
<1>4. ASSUME NEW s \in Sessions, Abort(s) \/ DeadlockVictim(s) PROVE IInv'
  BY <1>4, RollbackIInv DEF Abort, DeadlockVictim
<1>5. ASSUME NEW w \in Wallets, FreezeWallet(w) PROVE IInv'
  BY <1>5, StatusIInv DEF WalletStatus
<1>6. ASSUME NEW w \in Wallets, NEW st \in StatusesByHand, SetStatusByHand(w, st) PROVE IInv'
  <2>1. st \in WalletStatus
    BY SessionsAssumption
  <2> QED
    BY <1>6, <2>1, StatusIInv
<1> QED
  BY <1>1, <1>2, <1>3, <1>4, <1>5, <1>6 DEF Next

(* The inductive invariant holds in every reachable state.                 *)
THEOREM Invariance == Spec => []IInv
BY InitIInv, NextIInv, PTL DEF Spec

(* Every variable keeps its type: no balance of a wallet is ever negative, *)
(* whatever sessions run, abort or deadlock (WalletsService.debit, the     *)
(* CHECK on wallets.balance).                                              *)
THEOREM TypeCorrect == Spec => []TypeOK
<1>1. IInv => TypeOK
  BY DEF IInv
<1> QED
  BY <1>1, Invariance, PTL

(* No update of a balance is lost: each ledger row of a wallet continues   *)
(* from the row before it (SELECT ... FOR UPDATE in debit and credit).     *)
THEOREM NoLostUpdate == Spec => []LedgerChained
<1>1. IInv => LedgerChained
  BY DEF IInv
<1> QED
  BY <1>1, Invariance, PTL

(* The balance column and the newest ledger row always agree.              *)
THEOREM BalanceAgrees == Spec => []BalanceIsNewestEntry
<1>1. IInv => BalanceIsNewestEntry
  BY DEF IInv
<1> QED
  BY <1>1, Invariance, PTL

(* Between its locked read and its COMMIT, what a session saw stays true.  *)
THEOREM ViewsAreStable == Spec => []ViewsStayTrue
<1>1. IInv => ViewsStayTrue
  BY DEF IInv
<1> QED
  BY <1>1, Invariance, PTL

-----------------------------------------------------------------------------
(* A row lock ends with the transaction that took it.                      *)
LocksOwned == \A w \in Wallets : lock[w] \in Sessions => Running(lock[w])

LEMMA FinishDropsLocks ==
    ASSUME IInv, LocksOwned, NEW s \in Sessions, Finish(s)
    PROVE  LocksOwned'
<1>1. /\ lock' = [w \in Wallets |-> IF lock[w] = s THEN NoSession ELSE lock[w]]
      /\ pc' = [pc EXCEPT ![s] = "idle"]
  BY DEF Finish
<1>2. \A u \in Sessions : u # s => pc'[u] = pc[u]
  BY <1>1 DEF IInv, TypeOK
<1>3. ASSUME NEW w \in Wallets, lock'[w] \in Sessions
      PROVE  pc'[lock'[w]] # "idle"
  <2>1. lock'[w] = lock[w] /\ lock[w] # s
    BY <1>1, <1>3, SessionsAssumption
  <2>2. pc[lock[w]] # "idle"
    BY <1>3, <2>1 DEF LocksOwned, Running
  <2> QED
    BY <1>2, <1>3, <2>1, <2>2
<1> QED
  BY <1>3 DEF LocksOwned, Running

LEMMA TakingLocks ==
    ASSUME IInv, LocksOwned, NEW s \in Sessions, NEW w \in Wallets,
           lock' = [lock EXCEPT ![w] = s],
           \E place \in {"select", "check", "commit"} : pc' = [pc EXCEPT ![s] = place]
    PROVE  LocksOwned'
<1>1. \A u \in Sessions : pc'[u] # pc[u] => pc'[u] # "idle"
  BY DEF IInv, TypeOK
<1>2. pc'[s] # "idle"
  BY DEF IInv, TypeOK
<1>3. ASSUME NEW v \in Wallets, lock'[v] \in Sessions
      PROVE  pc'[lock'[v]] # "idle"
  <2>1. lock'[v] = IF v = w THEN s ELSE lock[v]
    BY DEF IInv, TypeOK
  <2>2. CASE v = w
    BY <1>2, <2>1, <2>2
  <2>3. CASE v # w
    <3>1. lock'[v] = lock[v] /\ pc[lock[v]] # "idle"
      BY <1>3, <2>1, <2>3 DEF LocksOwned, Running
    <3> QED
      BY <1>1, <1>3, <3>1
  <2> QED
    BY <2>2, <2>3
<1> QED
  BY <1>3 DEF LocksOwned, Running

LEMMA NextLocksOwned == IInv /\ LocksOwned /\ [Next]_vars => LocksOwned'
<1> SUFFICES ASSUME IInv, LocksOwned, [Next]_vars PROVE LocksOwned'
  OBVIOUS
<1>1. CASE lock' = lock /\ \A s \in Sessions : Running(s) => Running(s)'
  BY <1>1 DEF LocksOwned
<1>2. CASE UNCHANGED vars
  BY <1>1, <1>2 DEF vars, Running
<1>3. ASSUME NEW s \in Sessions, NEW t \in Transactions, Begin(s, t)
      PROVE  LocksOwned'
  <2>1. lock' = lock /\ pc' = [pc EXCEPT ![s] = "select"]
    BY <1>3 DEF Begin
  <2>2. \A u \in Sessions : Running(u) => Running(u)'
    BY <2>1 DEF Running, IInv, TypeOK
  <2> QED
    BY <1>1, <2>1, <2>2
<1>4. ASSUME NEW s \in Sessions, Step(s) \/ Abort(s) \/ DeadlockVictim(s)
      PROVE  LocksOwned'
  <2>1. CASE Finish(s)
    BY <2>1, FinishDropsLocks
  <2>2. CASE SelectForUpdate(s)
    <3>1. pc[s] = "select" /\ lock' = [lock EXCEPT ![Current(s).wallet] = s]
          /\ pc' = [pc EXCEPT ![s] = "check"]
      BY <2>2 DEF SelectForUpdate
    <3>2. Current(s).wallet \in Wallets
      BY <3>1, RunningTyped DEF IInv
    <3> QED
      BY <3>1, <3>2, TakingLocks
  <2>3. CASE Write(s)
    <3>1. pc[s] = "check" /\ lock' = [lock EXCEPT ![Current(s).wallet] = s]
          /\ \E place \in {"select", "commit"} : pc' = [pc EXCEPT ![s] = place]
      BY <2>3 DEF Write
    <3>2. Current(s).wallet \in Wallets
      BY <3>1, RunningTyped DEF IInv
    <3> QED
      BY <3>1, <3>2, TakingLocks
  <2> QED
    BY <1>4, <2>1, <2>2, <2>3
       DEF Step, RefuseAmount, Refuse, WriteFails, Commit, Abort, DeadlockVictim, Rollback
<1>5. ASSUME NEW w \in Wallets, NEW st, FreezeWallet(w) \/ SetStatusByHand(w, st)
      PROVE  LocksOwned'
  <2>1. lock' = lock /\ pc' = pc
    BY <1>5 DEF FreezeWallet, SetStatusByHand
  <2> QED
    BY <1>1, <2>1 DEF Running
<1> QED
  BY <1>2, <1>3, <1>4, <1>5 DEF Next

ImageOf(F, T) == {F[x] : x \in T}

(* A function on a finite set maps some part of it onto itself.            *)
LEMMA SomePartIsItsImage ==
    ASSUME NEW B, IsFiniteSet(B), B # {}, NEW F \in [B -> B]
    PROVE  \E T \in SUBSET B : T # {} /\ ImageOf(F, T) = T
<1> DEFINE Closed == {T \in SUBSET B : T # {} /\ \A x \in T : F[x] \in T}
           Sizes == {Cardinality(T) : T \in Closed}
<1>1. B \in Closed
  OBVIOUS
<1>2. \A T \in Closed : IsFiniteSet(T) /\ Cardinality(T) \in Nat /\ T \in SUBSET B
  BY FS_Subset, FS_CardinalityType
<1>3. PICK least \in Sizes : \A n \in Sizes : least <= n
  <2>1. Sizes \subseteq Nat /\ Sizes # {}
    BY <1>1, <1>2
  <2> HIDE DEF Sizes
  <2> QED
    BY <2>1, LeastNatural
<1>4. PICK T \in Closed : Cardinality(T) = least
  OBVIOUS
<1> DEFINE I == ImageOf(F, T)
<1>5. I \subseteq T /\ T \in SUBSET B /\ T # {}
  BY <1>4 DEF ImageOf
<1>6. I \in Closed
  BY <1>4, <1>5 DEF ImageOf
<1>7. least <= Cardinality(I)
  BY <1>3, <1>6
<1>8. IsFiniteSet(T) /\ Cardinality(T) \in Nat /\ Cardinality(I) \in Nat
  BY <1>2, <1>4, <1>6
<1> HIDE DEF I, Closed, Sizes
<1>9. I = T
  <2> SUFFICES ASSUME I # T PROVE FALSE
    OBVIOUS
  <2>1. Cardinality(I) < Cardinality(T)
    BY <1>5, <1>8, FS_Subset
  <2> QED
    BY <1>4, <1>7, <1>8, <2>1
<1> QED
  BY <1>5, <1>9 DEF I

(* Whom a session that is held up waits for.                               *)
Holder(s) == lock[Current(s).wallet]

LEMMA BlockedWaits ==
    ASSUME IInv, LocksOwned, NEW s \in Sessions, Blocked(s)
    PROVE  Holder(s) \in Sessions /\ Running(Holder(s)) /\ WaitsFor(s, Holder(s))
<1>1. pc[s] \in {"select", "check"} /\ Holder(s) \notin {NoSession, s}
  BY DEF Blocked, LockFree, Holder
<1>2. Current(s).wallet \in Wallets
  BY <1>1, RunningTyped DEF IInv
<1>3. Holder(s) \in Sessions /\ Running(Holder(s))
  BY <1>1, <1>2 DEF IInv, TypeOK, LocksOwned, Holder
<1>4. pc[s] # "check"
  BY <1>1 DEF IInv, LocksHeld, Holder
<1> QED
  BY <1>1, <1>3, <1>4 DEF WaitsFor, Holder

(* However many sessions hold and want however many rows, in whatever      *)
(* order: of any group that waits for nobody else one can go on, or is on  *)
(* a cycle that the detector finds.  What is left of "every transaction    *)
(* ends" is that the database and the event loop do go on.                 *)
THEOREM NoGroupIsStuck == Spec => []NoGroupStuck
<1>1. ASSUME IInv, LocksOwned PROVE NoGroupStuck
  <2> SUFFICES ASSUME NEW S \in SUBSET Sessions, \E s \in S : Running(s),
                      \A s \in S, u \in Sessions : WaitsFor(s, u) => u \in S,
                      \A s \in S : Running(s) => Blocked(s) /\ ~Deadlocked(s)
               PROVE  FALSE
    BY DEF NoGroupStuck
  <2> DEFINE B == {s \in S : Running(s)}
  <2>1. IsFiniteSet(B) /\ B # {} /\ B \in SUBSET Sessions
    BY SessionsAssumption, FS_Subset
  <2>2. \A s \in B : Holder(s) \in B /\ WaitsFor(s, Holder(s))
    BY <1>1, BlockedWaits
  <2> DEFINE F == [s \in B |-> Holder(s)]
  <2>3. F \in [B -> B] /\ \A s \in B : WaitsFor(s, F[s])
    BY <2>2
  <2>4. PICK T \in SUBSET B : T # {} /\ ImageOf(F, T) = T
    <3> HIDE DEF B, F
    <3> QED
      BY <2>1, <2>3, SomePartIsItsImage
  <2>5. PICK s \in T : TRUE
    BY <2>4
  <2>6. /\ T \in SUBSET Sessions
        /\ \A x \in T : \E y \in T : WaitsFor(x, y)
        /\ \A y \in T : \E x \in T : WaitsFor(x, y)
    <3> HIDE DEF F
    <3> QED
      BY <2>1, <2>3, <2>4 DEF ImageOf
  <2>7. Deadlocked(s)
    BY <2>5, <2>6 DEF Deadlocked
  <2> QED
    BY <2>5, <2>7
<1>2. Init => LocksOwned
  BY SessionsAssumption DEF Init, LocksOwned
<1>3. Init => IInv
  BY InitIInv
<1>4. (IInv /\ LocksOwned) /\ [Next]_vars => (IInv /\ LocksOwned)'
  BY NextIInv, NextLocksOwned
<1>5. IInv /\ LocksOwned => NoGroupStuck
  BY <1>1
<1> QED
  BY <1>2, <1>3, <1>4, <1>5, PTL DEF Spec

-----------------------------------------------------------------------------
(* Every step but Commit leaves the balances and the ledger as they are.   *)
LEMMA OnlyCommitPosts ==
    ASSUME [Next]_vars, ~ \E s \in Sessions : Commit(s)
    PROVE  balance' = balance /\ ledger' = ledger
<1>1. CASE UNCHANGED vars
  BY <1>1 DEF vars
<1>2. CASE Next
  <2>1. ASSUME NEW s \in Sessions, Rollback(s)
        PROVE  balance' = balance /\ ledger' = ledger
    BY <2>1 DEF Rollback, committed
  <2>2. ASSUME NEW s \in Sessions,
               \/ \E t \in Transactions : Begin(s, t)
               \/ Step(s)
               \/ Abort(s)
               \/ DeadlockVictim(s)
        PROVE  balance' = balance /\ ledger' = ledger
    <3>1. CASE \E t \in Transactions : Begin(s, t)
      BY <3>1 DEF Begin
    <3>2. CASE Step(s)
      BY <2>1, <3>2 DEF Step, RefuseAmount, SelectForUpdate, Refuse, Write, WriteFails
    <3>3. CASE Abort(s) \/ DeadlockVictim(s)
      BY <2>1, <3>3 DEF Abort, DeadlockVictim
    <3> QED
      BY <2>2, <3>1, <3>2, <3>3
  <2>3. ASSUME NEW w \in Wallets, FreezeWallet(w)
        PROVE  balance' = balance /\ ledger' = ledger
    BY <2>3 DEF FreezeWallet
  <2>4. ASSUME NEW w \in Wallets, NEW st \in StatusesByHand, SetStatusByHand(w, st)
        PROVE  balance' = balance /\ ledger' = ledger
    BY <2>4 DEF SetStatusByHand
  <2> QED
    BY <1>2, <2>2, <2>3, <2>4 DEF Next
<1> QED
  BY <1>1, <1>2

(* Money leaves a wallet only in a step that finds it active.              *)
THEOREM DebitsNeedActiveWallets == Spec => OnlyActiveWalletsDebited
<1> DEFINE Debited(w) ==
             \/ balance'[w] < balance[w]
             \/ /\ Len(ledger'[w]) > Len(ledger[w])
                /\ ledger'[w][Len(ledger'[w])].type = "debit"
<1>1. ASSUME IInv, [Next]_vars, NEW w \in Wallets, Debited(w)
      PROVE  status[w] = "active"
  <2>1. /\ balance[w] \in Column /\ balance[w] \in Nat
        /\ ledger[w] \in Seq(Entry) /\ Len(ledger[w]) \in Nat
    <3>1. balance[w] \in Column /\ ledger[w] \in Seq(Entry)
      BY <1>1 DEF IInv, TypeOK
    <3> QED
      BY <3>1, MoneyAssumption DEF Column
  <2>2. PICK s \in Sessions : Commit(s)
    <3>1. CASE balance' = balance /\ ledger' = ledger
      BY <1>1, <2>1, <3>1
    <3> QED
      BY <1>1, <3>1, OnlyCommitPosts
  <2>3. w \in Touched(tx[s])
    <3>1. CASE balance'[w] = balance[w] /\ ledger'[w] = ledger[w]
      BY <1>1, <2>1, <3>1
    <3> QED
      BY <2>2, <3>1, UntouchedWallet
  <2> DEFINE p == tx[s].postings[IndexOf(tx[s], w)]
             e == EntryFor(tx[s], IndexOf(tx[s], w), Written(s, w), id[s])
  <2>4. /\ p \in Posting /\ p.amount > 0 /\ p.amount <= BigIntMax
        /\ Allowed(balance[w], status[w], p, tx[s].user)
        /\ balance'[w] = NewBalance(balance[w], p)
        /\ ledger'[w] = Append(ledger[w], e) /\ e \in Entry /\ e.type = p.type
    BY <1>1, <2>2, <2>3, CommittedWallet
  <2>5. p.type \in {"debit", "credit"}
    <3> HIDE DEF p
    <3> QED
      BY <2>4 DEF Posting, EntryType
  <2>6. CASE p.type = "debit"
    BY <2>4, <2>6 DEF Allowed, DebitAllowed
  <2>7. CASE p.type = "credit"
    <3>1. balance'[w] \in Nat /\ balance'[w] >= balance[w]
      BY <2>1, <2>4, <2>7, NewBalanceIsNat
    <3>2. ledger'[w][Len(ledger'[w])] = e
      <4> HIDE DEF e
      <4> QED
        BY <2>1, <2>4
    <3>3. ~(balance'[w] < balance[w])
      BY <2>1, <3>1
    <3>4. ledger'[w][Len(ledger'[w])].type = "credit"
      BY <2>4, <2>7, <3>2
    <3> QED
      BY <1>1, <3>3, <3>4
  <2> QED
    BY <2>5, <2>6, <2>7
<1>2. IInv /\ [Next]_vars => [\A w \in Wallets : Debited(w) => status[w] = "active"]_vars
  BY <1>1
<1> QED
  BY <1>2, Invariance, PTL DEF Spec, OnlyActiveWalletsDebited

-----------------------------------------------------------------------------
(* II. The sessions of WalletLedger implement AtomicLedger: to the rows    *)
(* that are committed, a transaction happens in one step, at its COMMIT.   *)

(* Both modules compute with the same operators.                           *)
LEMMA SameShift == \A n : Atomic!Shift(n) = Shift(n)
BY DEF Atomic!Shift, Shift

LEMMA SameOperators ==
    /\ \A bal, p : Atomic!NewBalance(bal, p) = NewBalance(bal, p)
    /\ \A bal, st, p, u : Atomic!Allowed(bal, st, p, u) <=> Allowed(bal, st, p, u)
    /\ \A t, w : Atomic!IndexOf(t, w) = IndexOf(t, w)
    /\ \A t : Atomic!Touched(t) = Touched(t)
    /\ \A t, i, after, n : Atomic!EntryFor(t, i, after, n) = EntryFor(t, i, after, n)
    /\ \A w : Atomic!OpeningLedger(w) = OpeningLedger(w)
<1>1. \A a, n : Atomic!ColumnPlus(a, n) = ColumnPlus(a, n)
  BY SameShift DEF Atomic!ColumnPlus, ColumnPlus, Atomic!AppendDigits, AppendDigits
<1>2. \A bal, p : Atomic!NewBalance(bal, p) = NewBalance(bal, p)
  BY <1>1 DEF Atomic!NewBalance, NewBalance
<1>3. \A bal, st, p, u : Atomic!Allowed(bal, st, p, u) <=> Allowed(bal, st, p, u)
  BY DEF Atomic!Allowed, Allowed, Atomic!DebitAllowed, DebitAllowed, Atomic!CreditAllowed,
         CreditAllowed, Atomic!Available, Available, Atomic!HeldBalance, HeldBalance
<1>4. \A t, w : Atomic!IndexOf(t, w) = IndexOf(t, w)
  BY DEF Atomic!IndexOf, IndexOf
<1>5. \A t : Atomic!Touched(t) = Touched(t)
  BY DEF Atomic!Touched, Touched
<1>6. \A t, i, after, n : Atomic!EntryFor(t, i, after, n) = EntryFor(t, i, after, n)
  BY DEF Atomic!EntryFor, EntryFor
<1>7. \A w : Atomic!OpeningLedger(w) = OpeningLedger(w)
  BY DEF Atomic!OpeningLedger, OpeningLedger
<1> QED
  BY <1>2, <1>3, <1>4, <1>5, <1>6, <1>7

LEMMA InitRefines == Init => Atomic!Init
BY SameOperators DEF Init, Atomic!Init

(* At COMMIT the checks still hold of the committed rows, so the abstract  *)
(* transaction can post, and it leaves the same balances and rows.         *)
LEMMA CommitPosts ==
    ASSUME IInv, NEW s \in Sessions, Commit(s)
    PROVE  id[s] \in 1..MaxTransactions /\ Atomic!Post(id[s], tx[s])
<1> DEFINE t == tx[s]
<1>1. t \in Transactions /\ Running(s)
  BY DEF IInv, InStep, Commit, Running
<1>2. id[s] \in 1..MaxTransactions
  BY <1>1, SessionsAssumption DEF IInv, IdsUnique, TypeOK
<1>3. Atomic!CanPost(t)
  <2> SUFFICES ASSUME NEW i \in 1..Len(t.postings)
               PROVE  LET p == t.postings[i]
                      IN  /\ p.amount > 0
                          /\ Allowed(balance[p.wallet], status[p.wallet], p, t.user)
                          /\ NewBalance(balance[p.wallet], p) <= BigIntMax
    BY SameOperators DEF Atomic!CanPost
  <2> DEFINE w == t.postings[i].wallet
  <2>1. w \in Touched(t) /\ IndexOf(t, w) = i
    BY <1>1, IndexOfPosting DEF Touched
  <2>2. /\ t.postings[i].amount > 0
        /\ Allowed(balance[w], status[w], t.postings[i], t.user)
        /\ Written(s, w) = NewBalance(balance[w], t.postings[i])
        /\ Written(s, w) \in Column
    BY <2>1, CommittedWallet
  <2> QED
    BY <2>2, MoneyAssumption DEF Column
<1>4. Atomic!NotPosted(id[s])
  BY <1>1 DEF IInv, IdsUnique, Atomic!NotPosted
<1>5. ASSUME NEW w \in Touched(t)
      PROVE  Atomic!After(t, w) = Written(s, w)
  <2>1. Atomic!After(t, w) = NewBalance(balance[w], t.postings[IndexOf(t, w)])
    BY SameOperators DEF Atomic!After
  <2> QED
    BY <2>1, CommittedWallet
<1>6. balance' = [w \in Wallets |->
                    IF w \in Atomic!Touched(t) THEN Atomic!After(t, w) ELSE balance[w]]
  BY <1>5, SameOperators DEF Commit
<1>7. ledger' = [w \in Wallets |->
                   IF w \in Atomic!Touched(t)
                   THEN Append(ledger[w],
                               Atomic!EntryFor(t, Atomic!IndexOf(t, w), Atomic!After(t, w), id[s]))
                   ELSE ledger[w]]
  BY <1>5, SameOperators DEF Commit
<1>8. status' = status
  BY DEF Commit
<1> QED
  BY <1>2, <1>3, <1>4, <1>6, <1>7, <1>8 DEF Atomic!Post

LEMMA StepRefines ==
    ASSUME IInv, [Next]_vars
    PROVE  [Atomic!Next]_(Atomic!ledgerVars)
<1>1. CASE UNCHANGED vars
  BY <1>1 DEF vars, Atomic!ledgerVars
<1>2. ASSUME NEW s \in Sessions, Commit(s)
      PROVE  Atomic!Next
  <2>1. tx[s] \in Transactions
    BY <1>2 DEF IInv, InStep, Commit, Running
  <2> QED
    BY <1>2, <2>1, CommitPosts DEF Atomic!Next
<1>3. ASSUME NEW w \in Wallets, FreezeWallet(w)
      PROVE  Atomic!Next
  BY <1>3 DEF FreezeWallet, Atomic!Next, Atomic!SetStatus
<1>4. ASSUME NEW w \in Wallets, NEW st \in StatusesByHand, SetStatusByHand(w, st)
      PROVE  Atomic!Next
  BY <1>4 DEF SetStatusByHand, Atomic!Next, Atomic!SetStatus
<1>5. ASSUME NEW s \in Sessions, Rollback(s)
      PROVE  UNCHANGED Atomic!ledgerVars
  BY <1>5 DEF Rollback, committed, Atomic!ledgerVars
<1>6. ASSUME NEW s \in Sessions, NEW t \in Transactions, Begin(s, t)
      PROVE  UNCHANGED Atomic!ledgerVars
  BY <1>6 DEF Begin, Atomic!ledgerVars
<1>7. ASSUME NEW s \in Sessions, Step(s)
      PROVE  Atomic!Next \/ UNCHANGED Atomic!ledgerVars
  <2>1. CASE RefuseAmount(s) \/ Refuse(s) \/ WriteFails(s)
    BY <1>5, <2>1 DEF RefuseAmount, Refuse, WriteFails
  <2>2. CASE SelectForUpdate(s) \/ Write(s)
    BY <2>2 DEF SelectForUpdate, Write, Atomic!ledgerVars
  <2>3. CASE Commit(s)
    BY <1>2, <2>3
  <2> QED
    BY <1>7, <2>1, <2>2, <2>3 DEF Step
<1>8. ASSUME NEW s \in Sessions, Abort(s) \/ DeadlockVictim(s)
      PROVE  UNCHANGED Atomic!ledgerVars
  BY <1>5, <1>8 DEF Abort, DeadlockVictim
<1> QED
  BY <1>1, <1>3, <1>4, <1>6, <1>7, <1>8 DEF Next

(* Transactions are atomic: whatever the sessions interleave, abort or     *)
(* deadlock, the committed rows change as if each transaction had posted   *)
(* in one step against the state of that step, and at most once.           *)
THEOREM Refinement == Spec => ImplementsAtomicLedger
<1>1. Init => Atomic!Init
  BY InitRefines
<1>2. IInv /\ [Next]_vars => [Atomic!Next]_(Atomic!ledgerVars)
  BY StepRefines
<1> QED
  BY <1>1, <1>2, Invariance, PTL DEF Spec, ImplementsAtomicLedger, Atomic!Spec

-----------------------------------------------------------------------------
(* III. Internal transfers move money only through the wallets: every step *)
(* of InternalTransfers is a step of WalletLedger or leaves it alone, so   *)
(* that what is proved of the wallets holds of them in every transfer.     *)

(* What the link rests on: a request past the first checks has two wallets *)
(* and a positive amount, so that its postings are a transaction.          *)
RequestSound ==
    \A s \in Sessions : stage[s] # "none" =>
        /\ request[s] \in Requests
        /\ request[s].source # request[s].destination
        /\ request[s].amount > 0

StageTyped == stage \in [Sessions -> {"none", "limit", "begin", "posting"}]
              /\ DOMAIN request = Sessions

TransfersInv == StageTyped /\ RequestSound

LEMMA TransfersInitInv == TransfersInit => TransfersInv
BY DEF TransfersInit, TransfersInv, StageTyped, RequestSound

LEMMA DropInv ==
    ASSUME NEW s \in Sessions, TransfersInv, Drop(s)
    PROVE  TransfersInv'
BY DEF TransfersInv, StageTyped, RequestSound, Drop

LEMMA TransfersNextInv ==
    TransfersInv /\ [TransfersNext]_transferVars => TransfersInv'
<1> SUFFICES ASSUME TransfersInv, [TransfersNext]_transferVars
             PROVE  TransfersInv'
    OBVIOUS
<1>1. ASSUME NEW s \in Sessions, NEW r \in Requests, ReadParties(s, r)
      PROVE  TransfersInv'
    BY <1>1 DEF TransfersInv, StageTyped, RequestSound, ReadParties
<1>2. ASSUME NEW s \in Sessions, PassDailyLimit(s)
      PROVE  TransfersInv'
    BY <1>2 DEF TransfersInv, StageTyped, RequestSound, PassDailyLimit
<1>3. ASSUME NEW s \in Sessions,
             \/ ExceedDailyLimit(s)
             \/ CompleteTransfer(s)
             \/ FailTransfer(s)
             \/ LoseRequest(s)
      PROVE  TransfersInv'
    <2>1. Drop(s)
        BY <1>3 DEF ExceedDailyLimit, CompleteTransfer, FailTransfer, LoseRequest
    <2> QED
        BY <2>1, DropInv
<1>4. ASSUME NEW s \in Sessions, BeginTransfer(s)
      PROVE  TransfersInv'
    BY <1>4 DEF TransfersInv, StageTyped, RequestSound, BeginTransfer
<1>5. CASE UNCHANGED <<stage, request>>
    BY <1>5 DEF TransfersInv, StageTyped, RequestSound
<1>6. ASSUME NEW s \in Sessions, PostLedger(s)
      PROVE  UNCHANGED <<stage, request>>
    BY <1>6 DEF PostLedger, requestVars
<1>7. ASSUME NEW u \in Users, NEW tier \in TiersByHand[u], SetTier(u, tier)
      PROVE  UNCHANGED <<stage, request>>
    BY <1>7 DEF SetTier, requestVars
<1>8. ASSUME NEW d \in Deposits, DepositProcessing(d)
      PROVE  UNCHANGED <<stage, request>>
    BY <1>8 DEF DepositProcessing, requestVars
<1>9. ASSUME NEW w \in Wallets, Freeze(w)
      PROVE  UNCHANGED <<stage, request>>
    BY <1>9 DEF Freeze, requestVars
<1>10. CASE Tick
    BY <1>5, <1>10 DEF Tick, requestVars
<1>11. CASE UNCHANGED transferVars
    BY <1>5, <1>11 DEF transferVars, requestVars
<1> QED
    BY <1>1, <1>2, <1>3, <1>4, <1>5, <1>6, <1>7, <1>8, <1>9, <1>10, <1>11
    DEF TransfersNext

-----------------------------------------------------------------------------
(* A step of the transfers, seen from the wallets.                         *)
LEMMA StepsOfTheLedger ==
    TransfersInv /\ [TransfersNext]_transferVars => [Next]_vars
<1> SUFFICES ASSUME TransfersInv, [TransfersNext]_transferVars
             PROVE  [Next]_vars
    OBVIOUS
<1>1. ASSUME NEW s \in Sessions, NEW r \in Requests, ReadParties(s, r)
      PROVE  UNCHANGED vars
    BY <1>1 DEF ReadParties
<1>2. ASSUME NEW s \in Sessions,
             PassDailyLimit(s) \/ ExceedDailyLimit(s) \/ LoseRequest(s)
      PROVE  UNCHANGED vars
    BY <1>2 DEF PassDailyLimit, ExceedDailyLimit, LoseRequest
<1>3. ASSUME NEW s \in Sessions, BeginTransfer(s)
      PROVE  Next
    <2>1. TransactionOf(request[s]) \in Transactions
        BY <1>3, RequestsAssumption DEF BeginTransfer, TransfersInv, RequestSound, SoundRequests
    <2>2. Begin(s, TransactionOf(request[s]))
        BY <1>3 DEF BeginTransfer
    <2> QED
        BY <2>1, <2>2 DEF Next
<1>4. ASSUME NEW s \in Sessions, PostLedger(s) \/ CompleteTransfer(s)
      PROVE  Next
    <2>1. SelectForUpdate(s) \/ Write(s) \/ Commit(s)
        BY <1>4 DEF PostLedger, CompleteTransfer
    <2>2. Step(s)
        BY <2>1 DEF Step
    <2> QED
        BY <2>2 DEF Next
<1>5. ASSUME NEW s \in Sessions, FailTransfer(s)
      PROVE  Next
    <2>1. Refuse(s) \/ WriteFails(s) \/ Abort(s) \/ DeadlockVictim(s)
        BY <1>5 DEF FailTransfer
    <2>2. Step(s) \/ Abort(s) \/ DeadlockVictim(s)
        BY <2>1 DEF Step
    <2> QED
        BY <2>2 DEF Next
<1>6. ASSUME NEW u \in Users, NEW tier \in TiersByHand[u], SetTier(u, tier)
      PROVE  UNCHANGED vars
    BY <1>6 DEF SetTier
<1>7. ASSUME NEW d \in Deposits, DepositProcessing(d)
      PROVE  UNCHANGED vars
    BY <1>7 DEF DepositProcessing
<1>8. ASSUME NEW w \in Wallets, Freeze(w)
      PROVE  Next
    BY <1>8 DEF Freeze, Next
<1>9. CASE Tick
    BY <1>9 DEF Tick
<1>10. CASE UNCHANGED transferVars
    BY <1>10 DEF transferVars
<1> QED
    BY <1>1, <1>2, <1>3, <1>4, <1>5, <1>6, <1>7, <1>8, <1>9, <1>10
    DEF TransfersNext

(* Every behaviour of the transfers is one of the wallets.                 *)
THEOREM TransfersUseTheLedger == TransfersSpec => Spec
<1>1. TransfersInit => Init
    BY DEF TransfersInit
<1> QED
    BY <1>1, TransfersInitInv, TransfersNextInv, StepsOfTheLedger, PTL
    DEF TransfersSpec, Spec

(* The lost update is excluded for concurrent internal transfers too: no   *)
(* ledger row follows from a balance that another transfer has replaced.   *)
THEOREM NoLostTransfer == TransfersSpec => []LedgerChained
BY TransfersUseTheLedger, NoLostUpdate, PTL

-----------------------------------------------------------------------------
(* The request and the ledger transaction of a session, in step.           *)
LEMMA IdleInStep ==
    ASSUME TransfersTypeOK, IInv, NEW s \in Sessions, Drop(s),
           \/ UNCHANGED vars /\ stage[s] # "posting"
           \/ Finish(s),
           UNCHANGED <<kycTier, clock>>
    PROVE  TransfersTypeOK'
<1>1. /\ stage' = [stage EXCEPT ![s] = "none"] /\ request' = [request EXCEPT ![s] = NoRequest]
      /\ tierSeen' = [tierSeen EXCEPT ![s] = 0] /\ createdAt' = [createdAt EXCEPT ![s] = 0]
  BY DEF Drop
<1>2. 0 \in 0..MaxTime /\ 0 \in 0..Unlimited
  BY RequestsAssumption
<1>3. pc \in [Sessions -> {"idle", "select", "check", "commit"}] /\ DOMAIN tx = Sessions
  BY DEF IInv, TypeOK
<1>4. /\ ~Running(s)'
      /\ \A u \in Sessions \ {s} : pc'[u] = pc[u] /\ tx'[u] = tx[u]
  <2>1. CASE UNCHANGED vars /\ stage[s] # "posting"
    BY <2>1 DEF vars, TransfersTypeOK, Running
  <2>2. CASE Finish(s)
    BY <1>3, <2>2 DEF Finish, Running
  <2> QED
    BY <2>1, <2>2
<1>5. /\ kycTier' \in [Users -> 0..Unlimited] /\ clock' \in 0..MaxTime
      /\ stage' \in [Sessions -> {"none", "limit", "begin", "posting"}]
      /\ request' \in [Sessions -> Requests \union {NoRequest}]
      /\ tierSeen' \in [Sessions -> 0..Unlimited] /\ createdAt' \in [Sessions -> 0..MaxTime]
  BY <1>1, <1>2 DEF TransfersTypeOK
<1>6. ASSUME NEW u \in Sessions
      PROVE  /\ stage'[u] = "posting" <=> Running(u)'
             /\ stage'[u] = "posting" => tx'[u] = TransactionOf(request'[u])
             /\ stage'[u] = "none" <=> request'[u] = NoRequest
  <2>1. CASE u = s
    BY <1>1, <1>4, <2>1 DEF TransfersTypeOK, Running
  <2>2. CASE u # s
    BY <1>1, <1>4, <2>2 DEF TransfersTypeOK, Running
  <2> QED
    BY <2>1, <2>2
<1> QED
  BY <1>5, <1>6 DEF TransfersTypeOK, Running

LEMMA AdvanceInStep ==
    ASSUME TransfersInv, TransfersTypeOK, IInv, NEW s \in Sessions,
           \/ \E r \in Requests : ReadParties(s, r)
           \/ PassDailyLimit(s) \/ BeginTransfer(s) \/ PostLedger(s)
    PROVE  TransfersTypeOK'
<1>1. pc \in [Sessions -> {"idle", "select", "check", "commit"}] /\ DOMAIN tx = Sessions
  BY DEF IInv, TypeOK
<1>2. ASSUME NEW r \in Requests, ReadParties(s, r)
      PROVE  TransfersTypeOK'
  <2>1. r # NoRequest /\ kycTier[r.user] \in 0..Unlimited
    <3>1. r.user \in Users
      <4>1. r \in SoundRequests
        BY <1>2 DEF ReadParties, SoundRequests
      <4>2. TransactionOf(r) \in Transactions /\ TransactionOf(r).user = r.user
        BY <4>1, RequestsAssumption DEF TransactionOf
      <4> QED
        BY <4>2, PostingsAssumption
    <3> QED
      BY <3>1, RequestsAssumption DEF TransfersTypeOK
  <2> QED
    BY <1>2, <2>1 DEF ReadParties, TransfersTypeOK, Running, vars
<1>3. CASE PassDailyLimit(s)
  BY <1>3 DEF PassDailyLimit, TransfersTypeOK, Running, vars
<1>4. CASE BeginTransfer(s)
  <2>1. /\ stage[s] = "begin" /\ stage' = [stage EXCEPT ![s] = "posting"]
        /\ createdAt' = [createdAt EXCEPT ![s] = clock]
        /\ tx' = [tx EXCEPT ![s] = TransactionOf(request[s])]
        /\ pc' = [pc EXCEPT ![s] = "select"]
        /\ UNCHANGED <<kycTier, clock, request, tierSeen>>
    BY <1>4 DEF BeginTransfer, Begin
  <2> QED
    BY <1>1, <2>1 DEF TransfersTypeOK, Running
<1>5. CASE PostLedger(s)
  <2>1. UNCHANGED <<tx, kycTier, clock, stage, request, tierSeen, createdAt>>
    BY <1>5 DEF PostLedger, SelectForUpdate, Write, requestVars
  <2>2. \A u \in Sessions : Running(u)' <=> Running(u)
    <3>1. \E place \in {"select", "check", "commit"} : pc' = [pc EXCEPT ![s] = place]
      BY <1>5 DEF PostLedger, SelectForUpdate, Write
    <3>2. pc[s] # "idle"
      BY <1>5 DEF PostLedger, SelectForUpdate, Write
    <3> QED
      BY <1>1, <3>1, <3>2 DEF Running
  <2> QED
    BY <2>1, <2>2 DEF TransfersTypeOK
<1> QED
  BY <1>2, <1>3, <1>4, <1>5

LEMMA StagesInStep ==
    TransfersInv /\ IInv /\ TransfersTypeOK /\ [TransfersNext]_transferVars => TransfersTypeOK'
<1> SUFFICES ASSUME TransfersInv, IInv, TransfersTypeOK, [TransfersNext]_transferVars
             PROVE  TransfersTypeOK'
  OBVIOUS
<1>1. ASSUME UNCHANGED <<requestVars, pc, tx>>,
             kycTier' \in [Users -> 0..Unlimited], clock' \in 0..MaxTime
      PROVE  TransfersTypeOK'
  BY <1>1 DEF TransfersTypeOK, requestVars, Running
<1>2. ASSUME NEW s \in Sessions,
             \/ ExceedDailyLimit(s) \/ CompleteTransfer(s)
             \/ FailTransfer(s) \/ LoseRequest(s)
      PROVE  TransfersTypeOK'
  <2>1. /\ Drop(s) /\ UNCHANGED <<kycTier, clock>>
        /\ (UNCHANGED vars /\ stage[s] # "posting") \/ Finish(s)
    BY <1>2 DEF ExceedDailyLimit, CompleteTransfer, FailTransfer, LoseRequest, Commit,
                Refuse, WriteFails, Abort, DeadlockVictim, Rollback
  <2> QED
    BY <2>1, IdleInStep
<1>3. ASSUME NEW u \in Users, NEW tier \in TiersByHand[u], SetTier(u, tier)
      PROVE  TransfersTypeOK'
  <2>1. tier \in 0..Unlimited
    BY RequestsAssumption
  <2>2. /\ UNCHANGED <<requestVars, pc, tx, clock>>
        /\ kycTier' = [kycTier EXCEPT ![u] = tier]
    BY <1>3 DEF SetTier, vars
  <2> QED
    BY <1>1, <2>1, <2>2 DEF TransfersTypeOK
<1>4. ASSUME NEW d \in Deposits, DepositProcessing(d)
      PROVE  TransfersTypeOK'
  BY <1>1, <1>4 DEF DepositProcessing, vars, TransfersTypeOK
<1>5. ASSUME NEW w \in Wallets, Freeze(w)
      PROVE  TransfersTypeOK'
  BY <1>1, <1>5 DEF Freeze, FreezeWallet, private, TransfersTypeOK
<1>6. CASE Tick
  <2>1. clock' \in 0..MaxTime
    BY <1>6, RequestsAssumption DEF Tick, TransfersTypeOK
  <2> QED
    BY <1>1, <1>6, <2>1 DEF Tick, vars, TransfersTypeOK
<1>7. CASE UNCHANGED transferVars
  BY <1>1, <1>7 DEF transferVars, vars, TransfersTypeOK
<1> QED
  BY <1>2, <1>3, <1>4, <1>5, <1>6, <1>7, AdvanceInStep DEF TransfersNext

LEMMA StagesInitially == TransfersInit => TransfersTypeOK
<1> SUFFICES ASSUME TransfersInit PROVE TransfersTypeOK
  OBVIOUS
<1>1. kycTier \in [Users -> 0..Unlimited] /\ 0 \in 0..MaxTime /\ 0 \in 0..Unlimited
  BY RequestsAssumption DEF TransfersInit
<1> QED
  BY <1>1 DEF TransfersInit, Init, TransfersTypeOK, Running

(* A session is inside a ledger transaction exactly while its request is   *)
(* posting, and that transaction is the request's.                         *)
THEOREM StagesFollowLedger == TransfersSpec => []TransfersTypeOK
BY TransfersUseTheLedger, Invariance, StagesInitially, StagesInStep,
   TransfersInitInv, TransfersNextInv, PTL DEF TransfersSpec

-----------------------------------------------------------------------------
(* The rows of the transfers table, by what writes them.                   *)
TransferRow(r, n, time, tier) ==
    [id |-> n, type |-> "internal", status |-> "completed", user |-> r.user,
     source |-> r.source, destination |-> r.destination, currency |-> r.currency,
     amount |-> r.amount, fee |-> FeeOf(r), createdAt |-> time, tier |-> tier]

DepositRow(d, time) ==
    [id |-> 0, type |-> "deposit", status |-> "processing", user |-> d.user,
     currency |-> d.currency, amount |-> d.amount, createdAt |-> time]

RowSet ==
    {TransferRow(r, n, time, tier) :
        r \in SoundRequests, n \in Nat, time \in 0..MaxTime, tier \in 0..Unlimited}
    \union {DepositRow(d, time) : d \in Deposits, time \in 0..MaxTime}

RowsInv == rows \in Seq(RowSet) /\ RowsMatchLedger

LEMMA InternalRowTyped ==
    ASSUME rows \in Seq(RowSet), NEW k \in InternalRows
    PROVE  rows[k].source \in Wallets /\ rows[k].destination \in Wallets
<1>1. rows[k] \in RowSet /\ rows[k].type = "internal"
  BY DEF InternalRows
<1>2. PICK r \in SoundRequests, n \in Nat, time \in 0..MaxTime, tier \in 0..Unlimited :
          rows[k] = TransferRow(r, n, time, tier)
  BY <1>1 DEF RowSet, DepositRow
<1>3. TransactionOf(r) \in Transactions
  BY RequestsAssumption DEF SoundRequests
<1>4. /\ Len(TransactionOf(r).postings) = 2
      /\ TransactionOf(r).postings[1].wallet = r.source
      /\ TransactionOf(r).postings[2].wallet = r.destination
  BY DEF TransactionOf
<1>5. r.source \in Wallets /\ r.destination \in Wallets
  <2>1. 1 \in 1..Len(TransactionOf(r).postings) /\ 2 \in 1..Len(TransactionOf(r).postings)
    BY <1>4
  <2> QED
    BY <1>3, <1>4, <2>1, PostingTyped
<1> QED
  BY <1>2, <1>5 DEF TransferRow

LEMMA InitRows == TransfersInit => RowsInv
<1> SUFFICES ASSUME TransfersInit PROVE RowsInv
  OBVIOUS
<1>1. rows = <<>> /\ ledger = [w \in Wallets |-> OpeningLedger(w)]
  BY DEF TransfersInit, Init
<1>2. InternalRows = {}
  BY <1>1 DEF InternalRows
<1>3. ASSUME NEW w \in Wallets, NEW i \in 1..Len(ledger[w]) PROVE ledger[w][i].transferId = 0
  BY <1>1, OpeningRows
<1> QED
  BY <1>1, <1>2, <1>3 DEF RowsInv, RowsMatchLedger

(* Only a transfer that completes writes to both tables.                   *)
LEMMA OtherStepsWriteNothing ==
    ASSUME [TransfersNext]_transferVars,
           ~ \E s \in Sessions : CompleteTransfer(s),
           ~ \E d \in Deposits : DepositProcessing(d)
    PROVE  rows' = rows /\ ledger' = ledger
<1>1. ASSUME NEW s \in Sessions, FailTransfer(s) PROVE rows' = rows /\ ledger' = ledger
  BY <1>1 DEF FailTransfer, Refuse, WriteFails, Abort, DeadlockVictim, Rollback, committed
<1>2. ASSUME NEW s \in Sessions, PostLedger(s) PROVE rows' = rows /\ ledger' = ledger
  BY <1>2 DEF PostLedger, SelectForUpdate, Write
<1>3. ASSUME NEW s \in Sessions,
             \/ \E r \in Requests : ReadParties(s, r)
             \/ PassDailyLimit(s) \/ ExceedDailyLimit(s) \/ LoseRequest(s)
             \/ BeginTransfer(s)
      PROVE  rows' = rows /\ ledger' = ledger
  BY <1>3 DEF ReadParties, PassDailyLimit, ExceedDailyLimit, LoseRequest, BeginTransfer, Begin,
              vars
<1>4. ASSUME \/ \E u \in Users : \E tier \in TiersByHand[u] : SetTier(u, tier)
             \/ \E w \in Wallets : Freeze(w)
             \/ Tick
      PROVE  rows' = rows /\ ledger' = ledger
  BY <1>4 DEF SetTier, Freeze, FreezeWallet, Tick, vars
<1>5. CASE UNCHANGED transferVars
  BY <1>5 DEF transferVars, vars
<1> QED
  BY <1>1, <1>2, <1>3, <1>4, <1>5 DEF TransfersNext

LEMMA SameRowsMatch ==
    ASSUME RowsMatchLedger, ledger' = ledger, InternalRows' = InternalRows,
           \A k \in InternalRows : rows'[k] = rows[k]
    PROVE  RowsMatchLedger'
<1>1. ASSUME NEW k \in InternalRows
      PROVE  LET t == rows'[k]
             IN  /\ Cardinality(PostingsOf(ledger'[t.source], t.id, "debit",
                                           TotalDebit(t.amount, t.fee))) = 1
                 /\ Cardinality(PostingsOf(ledger'[t.destination], t.id, "credit",
                                           t.amount)) = 1
  BY DEF RowsMatchLedger
<1>2. ASSUME NEW w \in Wallets, NEW i \in 1..Len(ledger[w]), ledger[w][i].transferId # 0
      PROVE  \E k \in InternalRows :
                 /\ rows'[k].id = ledger[w][i].transferId
                 /\ w = IF ledger[w][i].type = "debit" THEN rows'[k].source
                                                      ELSE rows'[k].destination
  <2>1. PICK k \in InternalRows :
            /\ rows[k].id = ledger[w][i].transferId
            /\ w = IF ledger[w][i].type = "debit" THEN rows[k].source ELSE rows[k].destination
    BY <1>2 DEF RowsMatchLedger
  <2>2. rows'[k] = rows[k]
    OBVIOUS
  <2> QED
    BY <2>1, <2>2
<1> QED
  BY <1>1, <1>2 DEF RowsMatchLedger

(* A deposit's row is no row of an internal transfer.                      *)
LEMMA DepositRows ==
    ASSUME RowsInv, clock \in 0..MaxTime, NEW d \in Deposits, DepositProcessing(d)
    PROVE  RowsInv'
<1> DEFINE x == DepositRow(d, clock)
<1>1. rows' = Append(rows, x) /\ ledger' = ledger /\ x \in RowSet /\ x.type = "deposit"
  BY DEF DepositProcessing, DepositRow, RowSet, vars
<1> HIDE DEF x
<1>2. /\ rows \in Seq(RowSet) /\ rows' \in Seq(RowSet) /\ Len(rows) \in Nat
      /\ DOMAIN rows = 1..Len(rows) /\ DOMAIN rows' = 1..(Len(rows) + 1)
      /\ rows'[Len(rows) + 1] = x /\ \A k \in DOMAIN rows : rows'[k] = rows[k]
  BY <1>1 DEF RowsInv
<1>3. InternalRows' = InternalRows
  BY <1>1, <1>2 DEF InternalRows
<1>4. \A k \in InternalRows : rows'[k] = rows[k]
  BY <1>2 DEF InternalRows
<1> QED
  BY <1>1, <1>2, <1>3, <1>4, SameRowsMatch DEF RowsInv

(* What the COMMIT of an internal transfer adds to the ledger.             *)
LEMMA TransferCommitted ==
    ASSUME IInv, TransfersInv, TransfersTypeOK, NEW s \in Sessions, CompleteTransfer(s)
    PROVE  LET r == request[s]
           IN  /\ r \in SoundRequests /\ Running(s) /\ id[s] \in Nat /\ id[s] # 0
               /\ r.source \in Wallets /\ r.destination \in Wallets /\ r.source # r.destination
               /\ \E e \in Entry : /\ ledger'[r.source] = Append(ledger[r.source], e)
                                   /\ e.type = "debit"
                                   /\ e.amount = TotalDebit(r.amount, FeeOf(r))
                                   /\ e.transferId = id[s]
               /\ \E e \in Entry : /\ ledger'[r.destination] = Append(ledger[r.destination], e)
                                   /\ e.type = "credit" /\ e.amount = r.amount
                                   /\ e.transferId = id[s]
               /\ \A w \in Wallets \ {r.source, r.destination} : ledger'[w] = ledger[w]
<1> DEFINE r == request[s]
           t == TransactionOf(r)
<1>1. Commit(s) /\ stage[s] = "posting"
  BY DEF CompleteTransfer
<1>2. r \in SoundRequests /\ t \in Transactions /\ tx[s] = t /\ Running(s)
  BY <1>1, RequestsAssumption DEF TransfersInv, RequestSound, TransfersTypeOK, SoundRequests
<1>3. id[s] \in Nat /\ id[s] # 0
  BY <1>2, SessionsAssumption DEF IInv, IdsUnique, TypeOK
<1>4. /\ Len(t.postings) = 2
      /\ t.postings[1].wallet = r.source /\ t.postings[1].type = "debit"
      /\ t.postings[1].amount = TotalDebit(r.amount, FeeOf(r))
      /\ t.postings[2].wallet = r.destination /\ t.postings[2].type = "credit"
      /\ t.postings[2].amount = r.amount
  BY DEF TransactionOf
<1> HIDE DEF t
<1>5. /\ 1 \in 1..Len(t.postings) /\ 2 \in 1..Len(t.postings)
      /\ \A i \in 1..Len(t.postings) : i = 1 \/ i = 2
  BY <1>4
<1>6. IndexOf(t, r.source) = 1 /\ IndexOf(t, r.destination) = 2
  BY <1>2, <1>4, <1>5, IndexOfPosting
<1>7. Touched(t) = {r.source, r.destination}
  BY <1>4, <1>5 DEF Touched
<1>8. r.source \in Wallets /\ r.destination \in Wallets
  BY <1>2, <1>4, <1>5, PostingTyped
<1>9. /\ \E e \in Entry : /\ ledger'[r.source] = Append(ledger[r.source], e)
                          /\ e.type = "debit"
                          /\ e.amount = TotalDebit(r.amount, FeeOf(r))
                          /\ e.transferId = id[s]
      /\ \E e \in Entry : /\ ledger'[r.destination] = Append(ledger[r.destination], e)
                          /\ e.type = "credit" /\ e.amount = r.amount
                          /\ e.transferId = id[s]
  <2>1. r.source \in Touched(tx[s]) /\ r.destination \in Touched(tx[s])
    BY <1>2, <1>7
  <2> DEFINE debit == EntryFor(tx[s], IndexOf(tx[s], r.source), Written(s, r.source), id[s])
             credit == EntryFor(tx[s], IndexOf(tx[s], r.destination),
                                Written(s, r.destination), id[s])
  <2>2. /\ ledger'[r.source] = Append(ledger[r.source], debit) /\ debit \in Entry
        /\ debit.type = tx[s].postings[IndexOf(tx[s], r.source)].type
        /\ debit.amount = tx[s].postings[IndexOf(tx[s], r.source)].amount
        /\ debit.transferId = id[s]
    BY <1>1, <2>1, CommittedWallet
  <2>3. /\ ledger'[r.destination] = Append(ledger[r.destination], credit) /\ credit \in Entry
        /\ credit.type = tx[s].postings[IndexOf(tx[s], r.destination)].type
        /\ credit.amount = tx[s].postings[IndexOf(tx[s], r.destination)].amount
        /\ credit.transferId = id[s]
    BY <1>1, <2>1, CommittedWallet
  <2> HIDE DEF debit, credit, r
  <2> QED
    BY <1>2, <1>4, <1>6, <2>2, <2>3
<1>10. \A w \in Wallets \ {r.source, r.destination} : ledger'[w] = ledger[w]
  BY <1>1, <1>2, <1>7, UntouchedWallet
<1>11. r.source # r.destination
  BY <1>2 DEF SoundRequests
<1> QED
  BY <1>2, <1>3, <1>8, <1>9, <1>10, <1>11

(* A ledger row of another transfer does not change what a transfer posted.*)
LEMMA PostingsKept ==
    ASSUME NEW l \in Seq(Entry), NEW l2, NEW n, NEW type, NEW amount,
           \/ l2 = l
           \/ \E e \in Entry : l2 = Append(l, e) /\ e.transferId # n
    PROVE  PostingsOf(l2, n, type, amount) = PostingsOf(l, n, type, amount)
<1>1. CASE l2 = l
  BY <1>1
<1>2. ASSUME NEW e \in Entry, l2 = Append(l, e), e.transferId # n
      PROVE  PostingsOf(l2, n, type, amount) = PostingsOf(l, n, type, amount)
  <2>1. /\ Len(l) \in Nat /\ Len(l2) = Len(l) + 1
        /\ \A i \in 1..Len(l) : l2[i] = l[i]
        /\ l2[Len(l) + 1] = e
    BY <1>2
  <2> QED
    BY <1>2, <2>1 DEF PostingsOf
<1> QED
  BY <1>1, <1>2

(* A new transferId is posted once.                                        *)
LEMMA PostedOnce ==
    ASSUME NEW l \in Seq(Entry), NEW e \in Entry,
           \A i \in 1..Len(l) : l[i].transferId # e.transferId
    PROVE  Cardinality(PostingsOf(Append(l, e), e.transferId, e.type, e.amount)) = 1
<1> DEFINE l2 == Append(l, e)
<1>1. /\ Len(l) \in Nat /\ Len(l2) = Len(l) + 1
      /\ \A i \in 1..Len(l) : l2[i] = l[i]
      /\ l2[Len(l) + 1] = e
  OBVIOUS
<1> HIDE DEF l2
<1>2. PostingsOf(l2, e.transferId, e.type, e.amount) = {Len(l) + 1}
  BY <1>1 DEF PostingsOf
<1> QED
  BY <1>2, FS_Singleton DEF l2

LEMMA CompletedRows ==
    ASSUME IInv, TransfersInv, TransfersTypeOK, RowsInv, NEW s \in Sessions, CompleteTransfer(s)
    PROVE  RowsInv'
<1> DEFINE r == request[s]
           x == RowOf(s)
           m == Len(rows) + 1
<1>1. /\ r \in SoundRequests /\ Running(s) /\ id[s] \in Nat /\ id[s] # 0
      /\ r.source \in Wallets /\ r.destination \in Wallets /\ r.source # r.destination
      /\ \A w \in Wallets \ {r.source, r.destination} : ledger'[w] = ledger[w]
  BY TransferCommitted
<1>2. PICK debit \in Entry : /\ ledger'[r.source] = Append(ledger[r.source], debit)
                             /\ debit.type = "debit"
                             /\ debit.amount = TotalDebit(r.amount, FeeOf(r))
                             /\ debit.transferId = id[s]
  BY TransferCommitted
<1>3. PICK credit \in Entry : /\ ledger'[r.destination] = Append(ledger[r.destination], credit)
                              /\ credit.type = "credit" /\ credit.amount = r.amount
                              /\ credit.transferId = id[s]
  BY TransferCommitted
<1>4. /\ rows' = Append(rows, x) /\ x \in RowSet
      /\ x.type = "internal" /\ x.id = id[s] /\ x.source = r.source
      /\ x.destination = r.destination /\ x.amount = r.amount /\ x.fee = FeeOf(r)
  <2>1. x = TransferRow(r, id[s], createdAt[s], tierSeen[s])
    BY DEF RowOf, TransferRow
  <2>2. createdAt[s] \in 0..MaxTime /\ tierSeen[s] \in 0..Unlimited
    BY DEF TransfersTypeOK
  <2>3. rows' = Append(rows, x)
    BY DEF CompleteTransfer
  <2> HIDE DEF x
  <2>4. x \in RowSet
    BY <1>1, <2>1, <2>2 DEF RowSet
  <2> QED
    BY <2>1, <2>3, <2>4 DEF TransferRow
<1> HIDE DEF x
<1>5. /\ rows \in Seq(RowSet) /\ rows' \in Seq(RowSet) /\ Len(rows) \in Nat
      /\ DOMAIN rows = 1..Len(rows) /\ DOMAIN rows' = 1..m
      /\ rows'[m] = x /\ \A k \in DOMAIN rows : rows'[k] = rows[k]
  BY <1>4 DEF RowsInv
<1>6. /\ InternalRows' = InternalRows \union {m}
      /\ \A k \in InternalRows : rows'[k] = rows[k] /\ k # m
  BY <1>4, <1>5 DEF InternalRows
<1>7. \A w \in Wallets : ledger[w] \in Seq(Entry)
  BY DEF IInv, TypeOK
<1>8. \A w \in Wallets : \A i \in 1..Len(ledger[w]) : ledger[w][i].transferId # id[s]
  BY <1>1 DEF IInv, IdsUnique
<1>9. ASSUME NEW w \in Wallets, NEW n, n # id[s], NEW type, NEW amount
      PROVE  PostingsOf(ledger'[w], n, type, amount) = PostingsOf(ledger[w], n, type, amount)
  <2>1. \/ ledger'[w] = ledger[w]
        \/ \E e \in Entry : ledger'[w] = Append(ledger[w], e) /\ e.transferId = id[s]
    BY <1>1, <1>2, <1>3
  <2>2. ledger[w] \in Seq(Entry)
    BY <1>7
  <2> QED
    BY <1>9, <2>1, <2>2, PostingsKept
<1>10. ASSUME NEW k \in InternalRows'
       PROVE  LET t == rows'[k]
              IN  /\ Cardinality(PostingsOf(ledger'[t.source], t.id, "debit",
                                            TotalDebit(t.amount, t.fee))) = 1
                  /\ Cardinality(PostingsOf(ledger'[t.destination], t.id, "credit",
                                            t.amount)) = 1
  <2>1. CASE k = m
    <3>1. Cardinality(PostingsOf(ledger'[r.source], id[s], "debit",
                                 TotalDebit(r.amount, FeeOf(r)))) = 1
      BY <1>1, <1>2, <1>7, <1>8, PostedOnce
    <3>2. Cardinality(PostingsOf(ledger'[r.destination], id[s], "credit", r.amount)) = 1
      BY <1>1, <1>3, <1>7, <1>8, PostedOnce
    <3>3. rows'[k] = x
      BY <1>5, <2>1
    <3> HIDE DEF r
    <3> QED
      BY <1>4, <3>1, <3>2, <3>3
  <2>2. CASE k # m
    <3> DEFINE t == rows[k]
    <3>1. k \in InternalRows /\ rows'[k] = t
      BY <1>6, <2>2
    <3>2. /\ Cardinality(PostingsOf(ledger[t.source], t.id, "debit",
                                    TotalDebit(t.amount, t.fee))) = 1
          /\ Cardinality(PostingsOf(ledger[t.destination], t.id, "credit", t.amount)) = 1
          /\ t.source \in Wallets /\ t.destination \in Wallets
      BY <1>5, <3>1, InternalRowTyped DEF RowsInv, RowsMatchLedger
    <3>3. t.id # id[s]
      <4>1. PostingsOf(ledger[t.source], t.id, "debit", TotalDebit(t.amount, t.fee)) # {}
        BY <3>2, FS_EmptySet
      <4> QED
        BY <1>8, <3>2, <4>1 DEF PostingsOf
    <3> HIDE DEF t
    <3> QED
      BY <1>9, <3>1, <3>2, <3>3
  <2> QED
    BY <2>1, <2>2
<1>11. ASSUME NEW w \in Wallets, NEW i \in 1..Len(ledger'[w]), ledger'[w][i].transferId # 0
       PROVE  \E k \in InternalRows' :
                 /\ rows'[k].id = ledger'[w][i].transferId
                 /\ w = IF ledger'[w][i].type = "debit" THEN rows'[k].source
                                                       ELSE rows'[k].destination
  <2>1. CASE i \in 1..Len(ledger[w])
    <3>1. ledger'[w][i] = ledger[w][i]
      <4>1. ledger[w] \in Seq(Entry)
        BY <1>7
      <4>2. ledger'[w] = ledger[w] \/ \E e \in Entry : ledger'[w] = Append(ledger[w], e)
        BY <1>1, <1>2, <1>3
      <4> QED
        BY <2>1, <4>1, <4>2
    <3>2. PICK k \in InternalRows :
              /\ rows[k].id = ledger[w][i].transferId
              /\ w = IF ledger[w][i].type = "debit" THEN rows[k].source ELSE rows[k].destination
      BY <1>11, <2>1, <3>1 DEF RowsInv, RowsMatchLedger
    <3> QED
      BY <1>6, <3>1, <3>2
  <2>2. CASE i \notin 1..Len(ledger[w])
    <3>1. m \in InternalRows' /\ rows'[m] = x
      BY <1>5, <1>6
    <3>2. ledger[w] \in Seq(Entry) /\ ledger'[w] # ledger[w]
      BY <1>7, <2>2
    <3>3. w = r.source \/ w = r.destination
      BY <1>1, <3>2
    <3>4. CASE w = r.source
      <4>1. ledger'[w][i] = debit
        BY <1>2, <2>2, <3>2, <3>4
      <4> QED
        BY <1>2, <1>4, <3>1, <3>4, <4>1
    <3>5. CASE w = r.destination
      <4>1. ledger'[w][i] = credit
        BY <1>3, <2>2, <3>2, <3>5
      <4> QED
        BY <1>3, <1>4, <3>1, <3>5, <4>1
    <3> QED
      BY <3>3, <3>4, <3>5
  <2> QED
    BY <2>1, <2>2
<1> QED
  BY <1>5, <1>10, <1>11 DEF RowsInv, RowsMatchLedger

LEMMA NextRows ==
    IInv /\ TransfersInv /\ TransfersTypeOK /\ RowsInv /\ [TransfersNext]_transferVars => RowsInv'
<1> SUFFICES ASSUME IInv, TransfersInv, TransfersTypeOK, RowsInv, [TransfersNext]_transferVars
             PROVE  RowsInv'
  OBVIOUS
<1>1. CASE \E s \in Sessions : CompleteTransfer(s)
  BY <1>1, CompletedRows
<1>2. CASE \E d \in Deposits : DepositProcessing(d)
  BY <1>2, DepositRows DEF TransfersTypeOK
<1>3. CASE rows' = rows /\ ledger' = ledger
  BY <1>3, SameRowsMatch DEF RowsInv, InternalRows
<1> QED
  BY <1>1, <1>2, <1>3, OtherStepsWriteNothing

(* A completed internal transfer stands for exactly one debit of amount    *)
(* plus fee and one credit of amount, and no ledger row of a transfer is   *)
(* without its transfer: also when requests fail, die or deadlock.         *)
THEOREM TransfersAreWhole == TransfersSpec => []RowsMatchLedger
<1>1. RowsInv => RowsMatchLedger
  BY DEF RowsInv
<1> QED
  BY <1>1, InitRows, NextRows, TransfersUseTheLedger, Invariance, StagesFollowLedger,
     TransfersInitInv, TransfersNextInv, PTL DEF TransfersSpec

-----------------------------------------------------------------------------
(* How far the daily limit can be overrun.                                 *)

(* The amounts that transfers ask for have a greatest one.                 *)
LEMMA SoundAmounts ==
    ASSUME NEW r \in SoundRequests
    PROVE  r.amount \in Nat /\ LargestAmount \in Nat /\ r.amount <= LargestAmount
<1>1. ASSUME NEW q \in SoundRequests PROVE q.amount \in Nat /\ q.amount <= BigIntMax
  <2> DEFINE t == TransactionOf(q)
  <2>1. /\ t \in Transactions /\ Len(t.postings) = 2
        /\ t.postings[2].amount = q.amount /\ t.postings[2].type = "credit"
    BY RequestsAssumption DEF TransactionOf
  <2> HIDE DEF t
  <2>2. 2 \in 1..Len(t.postings)
    BY <2>1
  <2>3. t.postings[2] \in Posting /\ t.postings[2].amount <= BigIntMax
    BY <2>1, <2>2, PostingsAssumption
  <2>4. q.amount \in Int /\ q.amount > 0
    BY <2>1, <2>3 DEF Posting, SoundRequests
  <2> QED
    BY <2>1, <2>3, <2>4
<1> DEFINE amounts == {q.amount : q \in SoundRequests}
           short == {BigIntMax - a : a \in amounts}
<1>2. /\ amounts \subseteq Nat /\ r.amount \in amounts
      /\ \A a \in amounts : a <= BigIntMax
  BY <1>1
<1> HIDE DEF amounts
<1>3. \E m \in amounts : \A a \in amounts : a <= m
  <2>1. short \subseteq Nat /\ short # {}
    <3>1. \A a \in amounts : BigIntMax - a \in Nat
      BY <1>2, MoneyAssumption
    <3> QED
      BY <1>2, <3>1
  <2>2. PICK least \in short : \A b \in short : least <= b
    <3> HIDE DEF short
    <3> QED
      BY <2>1, LeastNatural
  <2>3. PICK m \in amounts : least = BigIntMax - m
    OBVIOUS
  <2>4. ASSUME NEW a \in amounts PROVE a <= m
    <3>1. BigIntMax - m <= BigIntMax - a
      BY <2>2, <2>3
    <3> QED
      BY <1>2, <3>1, MoneyAssumption
  <2> QED
    BY <2>4
<1>4. LargestAmount \in amounts /\ \A a \in amounts : a <= LargestAmount
  BY <1>3 DEF LargestAmount, amounts
<1> QED
  BY <1>2, <1>4

(* What one row adds to what its user has moved.                           *)
Share(t, u, c, since) ==
    IF /\ t.type = "internal" /\ t.user = u /\ t.currency = c /\ t.createdAt >= since
    THEN t.amount ELSE 0

Shares(table, u, c, since) == [k \in DOMAIN table |-> Share(table[k], u, c, since)]

MovedIn(table, u, c, since) == Total(Shares(table, u, c, since))

LEMMA RowTyped ==
    ASSUME NEW x \in RowSet
    PROVE  /\ x.amount \in Nat /\ x.createdAt \in Nat
           /\ x.type = "internal" => x.tier \in 0..Unlimited
<1>1. CASE \E r \in SoundRequests, n \in Nat, time \in 0..MaxTime, tier \in 0..Unlimited :
               x = TransferRow(r, n, time, tier)
  BY <1>1, SoundAmounts, RequestsAssumption DEF TransferRow
<1>2. CASE \E d \in Deposits, time \in 0..MaxTime : x = DepositRow(d, time)
  BY <1>2, RequestsAssumption DEF DepositRow
<1> QED
  BY <1>1, <1>2 DEF RowSet

LEMMA SharesTyped ==
    ASSUME NEW table \in Seq(RowSet), NEW u, NEW c, NEW since
    PROVE  LET shares == Shares(table, u, c, since)
           IN  /\ shares \in Seq(Int) /\ Len(shares) = Len(table) /\ Len(table) \in Nat
               /\ \A k \in 1..Len(table) : shares[k] = Share(table[k], u, c, since)
<1> DEFINE shares == Shares(table, u, c, since)
<1>1. Len(table) \in Nat /\ DOMAIN table = 1..Len(table)
  OBVIOUS
<1>2. \A k \in 1..Len(table) : Share(table[k], u, c, since) \in Int
  BY <1>1, RowTyped DEF Share
<1>3. shares \in [1..Len(table) -> Int]
  BY <1>1, <1>2 DEF Shares
<1>4. \A k \in 1..Len(table) : shares[k] = Share(table[k], u, c, since)
  BY <1>1 DEF Shares
<1> HIDE DEF shares
<1>5. shares \in Seq(Int) /\ Len(shares) = Len(table)
  BY <1>1, <1>3
<1> QED
  BY <1>1, <1>4, <1>5 DEF shares

(* A later start counts less, and a row adds its share.                    *)
LEMMA MovedFacts ==
    ASSUME NEW table \in Seq(RowSet), NEW u, NEW c, NEW since \in Int
    PROVE  /\ MovedIn(table, u, c, since) \in Int
           /\ \A later \in Int :
                 since <= later => MovedIn(table, u, c, later) <= MovedIn(table, u, c, since)
           /\ \A x \in RowSet : MovedIn(Append(table, x), u, c, since)
                                    = MovedIn(table, u, c, since) + Share(x, u, c, since)
           /\ (~ \E k \in DOMAIN table : table[k].type = "internal" /\ table[k].user = u)
                 => MovedIn(table, u, c, since) <= 0
<1> DEFINE len == Len(table)
           v == Shares(table, u, c, since)
<1>1. /\ v \in Seq(Int) /\ Len(v) = len /\ len \in Nat
      /\ \A k \in 1..len : v[k] = Share(table[k], u, c, since)
  BY SharesTyped
<1>2. MovedIn(table, u, c, since) = Total(v)
  BY DEF MovedIn
<1>3. \A k \in 1..len : table[k] \in RowSet
  OBVIOUS
<1>4. DOMAIN table = 1..len
  OBVIOUS
<1> HIDE DEF len, v
<1>5. ASSUME NEW later \in Int, since <= later
      PROVE  MovedIn(table, u, c, later) <= MovedIn(table, u, c, since)
  <2> DEFINE w == Shares(table, u, c, later)
  <2>1. /\ w \in Seq(Int) /\ Len(w) = len
        /\ \A k \in 1..len : w[k] = Share(table[k], u, c, later)
    BY SharesTyped DEF len
  <2>2. MovedIn(table, u, c, later) = Total(w)
    BY DEF MovedIn
  <2> HIDE DEF w
  <2>3. ASSUME NEW k \in 1..len PROVE w[k] <= v[k]
    <3>1. table[k].amount \in Nat /\ table[k].createdAt \in Nat
      BY <1>3, RowTyped
    <3>2. w[k] = Share(table[k], u, c, later) /\ v[k] = Share(table[k], u, c, since)
      BY <1>1, <2>1
    <3> QED
      BY <1>5, <3>1, <3>2 DEF Share
  <2> QED
    BY <1>1, <1>2, <2>1, <2>2, <2>3, TotalFacts
<1>6. ASSUME NEW x \in RowSet, NEW longer \in Seq(RowSet), longer = Append(table, x)
      PROVE  MovedIn(longer, u, c, since)
                 = MovedIn(table, u, c, since) + Share(x, u, c, since)
  <2> DEFINE w == Shares(longer, u, c, since)
             a == Share(x, u, c, since)
  <2>1. /\ Len(longer) = len + 1 /\ longer[len + 1] = x
        /\ \A k \in 1..len : longer[k] = table[k]
    BY <1>1, <1>6 DEF len
  <2>2. a \in Int
    BY RowTyped DEF Share
  <2>3. /\ w \in Seq(Int) /\ Len(w) = len + 1
        /\ \A k \in 1..(len + 1) : w[k] = Share(longer[k], u, c, since)
    <3>1. /\ w \in Seq(Int) /\ Len(w) = Len(longer)
          /\ \A k \in 1..Len(longer) : w[k] = Share(longer[k], u, c, since)
      BY SharesTyped
    <3> QED
      BY <2>1, <3>1
  <2>4. MovedIn(longer, u, c, since) = Total(w)
    BY DEF MovedIn
  <2> HIDE DEF w
  <2>5. w[len + 1] = a /\ \A k \in 1..len : w[k] = v[k]
    <3>1. len + 1 \in 1..(len + 1) /\ \A k \in 1..len : k \in 1..(len + 1)
      BY <1>1
    <3>2. w[len + 1] = a
      BY <2>1, <2>3, <3>1
    <3>3. ASSUME NEW k \in 1..len PROVE w[k] = v[k]
      BY <1>1, <2>1, <2>3, <3>1
    <3> QED
      BY <3>2, <3>3
  <2> HIDE DEF a
  <2>6. w = Append(v, a)
    BY <1>1, <2>2, <2>3, <2>5
  <2> QED
    BY <1>1, <1>2, <2>2, <2>4, <2>6, TotalFacts DEF a
<1>7. ASSUME ~ \E k \in DOMAIN table : table[k].type = "internal" /\ table[k].user = u
      PROVE  MovedIn(table, u, c, since) <= 0
  <2>1. \A k \in 1..len : v[k] <= 0
    BY <1>1, <1>4, <1>7 DEF Share
  <2> QED
    BY <1>1, <1>2, <2>1, NothingToTotal
<1>8. MovedIn(table, u, c, since) \in Int
  BY <1>1, <1>2, TotalFacts
<1>9. \A x \in RowSet : Append(table, x) \in Seq(RowSet)
  OBVIOUS
<1> QED
  BY <1>5, <1>6, <1>7, <1>8, <1>9

(* assertWithinDailyLimit sums over the deposits too.                      *)
LEMMA DailyTotalCovers ==
    ASSUME rows \in Seq(RowSet), NEW u, NEW c, NEW since \in Int
    PROVE  DailyTotal(u, c, since) \in Int /\ MovedIn(rows, u, c, since) <= DailyTotal(u, c, since)
<1> DEFINE len == Len(rows)
           counted(t) == t.user = u /\ t.currency = c /\ t.createdAt >= since
           v == Shares(rows, u, c, since)
           w == [k \in DOMAIN rows |-> IF counted(rows[k]) THEN rows[k].amount ELSE 0]
<1>1. /\ v \in Seq(Int) /\ Len(v) = len /\ len \in Nat
      /\ \A k \in 1..len : v[k] = Share(rows[k], u, c, since)
  BY SharesTyped
<1>2. MovedIn(rows, u, c, since) = Total(v) /\ DailyTotal(u, c, since) = Total(w)
  BY DEF MovedIn, DailyTotal
<1>3. /\ DOMAIN rows = 1..len
      /\ \A k \in 1..len : rows[k].amount \in Nat
  BY RowTyped
<1>4. w \in Seq(Int) /\ Len(w) = len
  <2>1. w \in [1..len -> Int]
    BY <1>3
  <2> HIDE DEF w, len
  <2> QED
    BY <1>1, <2>1
<1>5. \A k \in 1..len : v[k] <= w[k]
  BY <1>1, <1>3 DEF Share
<1> HIDE DEF v, w, len
<1> QED
  BY <1>1, <1>2, <1>4, <1>5, TotalFacts

(* The start of the day does not go back.                                  *)
LEMMA DayBegins ==
    ASSUME NEW now \in Nat
    PROVE  /\ StartOfDay(now) \in Int /\ StartOfDay(now + 1) \in Int
           /\ StartOfDay(now) <= StartOfDay(now + 1)
<1> DEFINE d == TicksPerDay
           a == now % d
           b == (now + 1) % d
           p == now \div d
           q == (now + 1) \div d
<1>1. d \in Nat /\ d >= 1
  BY RequestsAssumption
<1>2. /\ a \in 0..(d - 1) /\ b \in 0..(d - 1) /\ p \in Int /\ q \in Int
      /\ now = d * p + a /\ now + 1 = d * q + b
  BY <1>1
<1>3. StartOfDay(now) = now - a /\ StartOfDay(now + 1) = now + 1 - b
  BY <1>1, <1>2 DEF StartOfDay
<1> HIDE DEF d, a, b, p, q
<1>4. b <= a + 1
  <2> SUFFICES ASSUME b > a + 1 PROVE FALSE
    BY <1>1, <1>2
  <2>1. d * p - d * q = b - a - 1
    BY <1>1, <1>2
  <2>2. d * p - d * q = d * (p - q)
    BY <1>1, <1>2
  <2>3. CASE p - q <= 0
    <3>1. d * (p - q) <= 0
      BY <1>1, <1>2, <2>3
    <3> QED
      BY <1>1, <1>2, <2>1, <2>2, <3>1
  <2>4. CASE p - q >= 1
    <3>1. d * (p - q) >= d
      BY <1>1, <1>2, <2>4
    <3> QED
      BY <1>1, <1>2, <2>1, <2>2, <3>1
  <2> QED
    BY <1>2, <2>3, <2>4
<1> QED
  BY <1>1, <1>2, <1>3, <1>4

(* The sessions of a user that have passed the check, in one currency.     *)
Pending(u, c) ==
    {s \in Sessions : /\ stage[s] \in {"begin", "posting"}
                      /\ request[s].user = u /\ request[s].currency = c}

Ahead(q, asked) == IF q = NoSession THEN 0 ELSE asked[q].amount

(* What has moved and one of the amounts asked for is within a limit, if   *)
(* every other session is given the largest amount.                        *)
Within(moved, tiers, P, asked) ==
    \E t \in tiers, q \in P \union {NoSession} :
        moved + Ahead(q, asked) + LargestAmount * Cardinality(P \ {q})
            <= DailyLimit[t] + (Cardinality(Sessions) - 1) * LargestAmount

LimitAt(moved, used, seenTier, asked, P) ==
    LET tiers == used \union {seenTier[p] : p \in P}
    IN  tiers # {} /\ Unlimited \notin tiers => Within(moved, tiers, P, asked)

(* Also if only some of the pending sessions go on to complete.            *)
LimitInv ==
    \A u \in Users, c \in Currencies : \A P \in SUBSET Pending(u, c) :
        LimitAt(MovedIn(rows, u, c, StartOfDay(clock)), TiersUsed(u), tierSeen, request, P)

LEMMA InitLimit == TransfersInit => LimitInv
<1> SUFFICES ASSUME TransfersInit, NEW u \in Users, NEW c \in Currencies,
                    NEW P \in SUBSET Pending(u, c)
             PROVE  LimitAt(MovedIn(rows, u, c, StartOfDay(clock)), TiersUsed(u),
                            tierSeen, request, P)
  BY DEF LimitInv
<1>1. P = {} /\ InternalRows = {}
  BY DEF TransfersInit, Pending, InternalRows
<1> QED
  BY <1>1 DEF LimitAt, TiersUsed

(* Moving less keeps the bound.                                            *)
LEMMA LimitFrame ==
    ASSUME NEW moved \in Int, NEW less \in Int, less <= moved, NEW used,
           NEW seenTier, NEW seenTier2, NEW asked, NEW asked2, NEW P \in SUBSET Sessions,
           \A p \in P : seenTier2[p] = seenTier[p] /\ asked2[p] = asked[p],
           \A p \in P : asked[p].amount \in Nat,
           used \subseteq 0..Unlimited, \A p \in P : seenTier[p] \in 0..Unlimited,
           used # {} \/ P # {} => LargestAmount \in Nat,
           LimitAt(moved, used, seenTier, asked, P)
    PROVE  LimitAt(less, used, seenTier2, asked2, P)
<1> DEFINE tiers == used \union {seenTier[p] : p \in P}
           n == Cardinality(Sessions) - 1
<1>1. tiers = used \union {seenTier2[p] : p \in P}
  OBVIOUS
<1> SUFFICES ASSUME tiers # {}, Unlimited \notin tiers
             PROVE  Within(less, tiers, P, asked2)
  BY <1>1 DEF LimitAt
<1>2. LargestAmount \in Nat
  OBVIOUS
<1>3. PICK t \in tiers, q \in P \union {NoSession} :
          moved + Ahead(q, asked) + LargestAmount * Cardinality(P \ {q})
              <= DailyLimit[t] + n * LargestAmount
  BY DEF LimitAt, Within
<1>4. Ahead(q, asked) \in Nat /\ Ahead(q, asked2) = Ahead(q, asked)
  BY <1>3 DEF Ahead
<1>5. Cardinality(P \ {q}) \in Nat /\ n \in Int
  <2>1. IsFiniteSet(Sessions) /\ P \ {q} \in SUBSET Sessions
    BY SessionsAssumption
  <2>2. IsFiniteSet(P \ {q})
    BY <2>1, FS_Subset
  <2> QED
    BY <2>1, <2>2, FS_CardinalityType
<1>6. DailyLimit[t] \in Nat
  <2>1. t \in 0..(Unlimited - 1)
    BY <1>3, RequestsAssumption
  <2> QED
    BY <2>1, RequestsAssumption
<1>7. LargestAmount * Cardinality(P \ {q}) \in Int /\ n * LargestAmount \in Int
  <2> HIDE DEF n
  <2> QED
    BY <1>2, <1>5
<1>8. less + Ahead(q, asked2) + LargestAmount * Cardinality(P \ {q})
          <= DailyLimit[t] + n * LargestAmount
  <2> HIDE DEF n
  <2> QED
    BY <1>3, <1>4, <1>6, <1>7
<1> HIDE DEF tiers
<1> QED
  BY <1>8 DEF Within

(* A session that may move money has passed the check, or passes it now.   *)
LEMMA PendingKept ==
    ASSUME TransfersInv, TransfersTypeOK, [TransfersNext]_transferVars, NEW p \in Sessions,
           stage'[p] \in {"begin", "posting"}, ~PassDailyLimit(p)
    PROVE  /\ stage[p] \in {"begin", "posting"}
           /\ request'[p] = request[p] /\ tierSeen'[p] = tierSeen[p]
<1>1. /\ DOMAIN stage = Sessions /\ DOMAIN request = Sessions /\ DOMAIN tierSeen = Sessions
  BY DEF TransfersTypeOK
<1>2. ASSUME NEW s \in Sessions, NEW r \in Requests, ReadParties(s, r)
      PROVE  s # p /\ UNCHANGED <<stage[p], request[p], tierSeen[p]>>
  BY <1>1, <1>2 DEF ReadParties
<1>3. ASSUME NEW s \in Sessions,
             \/ ExceedDailyLimit(s) \/ CompleteTransfer(s)
             \/ FailTransfer(s) \/ LoseRequest(s)
      PROVE  s # p /\ UNCHANGED <<stage[p], request[p], tierSeen[p]>>
  <2>1. Drop(s)
    BY <1>3 DEF ExceedDailyLimit, CompleteTransfer, FailTransfer, LoseRequest
  <2> QED
    BY <1>1, <2>1 DEF Drop
<1>4. ASSUME NEW s \in Sessions, PassDailyLimit(s)
      PROVE  s # p /\ UNCHANGED <<stage[p], request[p], tierSeen[p]>>
  BY <1>1, <1>4 DEF PassDailyLimit
<1>5. ASSUME NEW s \in Sessions, BeginTransfer(s)
      PROVE  /\ stage[p] \in {"begin", "posting"}
             /\ UNCHANGED <<request[p], tierSeen[p]>>
  BY <1>1, <1>5 DEF BeginTransfer
<1>6. ASSUME NEW s \in Sessions, PostLedger(s)
      PROVE  UNCHANGED requestVars
  BY <1>6 DEF PostLedger
<1>7. ASSUME \/ \E u \in Users : \E tier \in TiersByHand[u] : SetTier(u, tier)
             \/ \E d \in Deposits : DepositProcessing(d)
             \/ \E w \in Wallets : Freeze(w)
             \/ Tick
      PROVE  UNCHANGED requestVars
  BY <1>7 DEF SetTier, DepositProcessing, Freeze, Tick
<1>8. CASE UNCHANGED requestVars
  BY <1>8 DEF requestVars
<1>9. CASE UNCHANGED transferVars
  BY <1>8, <1>9 DEF transferVars
<1> QED
  BY <1>2, <1>3, <1>4, <1>5, <1>6, <1>7, <1>8, <1>9 DEF TransfersNext

(* What the rows and the requests say of tiers and amounts.                *)
LEMMA TiersTyped ==
    ASSUME RowsInv, TransfersInv, TransfersTypeOK, NEW u, NEW c, NEW P \in SUBSET Pending(u, c)
    PROVE  /\ TiersUsed(u) \subseteq 0..Unlimited
           /\ \A p \in P : /\ p \in Sessions /\ request[p] \in SoundRequests
                           /\ tierSeen[p] \in 0..Unlimited /\ request[p].amount \in Nat
                           /\ request[p].amount <= LargestAmount
           /\ TiersUsed(u) # {} \/ P # {} => LargestAmount \in Nat
<1>1. ASSUME NEW p \in P
      PROVE  /\ p \in Sessions /\ request[p] \in SoundRequests
             /\ tierSeen[p] \in 0..Unlimited /\ request[p].amount \in Nat
             /\ request[p].amount <= LargestAmount /\ LargestAmount \in Nat
  <2>1. p \in Sessions /\ stage[p] # "none"
    BY DEF Pending
  <2>2. request[p] \in SoundRequests /\ tierSeen[p] \in 0..Unlimited
    BY <2>1 DEF TransfersInv, RequestSound, SoundRequests, TransfersTypeOK
  <2> QED
    BY <2>1, <2>2, SoundAmounts
<1>2. ASSUME NEW k \in InternalRows
      PROVE  rows[k].tier \in 0..Unlimited /\ LargestAmount \in Nat
  <2>1. rows[k] \in RowSet /\ rows[k].type = "internal"
    BY DEF InternalRows, RowsInv
  <2>2. PICK r \in SoundRequests, n \in Nat, time \in 0..MaxTime, tier \in 0..Unlimited :
            rows[k] = TransferRow(r, n, time, tier)
    BY <2>1 DEF RowSet, DepositRow
  <2> QED
    BY <2>1, <2>2, RowTyped, SoundAmounts
<1> QED
  BY <1>1, <1>2 DEF TiersUsed

LEMMA MovesKept ==
    ASSUME RowsInv, TransfersTypeOK, [TransfersNext]_transferVars,
           ~ \E s \in Sessions : CompleteTransfer(s), NEW u \in Users, NEW c
    PROVE  /\ MovedIn(rows, u, c, StartOfDay(clock)) \in Int
           /\ MovedIn(rows', u, c, StartOfDay(clock')) \in Int
           /\ MovedIn(rows', u, c, StartOfDay(clock')) <= MovedIn(rows, u, c, StartOfDay(clock))
           /\ TiersUsed(u)' = TiersUsed(u)
<1>1. clock \in Nat /\ rows \in Seq(RowSet)
  BY RequestsAssumption DEF TransfersTypeOK, RowsInv
<1>2. /\ StartOfDay(clock) \in Int /\ StartOfDay(clock + 1) \in Int
      /\ StartOfDay(clock) <= StartOfDay(clock + 1)
  BY <1>1, DayBegins
<1>3. CASE \E d \in Deposits : DepositProcessing(d)
  <2>1. PICK d \in Deposits : DepositProcessing(d)
    BY <1>3
  <2> DEFINE x == DepositRow(d, clock)
  <2>2. rows' = Append(rows, x) /\ clock' = clock /\ x \in RowSet /\ x.type = "deposit"
    BY <2>1 DEF DepositProcessing, DepositRow, RowSet, TransfersTypeOK
  <2> HIDE DEF x
  <2>3. /\ Len(rows) \in Nat
        /\ DOMAIN rows = 1..Len(rows) /\ DOMAIN rows' = 1..(Len(rows) + 1)
        /\ rows'[Len(rows) + 1] = x /\ \A k \in DOMAIN rows : rows'[k] = rows[k]
    BY <1>1, <2>2
  <2>4. InternalRows' = InternalRows /\ \A k \in InternalRows : rows'[k] = rows[k]
    BY <2>2, <2>3 DEF InternalRows
  <2>5. TiersUsed(u)' = TiersUsed(u)
    BY <2>4 DEF TiersUsed
  <2>6. Share(x, u, c, StartOfDay(clock)) = 0
    BY <2>2 DEF Share
  <2> QED
    BY <1>1, <1>2, <2>2, <2>5, <2>6, MovedFacts
<1>4. CASE ~ \E d \in Deposits : DepositProcessing(d)
  <2>1. rows' = rows
    BY <1>4, OtherStepsWriteNothing
  <2>2. clock' = clock \/ clock' = clock + 1
    BY DEF TransfersNext, ReadParties, PassDailyLimit, ExceedDailyLimit, BeginTransfer,
           PostLedger, CompleteTransfer, FailTransfer, LoseRequest, SetTier,
           DepositProcessing, Freeze, Tick, transferVars
  <2>3. TiersUsed(u)' = TiersUsed(u)
    BY <2>1 DEF TiersUsed, InternalRows
  <2> QED
    BY <1>1, <1>2, <2>1, <2>2, <2>3, MovedFacts
<1> QED
  BY <1>3, <1>4

LEMMA Products ==
    ASSUME NEW a \in Nat, NEW b \in Int, NEW k \in Nat
    PROVE  /\ k * a \in Nat /\ b * k \in Int
           /\ a <= b => k * a <= b * k
           /\ k * (a + 1) = k * a + k
OBVIOUS

(* A session that passes the check leaves room for its own amount, and     *)
(* every other session may have passed it too.                             *)
LEMMA PassedLimit ==
    ASSUME RowsInv, TransfersInv, TransfersTypeOK, NEW s \in Sessions, PassDailyLimit(s),
           NEW u \in Users, NEW c, NEW P \in SUBSET Sessions, s \in P,
           request[s].user = u, request[s].currency = c
    PROVE  LimitAt(MovedIn(rows', u, c, StartOfDay(clock')), TiersUsed(u)', tierSeen', request', P)
<1> DEFINE moved == MovedIn(rows, u, c, StartOfDay(clock))
           t == tierSeen[s]
           used == TiersUsed(u)
           tiers == used \union {tierSeen[p] : p \in P}
           n == Cardinality(Sessions) - 1
<1>1. UNCHANGED <<rows, clock, request, tierSeen>> /\ TiersUsed(u)' = used
  BY DEF PassDailyLimit, TiersUsed, InternalRows
<1> SUFFICES ASSUME Unlimited \notin tiers
             PROVE  Within(moved, tiers, P, request)
  BY <1>1 DEF LimitAt
<1>2. t \in tiers /\ t # Unlimited /\ t \in 0..Unlimited /\ DailyLimit[t] \in Nat
  <2>1. t \in tiers /\ t \in 0..Unlimited
    BY DEF TransfersTypeOK
  <2>2. t \in 0..(Unlimited - 1)
    BY <2>1, RequestsAssumption
  <2> QED
    BY <2>1, <2>2, RequestsAssumption
<1>3. request[s].amount \in Nat /\ LargestAmount \in Nat
  <2>1. request[s] \in SoundRequests
    BY DEF PassDailyLimit, TransfersInv, RequestSound, SoundRequests
  <2> QED
    BY <2>1, SoundAmounts
<1>4. clock \in Nat /\ rows \in Seq(RowSet)
  BY RequestsAssumption DEF TransfersTypeOK, RowsInv
<1>5. /\ moved \in Int /\ DailyTotal(u, c, StartOfDay(clock)) \in Int
      /\ moved <= DailyTotal(u, c, StartOfDay(clock))
      /\ DailyTotal(u, c, StartOfDay(clock)) + request[s].amount <= DailyLimit[t]
  <2>1. StartOfDay(clock) \in Int
    BY <1>4, DayBegins
  <2>2. DailyTotal(u, c, StartOfDay(clock)) + request[s].amount <= DailyLimit[t]
    BY <1>2 DEF PassDailyLimit, WithinDailyLimit
  <2> QED
    BY <1>4, <2>1, <2>2, DailyTotalCovers, MovedFacts
<1>6. Cardinality(P \ {s}) \in Nat /\ n \in Int /\ Cardinality(P \ {s}) <= n
  <2>1. IsFiniteSet(Sessions) /\ P \ {s} \in SUBSET (Sessions \ {s})
    BY SessionsAssumption
  <2>2. IsFiniteSet(Sessions \ {s}) /\ Cardinality(Sessions \ {s}) = n
    BY <2>1, FS_RemoveElement
  <2>3. Cardinality(Sessions) \in Nat
    BY <2>1, FS_CardinalityType
  <2>4. IsFiniteSet(P \ {s}) /\ Cardinality(P \ {s}) <= n
    BY <2>1, <2>2, FS_Subset
  <2> QED
    BY <2>3, <2>4, FS_CardinalityType
<1>7. Ahead(s, request) = request[s].amount
  BY SessionsAssumption DEF Ahead
<1>8. moved + Ahead(s, request) + LargestAmount * Cardinality(P \ {s})
          <= DailyLimit[t] + n * LargestAmount
  <2> HIDE DEF n, moved, t
  <2>1. /\ LargestAmount * Cardinality(P \ {s}) \in Nat /\ n * LargestAmount \in Int
        /\ LargestAmount * Cardinality(P \ {s}) <= n * LargestAmount
    BY <1>3, <1>6, Products
  <2> QED
    BY <1>2, <1>3, <1>5, <1>7, <2>1
<1> HIDE DEF tiers, moved
<1> QED
  BY <1>2, <1>8 DEF Within

(* The row of a transfer that completes is one amount that the bound has   *)
(* already counted, as that of a pending session.                          *)
LEMMA CompletedLimit ==
    ASSUME IInv, RowsInv, TransfersInv, TransfersTypeOK, LimitInv,
           NEW s \in Sessions, CompleteTransfer(s),
           NEW u \in Users, NEW c \in Currencies, NEW P \in SUBSET Pending(u, c), s \notin P,
           \A p \in P : request'[p] = request[p] /\ tierSeen'[p] = tierSeen[p]
    PROVE  LimitAt(MovedIn(rows', u, c, StartOfDay(clock')), TiersUsed(u)', tierSeen', request', P)
<1> DEFINE moved == MovedIn(rows, u, c, StartOfDay(clock))
           moved2 == MovedIn(rows', u, c, StartOfDay(clock))
           r == request[s]
           x == TransferRow(r, id[s], createdAt[s], tierSeen[s])
           used == TiersUsed(u)
           used2 == TiersUsed(u)'
           tiers == used \union {tierSeen[p] : p \in P}
           tiers2 == used2 \union {tierSeen[p] : p \in P}
           n == Cardinality(Sessions) - 1
<1>1. rows' = Append(rows, x) /\ clock' = clock /\ stage[s] = "posting"
  BY DEF CompleteTransfer, RowOf, TransferRow
<1>2. r \in SoundRequests /\ r.amount \in Nat /\ LargestAmount \in Nat /\ r.amount <= LargestAmount
  BY <1>1, SoundAmounts DEF TransfersInv, RequestSound, SoundRequests
<1>3. /\ x \in RowSet /\ x.type = "internal" /\ x.user = r.user /\ x.currency = r.currency
      /\ x.amount = r.amount /\ x.tier = tierSeen[s] /\ tierSeen[s] \in 0..Unlimited
  <2>1. createdAt[s] \in 0..MaxTime /\ tierSeen[s] \in 0..Unlimited /\ id[s] \in Nat
    BY TransferCommitted DEF TransfersTypeOK
  <2> HIDE DEF r
  <2>2. x \in RowSet
    BY <1>2, <2>1 DEF RowSet
  <2> QED
    BY <2>1, <2>2 DEF TransferRow
<1> HIDE DEF x
<1>4. /\ rows \in Seq(RowSet) /\ Len(rows) \in Nat
      /\ DOMAIN rows = 1..Len(rows) /\ DOMAIN rows' = 1..(Len(rows) + 1)
      /\ rows'[Len(rows) + 1] = x /\ \A k \in DOMAIN rows : rows'[k] = rows[k]
  BY <1>1, <1>3 DEF RowsInv
<1>5. used2 = IF r.user = u THEN used \union {tierSeen[s]} ELSE used
  <2>1. InternalRows' = InternalRows \union {Len(rows) + 1}
    BY <1>3, <1>4 DEF InternalRows
  <2>2. \A k \in InternalRows : rows'[k] = rows[k]
    BY <1>4 DEF InternalRows
  <2> QED
    BY <1>3, <1>4, <2>1, <2>2 DEF TiersUsed
<1>6. /\ moved \in Int
      /\ moved2 = IF r.user = u /\ r.currency = c /\ createdAt[s] >= StartOfDay(clock)
                  THEN moved + r.amount ELSE moved
  <2>1. clock \in Nat
    BY RequestsAssumption DEF TransfersTypeOK
  <2>2. StartOfDay(clock) \in Int
    BY <2>1, DayBegins
  <2>3. moved \in Int /\ moved2 = moved + Share(x, u, c, StartOfDay(clock))
    BY <1>1, <1>3, <1>4, <2>2, MovedFacts
  <2>4. x.createdAt = createdAt[s]
    BY DEF x, TransferRow
  <2> HIDE DEF moved, moved2
  <2> QED
    BY <1>2, <1>3, <2>3, <2>4 DEF Share
<1>7. /\ used \subseteq 0..Unlimited /\ P \subseteq Sessions
      /\ \A p \in P : tierSeen[p] \in 0..Unlimited /\ request[p].amount \in Nat
  BY TiersTyped
<1>8. \A t \in tiers2 : t # Unlimited => DailyLimit[t] \in Nat
  <2>1. \A t \in tiers2 : t \in 0..Unlimited
    BY <1>3, <1>5, <1>7
  <2>2. \A t \in 0..Unlimited : t # Unlimited => t \in 0..(Unlimited - 1)
    BY RequestsAssumption
  <2> QED
    BY <2>1, <2>2, RequestsAssumption
<1>9. /\ IsFiniteSet(P) /\ Cardinality(P) \in Nat /\ n \in Nat
      /\ \A q : IsFiniteSet(P \ {q}) /\ Cardinality(P \ {q}) \in Nat
  <2>1. IsFiniteSet(Sessions) /\ P \in SUBSET Sessions
    BY <1>7, SessionsAssumption
  <2>2. IsFiniteSet(P) /\ IsFiniteSet(Sessions \ {s}) /\ Cardinality(Sessions \ {s}) = n
    BY <2>1, FS_Subset, FS_RemoveElement
  <2> QED
    BY <2>2, FS_CardinalityType, FS_RemoveElement
<1>10. NoSession \notin Sessions
  BY SessionsAssumption
<1> SUFFICES ASSUME tiers2 # {}, Unlimited \notin tiers2
             PROVE  Within(moved2, tiers2, P, request')
  <2>1. {tierSeen'[p] : p \in P} = {tierSeen[p] : p \in P}
    OBVIOUS
  <2> QED
    BY <1>1, <2>1 DEF LimitAt
<1>11. CASE r.user = u /\ r.currency = c
  <2> DEFINE Q == P \union {s}
  <2>1. Q \in SUBSET Pending(u, c)
    BY <1>1, <1>11 DEF Pending
  <2>2. LimitAt(moved, used, tierSeen, request, Q)
    BY <2>1 DEF LimitInv
  <2>3. used \union {tierSeen[p] : p \in Q} = tiers2
    BY <1>5, <1>11
  <2>4. Within(moved, tiers2, Q, request)
    <3> HIDE DEF moved, used, tiers2, Q
    <3> QED
      BY <2>2, <2>3 DEF LimitAt
  <2>5. PICK t \in tiers2, q \in Q \union {NoSession} :
            moved + Ahead(q, request) + LargestAmount * Cardinality(Q \ {q})
                <= DailyLimit[t] + n * LargestAmount
    <3> HIDE DEF moved, tiers2, Q
    <3> QED
      BY <2>4 DEF Within
  <2>6. DailyLimit[t] \in Nat
    BY <1>8
  <2>7. CASE q = s
    <3>1. Q \ {q} = P /\ P \ {NoSession} = P
      BY <1>7, <1>10, <2>7
    <3>2. Ahead(q, request) = r.amount /\ Ahead(NoSession, request') = 0
      BY <1>10, <2>7 DEF Ahead
    <3>3. moved2 + Ahead(NoSession, request') + LargestAmount * Cardinality(P \ {NoSession})
              <= DailyLimit[t] + n * LargestAmount
      <4> HIDE DEF moved, moved2, n, r, Q
      <4>1. LargestAmount * Cardinality(P) \in Nat /\ n * LargestAmount \in Int
        BY <1>2, <1>9, Products
      <4>2. moved2 <= moved + r.amount /\ moved2 \in Int
        BY <1>2, <1>6
      <4>3. moved + r.amount + LargestAmount * Cardinality(P) <= DailyLimit[t] + n * LargestAmount
        BY <2>5, <3>1, <3>2
      <4>4. moved2 + LargestAmount * Cardinality(P) <= DailyLimit[t] + n * LargestAmount
        BY <1>2, <1>6, <2>6, <4>1, <4>2, <4>3
      <4>5. moved2 + 0 = moved2
        BY <4>2
      <4> QED
        BY <3>1, <3>2, <4>4, <4>5
    <3> HIDE DEF tiers2, moved2
    <3> QED
      BY <3>3 DEF Within
  <2>8. CASE q # s
    <3>1. q \in P \union {NoSession} /\ Ahead(q, request') = Ahead(q, request)
          /\ Ahead(q, request) \in Nat
      BY <1>7, <2>5, <2>8 DEF Ahead
    <3>2. Cardinality(Q \ {q}) = Cardinality(P \ {q}) + 1
      <4>1. Q \ {q} = (P \ {q}) \union {s} /\ s \notin P \ {q}
        BY <2>8
      <4> QED
        BY <1>9, <4>1, FS_AddElement
    <3>3. moved2 + Ahead(q, request') + LargestAmount * Cardinality(P \ {q})
              <= DailyLimit[t] + n * LargestAmount
      <4> HIDE DEF moved, moved2, n, r, Q
      <4>1. Cardinality(P \ {q}) \in Nat
        BY <1>9
      <4>2. /\ LargestAmount * Cardinality(P \ {q}) \in Nat /\ n * LargestAmount \in Int
            /\ LargestAmount * (Cardinality(P \ {q}) + 1)
                   = LargestAmount * Cardinality(P \ {q}) + LargestAmount
        BY <1>2, <1>9, <4>1, Products
      <4>3. moved2 <= moved + LargestAmount /\ moved2 \in Int
        BY <1>2, <1>6
      <4>4. moved + Ahead(q, request) + (LargestAmount * Cardinality(P \ {q}) + LargestAmount)
                <= DailyLimit[t] + n * LargestAmount
        BY <2>5, <3>2, <4>2
      <4> QED
        BY <1>2, <1>6, <2>6, <3>1, <4>2, <4>3, <4>4
    <3> HIDE DEF tiers2, moved2
    <3> QED
      BY <3>1, <3>3 DEF Within
  <2> QED
    BY <2>7, <2>8
<1>12. CASE ~(r.user = u /\ r.currency = c)
  <2>1. moved2 = moved
    BY <1>6, <1>12
  <2>2. tiers \subseteq tiers2
    BY <1>5
  <2>3. CASE tiers # {}
    <3>1. Within(moved, tiers, P, request)
      <4>1. LimitAt(moved, used, tierSeen, request, P)
        BY DEF LimitInv
      <4>2. Unlimited \notin tiers
        BY <2>2
      <4> QED
        BY <2>3, <4>1, <4>2 DEF LimitAt
    <3>2. PICK t \in tiers, q \in P \union {NoSession} :
              moved + Ahead(q, request) + LargestAmount * Cardinality(P \ {q})
                  <= DailyLimit[t] + n * LargestAmount
      <4> HIDE DEF moved, tiers
      <4> QED
        BY <3>1 DEF Within
    <3>3. t \in tiers2 /\ Ahead(q, request') = Ahead(q, request)
      BY <2>2, <3>2 DEF Ahead
    <3> HIDE DEF moved, moved2, tiers, tiers2
    <3> QED
      BY <2>1, <3>2, <3>3 DEF Within
  <2>4. CASE tiers = {}
    <3>1. used = {} /\ P = {}
      BY <2>4
    <3>2. moved <= 0
      <4>1. ~ \E k \in DOMAIN rows : rows[k].type = "internal" /\ rows[k].user = u
        BY <3>1 DEF TiersUsed, InternalRows
      <4>2. clock \in Nat
        BY RequestsAssumption DEF TransfersTypeOK
      <4>3. StartOfDay(clock) \in Int
        BY <4>2, DayBegins
      <4> QED
        BY <1>4, <4>1, <4>3, MovedFacts
    <3>3. PICK t \in tiers2 : DailyLimit[t] \in Nat
      BY <1>8
    <3>4. Cardinality(P \ {NoSession}) = 0 /\ Ahead(NoSession, request') = 0
      BY <3>1, FS_EmptySet DEF Ahead
    <3>5. moved2 + 0 + LargestAmount * 0 <= DailyLimit[t] + n * LargestAmount
      <4> HIDE DEF moved, moved2, n
      <4>1. n * LargestAmount \in Nat /\ LargestAmount * 0 = 0
        BY <1>2, <1>9
      <4> QED
        BY <1>6, <2>1, <3>2, <3>3, <4>1
    <3> HIDE DEF moved2, tiers2
    <3> QED
      BY <3>3, <3>4, <3>5 DEF Within
  <2> QED
    BY <2>3, <2>4
<1> QED
  BY <1>11, <1>12

LEMMA NextLimit ==
    IInv /\ RowsInv /\ TransfersInv /\ TransfersTypeOK /\ LimitInv /\ [TransfersNext]_transferVars
        => LimitInv'
<1> SUFFICES ASSUME IInv, RowsInv, TransfersInv, TransfersTypeOK, LimitInv,
                    [TransfersNext]_transferVars,
                    NEW u \in Users, NEW c \in Currencies, NEW P \in SUBSET Pending(u, c)'
             PROVE  LimitAt(MovedIn(rows', u, c, StartOfDay(clock')), TiersUsed(u)',
                            tierSeen', request', P)
  BY DEF LimitInv
<1>1. \A p \in P : /\ p \in Sessions /\ stage'[p] \in {"begin", "posting"}
                   /\ request'[p].user = u /\ request'[p].currency = c
  BY DEF Pending
<1>2. CASE \E s \in P : PassDailyLimit(s)
  <2>1. PICK s \in P : PassDailyLimit(s)
    BY <1>2
  <2>2. request'[s] = request[s]
    BY <2>1 DEF PassDailyLimit
  <2> QED
    BY <1>1, <2>1, <2>2, PassedLimit
<1>3. CASE ~ \E s \in P : PassDailyLimit(s)
  <2>1. \A p \in P : /\ stage[p] \in {"begin", "posting"}
                     /\ request'[p] = request[p] /\ tierSeen'[p] = tierSeen[p]
    BY <1>1, <1>3, PendingKept
  <2>2. P \in SUBSET Pending(u, c)
    BY <1>1, <2>1 DEF Pending
  <2>3. ASSUME NEW s \in Sessions, CompleteTransfer(s)
        PROVE  s \notin P
    <3>1. stage'[s] = "none"
      BY <2>3 DEF CompleteTransfer, Drop, TransfersTypeOK
    <3> QED
      BY <1>1, <3>1
  <2>4. CASE \E s \in Sessions : CompleteTransfer(s)
    BY <2>1, <2>2, <2>3, <2>4, CompletedLimit
  <2>5. CASE ~ \E s \in Sessions : CompleteTransfer(s)
    <3> DEFINE moved == MovedIn(rows, u, c, StartOfDay(clock))
               less == MovedIn(rows', u, c, StartOfDay(clock'))
    <3>1. moved \in Int /\ less \in Int /\ less <= moved /\ TiersUsed(u)' = TiersUsed(u)
      BY <2>5, MovesKept
    <3>2. LimitAt(moved, TiersUsed(u), tierSeen, request, P)
      BY <2>2 DEF LimitInv
    <3>3. /\ TiersUsed(u) \subseteq 0..Unlimited /\ P \in SUBSET Sessions
          /\ \A p \in P : request[p].amount \in Nat /\ tierSeen[p] \in 0..Unlimited
          /\ TiersUsed(u) # {} \/ P # {} => LargestAmount \in Nat
      BY <1>1, <2>2, TiersTyped
    <3> HIDE DEF moved, less
    <3>4. LimitAt(less, TiersUsed(u), tierSeen', request', P)
      BY <2>1, <3>1, <3>2, <3>3, LimitFrame
    <3> QED
      BY <3>1, <3>4 DEF less
  <2> QED
    BY <2>4, <2>5
<1> QED
  BY <1>2, <1>3

LEMMA LimitImpliesBound ==
    ASSUME RowsInv, TransfersInv, TransfersTypeOK, LimitInv
    PROVE  DailyOvershootBounded
<1> SUFFICES ASSUME NEW u \in Users, NEW c \in Currencies, Limited(u)
             PROVE  MovedBy(u, c, StartOfDay(clock))
                        <= HighestLimit(u) + (Cardinality(Sessions) - 1) * LargestAmount
  BY DEF DailyOvershootBounded
<1> DEFINE moved == MovedIn(rows, u, c, StartOfDay(clock))
           T == TiersUsed(u)
           n == Cardinality(Sessions) - 1
<1>1. MovedBy(u, c, StartOfDay(clock)) = moved
  BY DEF MovedBy, MovedIn, Shares, Share
<1>2. T # {} /\ Unlimited \notin T /\ T \subseteq 0..Unlimited /\ LargestAmount \in Nat
  <2>1. {} \in SUBSET Pending(u, c)
    OBVIOUS
  <2> QED
    BY <2>1, TiersTyped DEF Limited
<1>3. PICK t \in T : moved + LargestAmount * 0 <= DailyLimit[t] + n * LargestAmount
  <2>1. LimitAt(moved, T, tierSeen, request, {})
    BY DEF LimitInv
  <2>2. T \union {tierSeen[p] : p \in {}} = T
    OBVIOUS
  <2> HIDE DEF moved, T, n
  <2>3. Within(moved, T, {}, request)
    BY <1>2, <2>1, <2>2 DEF LimitAt
  <2>4. PICK t \in T, q \in {} \union {NoSession} :
            moved + Ahead(q, request) + LargestAmount * Cardinality({} \ {q})
                <= DailyLimit[t] + n * LargestAmount
    BY <2>3 DEF Within, n
  <2>5. Ahead(q, request) = 0 /\ Cardinality({} \ {q}) = 0
    BY <2>4, FS_EmptySet DEF Ahead
  <2>6. moved \in Int
    <3>1. clock \in Nat /\ rows \in Seq(RowSet)
      BY RequestsAssumption DEF TransfersTypeOK, RowsInv
    <3>2. StartOfDay(clock) \in Int
      BY <3>1, DayBegins
    <3> QED
      BY <3>1, <3>2, MovedFacts DEF moved
  <2> QED
    BY <2>4, <2>5, <2>6
<1>4. /\ Unlimited \in Nat /\ DailyLimit \in [0..(Unlimited - 1) -> Nat]
      /\ T \in SUBSET (0..(Unlimited - 1))
  BY <1>2, RequestsAssumption
<1>5. HighestLimit(u) \in Nat /\ DailyLimit[t] <= HighestLimit(u)
  <2> DEFINE limits == {DailyLimit[v] : v \in T}
  <2>1. PICK top \in T : \A v \in T : DailyLimit[v] <= DailyLimit[top]
    <3> HIDE DEF T
    <3> QED
      BY <1>2, <1>4, HighestValue
  <2>2. \E m \in limits : \A k \in limits : k <= m
    BY <2>1
  <2>3. HighestLimit(u) \in limits /\ \A k \in limits : k <= HighestLimit(u)
    BY <2>2 DEF HighestLimit
  <2>4. limits \subseteq Nat /\ DailyLimit[t] \in limits
    <3> HIDE DEF T
    <3> QED
      BY <1>4
  <2> QED
    BY <2>3, <2>4
<1>6. moved \in Int /\ n * LargestAmount \in Int /\ DailyLimit[t] \in Nat /\ LargestAmount * 0 = 0
  <2>1. clock \in Nat /\ rows \in Seq(RowSet)
    BY RequestsAssumption DEF TransfersTypeOK, RowsInv
  <2>2. StartOfDay(clock) \in Int
    BY <2>1, DayBegins
  <2>3. n \in Int
    BY FS_CardinalityType, SessionsAssumption
  <2>4. moved \in Int
    BY <2>1, <2>2, MovedFacts
  <2>5. DailyLimit[t] \in Nat
    <3> HIDE DEF T
    <3> QED
      BY <1>4
  <2> HIDE DEF n, moved, T
  <2> QED
    BY <1>2, <2>3, <2>4, <2>5
<1>7. moved <= HighestLimit(u) + n * LargestAmount
  <2> HIDE DEF n, moved, T
  <2> QED
    BY <1>3, <1>5, <1>6
<1> QED
  BY <1>1, <1>7

(* The unlocked check can be overrun, but by no more than one amount for   *)
(* each other session: assertWithinDailyLimit, run before the transaction. *)
THEOREM OvershootIsBounded == TransfersSpec => []DailyOvershootBounded
<1>1. TransfersInit => RowsInv /\ LimitInv
  BY InitRows, InitLimit
<1>2. /\ IInv /\ TransfersInv /\ TransfersTypeOK /\ RowsInv /\ LimitInv
      /\ [TransfersNext]_transferVars
      => RowsInv' /\ LimitInv'
  BY NextRows, NextLimit
<1>3. RowsInv /\ TransfersInv /\ TransfersTypeOK /\ LimitInv => DailyOvershootBounded
  BY LimitImpliesBound
<1> QED
  BY <1>1, <1>2, <1>3, TransfersUseTheLedger, Invariance, StagesFollowLedger,
     TransfersInitInv, TransfersNextInv, PTL DEF TransfersSpec

-----------------------------------------------------------------------------
(* IV. The balance column against the sum of the ledger rows.              *)

(* What every row was written with: debit and credit refuse amounts that   *)
(* are not positive, and the column has its width.                         *)
AmountsFit ==
    \A w \in Wallets : \A i \in 1..Len(ledger[w]) : ledger[w][i].amount \in Column

LEMMA InitAmounts == Init => AmountsFit
BY OpeningRows DEF Init, AmountsFit

LEMMA NextAmounts == IInv /\ AmountsFit /\ [Next]_vars => AmountsFit'
<1> SUFFICES ASSUME IInv, AmountsFit, [Next]_vars PROVE AmountsFit'
  OBVIOUS
<1>1. CASE balance' = balance /\ ledger' = ledger
  BY <1>1 DEF AmountsFit
<1>2. ASSUME NEW s \in Sessions, Commit(s) PROVE AmountsFit'
  <2> SUFFICES ASSUME NEW w \in Wallets
               PROVE  \A i \in 1..Len(ledger'[w]) : ledger'[w][i].amount \in Column
    BY DEF AmountsFit
  <2>1. ledger[w] \in Seq(Entry)
    BY DEF IInv, TypeOK
  <2>2. CASE w \in Touched(tx[s])
    <3> DEFINE e == EntryFor(tx[s], IndexOf(tx[s], w), Written(s, w), id[s])
               p == tx[s].postings[IndexOf(tx[s], w)]
    <3>1. /\ ledger'[w] = Append(ledger[w], e) /\ e \in Entry /\ e.amount = p.amount
          /\ p \in Posting /\ p.amount > 0 /\ p.amount <= BigIntMax
      BY <1>2, <2>2, CommittedWallet
    <3>2. e.amount \in Column
      <4> HIDE DEF e, p
      <4>1. p.amount \in Int
        BY <3>1 DEF Posting
      <4> QED
        BY <3>1, <4>1, MoneyAssumption DEF Column
    <3> HIDE DEF e
    <3> QED
      BY <2>1, <3>1, <3>2 DEF AmountsFit
  <2>3. CASE w \notin Touched(tx[s])
    BY <1>2, <2>3, UntouchedWallet DEF AmountsFit
  <2> QED
    BY <2>2, <2>3
<1> QED
  BY <1>1, <1>2, OnlyCommitPosts

(* Row by row, the balance is never less than the sum, and equal to it     *)
(* where columns are numbers.                                              *)
LEMMA BalanceAgainstSum ==
    ASSUME IInv, AmountsFit, NEW w \in Wallets
    PROVE  /\ balance[w] >= CalculatedBalance(w)
           /\ ~Int8AsText => balance[w] = CalculatedBalance(w)
<1> DEFINE len == Len(ledger[w])
           signed == [i \in DOMAIN ledger[w] |-> Signed(ledger[w][i])]
           before == [n \in 0..len |-> BalanceBefore(w, n + 1)]
<1>1. /\ ledger[w] \in Seq(Entry) /\ len \in Nat /\ DOMAIN ledger[w] = 1..len
      /\ \A n \in 1..len : ledger[w][n] \in Entry /\ ledger[w][n].amount \in Column
  BY DEF IInv, TypeOK, AmountsFit
<1>2. \A n \in 1..len : /\ ledger[w][n].amount \in Nat /\ ledger[w][n].balanceAfter \in Nat
                        /\ ledger[w][n].type \in {"debit", "credit"}
  <2>1. \A n \in 1..len : ledger[w][n].amount \in Nat
    BY <1>1, MoneyAssumption DEF Column
  <2>2. \A e \in Entry : e.balanceAfter \in Nat /\ e.type \in {"debit", "credit"}
    BY DEF Entry, EntryType
  <2> QED
    BY <1>1, <2>1, <2>2
<1>3. /\ signed \in Seq(Int) /\ Len(signed) = len
      /\ \A n \in 1..len : signed[n] = Signed(ledger[w][n])
  <2>1. signed \in [1..len -> Int] /\ \A n \in 1..len : signed[n] = Signed(ledger[w][n])
    BY <1>1, <1>2 DEF Signed
  <2> HIDE DEF signed
  <2> QED
    BY <1>1, <2>1
<1>4. /\ before[0] = 0 /\ before[len] = balance[w]
      /\ \A n \in 1..len : before[n] = ledger[w][n].balanceAfter
  BY <1>1 DEF IInv, BalanceIsNewestEntry, BalanceBefore
<1>5. before \in [0..len -> Int] /\ \A n \in 0..len : before[n] \in Nat
  <2>1. ASSUME NEW n \in 0..len PROVE before[n] \in Nat
    <3> HIDE DEF before
    <3>1. CASE n = 0
      BY <1>4, <3>1
    <3>2. CASE n # 0
      <4>1. n \in 1..len
        BY <1>1, <3>2
      <4> QED
        BY <1>2, <1>4, <4>1
    <3> QED
      BY <3>1, <3>2
  <2>2. before = [n \in 0..len |-> before[n]]
    OBVIOUS
  <2> HIDE DEF before
  <2> QED
    BY <2>1, <2>2
<1>6. ASSUME NEW n \in 1..len
      PROVE  /\ before[n] - before[n - 1] >= signed[n]
             /\ ~Int8AsText => before[n] - before[n - 1] = signed[n]
  <2> DEFINE e == ledger[w][n]
  <2>1. /\ e \in Entry /\ e.amount \in Column /\ e.amount \in Nat
        /\ e.type \in {"debit", "credit"} /\ signed[n] = Signed(e)
    BY <1>1, <1>2, <1>3
  <2>2. n - 1 \in 0..len /\ n \in 0..len /\ n - 1 + 1 = n
    BY <1>1
  <2>3. before[n - 1] = BalanceBefore(w, n) /\ before[n - 1] \in Nat /\ before[n] \in Nat
    <3>1. before[n - 1] = BalanceBefore(w, n)
      BY <2>2
    <3>2. before[n - 1] \in Nat /\ before[n] \in Nat
      <4> HIDE DEF before
      <4> QED
        BY <1>5, <2>2
    <3> QED
      BY <3>1, <3>2
  <2>4. before[n] = IF e.type = "debit" THEN before[n - 1] - e.amount
                                        ELSE ColumnPlus(before[n - 1], e.amount)
    <3>1. e.balanceAfter = IF e.type = "debit" THEN BalanceBefore(w, n) - e.amount
                                              ELSE ColumnPlus(BalanceBefore(w, n), e.amount)
      BY DEF IInv, LedgerChained
    <3> HIDE DEF before
    <3> QED
      BY <1>4, <2>3, <3>1
  <2> HIDE DEF before, signed, e
  <2>5. CASE e.type = "debit"
    BY <2>1, <2>3, <2>4, <2>5 DEF Signed
  <2>6. CASE e.type = "credit"
    <3>1. signed[n] = e.amount /\ before[n] = ColumnPlus(before[n - 1], e.amount)
      BY <2>1, <2>4, <2>6 DEF Signed
    <3>2. before[n] >= before[n - 1] + e.amount
      BY <2>1, <2>3, <3>1, ColumnPlusGrows
    <3>3. ~Int8AsText => before[n] = before[n - 1] + e.amount
      BY <3>1 DEF ColumnPlus
    <3> QED
      BY <2>1, <2>3, <3>1, <3>2, <3>3
  <2> QED
    BY <2>1, <2>5, <2>6
<1> HIDE DEF len, signed, before
<1>7. PICK sum \in [0..len -> Int] :
          /\ sum[0] = 0
          /\ \A n \in 1..len : sum[n] = sum[n - 1] + signed[n]
          /\ Total(signed) = sum[len]
  BY <1>3, TotalRowByRow
<1>8. ASSUME NEW n \in 1..len
      PROVE  /\ sum[n] - sum[n - 1] <= before[n] - before[n - 1]
             /\ ~Int8AsText => before[n] - before[n - 1] <= sum[n] - sum[n - 1]
  <2>1. n \in 0..len /\ n - 1 \in 0..len
    BY <1>1
  <2>2. /\ sum[n] \in Int /\ sum[n - 1] \in Int /\ before[n] \in Int /\ before[n - 1] \in Int
        /\ signed[n] \in Int
    <3>1. signed[n] \in Int
      BY <1>3
    <3>2. before[n] \in Nat /\ before[n - 1] \in Nat
      BY <1>5, <2>1
    <3> QED
      BY <2>1, <3>1, <3>2
  <2> QED
    BY <1>6, <1>7, <2>2
<1>9. sum[len] <= before[len]
  <2>1. sum[0] <= before[0]
    BY <1>4, <1>7
  <2> QED
    BY <1>1, <1>5, <1>8, <2>1, SumsCompare
<1>10. ~Int8AsText => before[len] <= sum[len]
  <2>1. before[0] <= sum[0]
    BY <1>4, <1>7
  <2> QED
    BY <1>1, <1>5, <1>8, <2>1, SumsCompare
<1>11. CalculatedBalance(w) = sum[len] /\ sum[len] \in Int /\ before[len] \in Int
  <2>1. len \in 0..len
    BY <1>1
  <2> QED
    BY <1>5, <1>7, <2>1 DEF CalculatedBalance, signed
<1> QED
  BY <1>4, <1>9, <1>10, <1>11

(* Both invariants together, along every behaviour.                        *)
LEMMA AmountsAlwaysFit == Spec => [](IInv /\ AmountsFit)
BY InitAmounts, NextAmounts, Invariance, PTL DEF Spec

(* A wallet never holds less than its ledger rows add up to: also as       *)
(* shipped, where a credit appends digits (WalletsService.credit,          *)
(* reconcileBalance).                                                      *)
THEOREM WalletsCoverLedger == Spec => []CoversLedger
<1>1. IInv /\ AmountsFit => CoversLedger
  BY BalanceAgainstSum DEF CoversLedger
<1> QED
  BY <1>1, AmountsAlwaysFit, PTL

(* Were BIGINT columns read as numbers, every balance would be the sum of  *)
(* its ledger rows: the strings are all that reconciliation fails for.     *)
THEOREM NumbersReconcile ==
    ASSUME ~Int8AsText
    PROVE  Spec => []Reconciles
<1>1. IInv /\ AmountsFit => Reconciles
  BY BalanceAgainstSum DEF Reconciles
<1> QED
  BY <1>1, AmountsAlwaysFit, PTL
=============================================================================
