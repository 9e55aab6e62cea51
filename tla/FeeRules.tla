------------------------------ MODULE FeeRules ------------------------------
(***************************************************************************)
(* How FeesService.calculate turns a fee rule and an amount into a fee.    *)
(*                                                                         *)
(* flatAmount, cap and floor are BIGINT columns, so at run time they are   *)
(* decimal strings; amounts, the fees of the tiers (JSONB) and whatever    *)
(* Math.round returns are numbers.  Two strings compare by their digits    *)
(* from the left, a string and a number compare as numbers, and `+` with a *)
(* string concatenates (Money's Plus).                                     *)
(* Rates are whole percentages here, and computed exactly.                 *)
(***************************************************************************)
EXTENDS Money, Sequences, FiniteSets

(* "9" > "10": the digits are lined up at the left, a prefix comes first.  *)
TextBefore(a, b) ==
    LET x == a * Shift(b)
        y == b * Shift(a)
    IN  x < y \/ (x = y /\ Shift(a) < Shift(b))

Below(v, w) == IF v.text /\ w.text THEN TextBefore(v.n, w.n) ELSE v.n < w.n

(* Math.round(n * rate); `*` makes a number of a string.                   *)
Percent(n, rate) == (2 * n * rate + 100) \div 200

(* A nullable column or field is a set of at most one number.              *)
Null == {}
OrNull(S) == SUBSET S

Tier == [minAmount : Nat, maxAmount : OrNull(Nat), flatFee : Nat]

FeeRule ==
    {r \in [feeType : {"flat", "percentage", "tiered"}, flatAmount : Column,
            percentage : 0..100, cap : OrNull(Column), floor : OrNull(Column),
            tierConfig : Seq(Tier), taxRate : 0..100,
            minTransferAmount : Column, maxTransferAmount : OrNull(Column)] :
        \A limit \in {r.cap, r.floor, r.maxTransferAmount} : Cardinality(limit) <= 1}

ZeroFee == [baseFee |-> Number(0), tax |-> 0, totalFee |-> Number(0)]

(* A limit of 0 is falsy only as a number: the string "0" is a limit.      *)
InRange(rule, amount) ==
    /\ amount >= rule.minTransferAmount
    /\ \A m \in rule.maxTransferAmount : (m = 0 /\ ~Int8AsText) \/ amount <= m

MatchingTiers(rule, amount) ==
    {i \in 1..Len(rule.tierConfig) :
        LET tier == rule.tierConfig[i]
        IN  amount >= tier.minAmount /\ \A m \in tier.maxAmount : amount <= m}

(* find returns the first match; without one the flat amount stands in.    *)
TieredFee(rule, amount) ==
    LET matches == MatchingTiers(rule, amount)
    IN  IF matches = {} THEN FromColumn(rule.flatAmount)
        ELSE Number(rule.tierConfig[CHOOSE i \in matches : \A j \in matches : i <= j].flatFee)

ComputeBaseFee(rule, amount) ==
    CASE rule.feeType = "flat"       -> FromColumn(rule.flatAmount)
      [] rule.feeType = "percentage" -> Number(Percent(amount, rule.percentage))
      [] rule.feeType = "tiered"     -> TieredFee(rule, amount)

Floored(rule, fee) ==
    IF \E f \in rule.floor : Below(fee, FromColumn(f))
    THEN FromColumn(CHOOSE f \in rule.floor : TRUE) ELSE fee

(* Fault: the cap is compared with the flat amount.                        *)
CappedByFlat(rule, fee) ==
    IF \E c \in rule.cap : c < rule.flatAmount
    THEN FromColumn(CHOOSE c \in rule.cap : TRUE) ELSE fee

Capped(rule, fee) ==
    IF \E c \in rule.cap : Below(FromColumn(c), fee)
    THEN FromColumn(CHOOSE c \in rule.cap : TRUE) ELSE fee

Calculate(rule, amount) ==
    IF ~InRange(rule, amount) THEN ZeroFee
    ELSE LET base == Capped(rule, Floored(rule, ComputeBaseFee(rule, amount)))
             tax == Percent(base.n, rule.taxRate)
         IN  [baseFee |-> base, tax |-> tax, totalFee |-> Plus(base, Number(tax))]
=============================================================================
