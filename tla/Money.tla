------------------------------- MODULE Money -------------------------------
(***************************************************************************)
(* How the program adds amounts of money.                                  *)
(*                                                                         *)
(* Every amount is a BIGINT column in the smallest unit of its currency.   *)
(* The PostgreSQL driver hands a BIGINT to JavaScript as a decimal string  *)
(* unless the data source asks for numbers (parseInt8), and this one does  *)
(* not (app.module.ts).  The entities declare these columns `number`, so   *)
(* the compiler lets `wallet.balance + amount` through, and at run time it *)
(* is the concatenation of two decimal strings; `-`, `<` and Math.* still  *)
(* convert their operands to numbers.                                      *)
(***************************************************************************)
EXTENDS Integers, Sequences

CONSTANTS
    Int8AsText,    \* TRUE: a BIGINT column is read as a string, as shipped
    BigIntMax,     \* the largest value a BIGINT column stores
    PowersOfTen    \* the powers of ten that amounts up to BigIntMax need

ASSUME MoneyAssumption ==
    /\ Int8AsText \in BOOLEAN
    /\ BigIntMax \in Nat
    /\ PowersOfTen \subseteq Nat \ {0}
    /\ \A n \in 0..BigIntMax : \E p \in PowersOfTen :
            n < p /\ \A q \in PowersOfTen : n < q => p <= q

(* What a BIGINT column of this system holds: no amount is negative.       *)
Column == 0..BigIntMax

(* The power of ten just above n: 10 for one digit, 100 for two ...        *)
Shift(n) ==
    CHOOSE p \in PowersOfTen :
        n < p /\ \A q \in PowersOfTen : n < q => p <= q

(* The number whose decimal digits are those of a followed by those of b.  *)
AppendDigits(a, b) == a * Shift(b) + b

(* `column + number`, where column was read from a BIGINT column.          *)
ColumnPlus(column, number) ==
    IF Int8AsText THEN AppendDigits(column, number) ELSE column + number

-----------------------------------------------------------------------------
(* A JavaScript value: a number, or the decimal string of one.             *)
Values == [text : BOOLEAN, n : Nat]

Number(n) == [text |-> FALSE, n |-> n]
FromColumn(n) == [text |-> Int8AsText, n |-> n]

(* `v + w`: with a string on either side it is the concatenation.          *)
Plus(v, w) == IF v.text \/ w.text
              THEN [text |-> TRUE, n |-> AppendDigits(v.n, w.n)]
              ELSE Number(v.n + w.n)

(* The totalFee a caller may be handed, a number or a string: it fits the  *)
(* fee column of the transfer row that is inserted with it.                *)
TotalFees == {v \in Values : v.n \in Column /\ (v.text => Int8AsText)}

-----------------------------------------------------------------------------
(* SUM over a column, row by row.                                          *)
Total(amounts) ==
    LET sum[n \in 0..Len(amounts)] ==
            IF n = 0 THEN 0 ELSE sum[n - 1] + amounts[n]
    IN  sum[Len(amounts)]
=============================================================================
