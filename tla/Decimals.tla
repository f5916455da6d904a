------------------------------ MODULE Decimals ------------------------------
(***************************************************************************)
(* The exact decimal arithmetic on amounts                                 *)
(* (backend/internal/modules/reimbursements/statemachine.go, from          *)
(* compareNumeric on).  An amount is a whole number of cents; the code has *)
(* it as text and works on its two parts.  numeric(14,2) keeps both parts  *)
(* far below the width of int64.                                           *)
(***************************************************************************)
EXTENDS Integers

Decimal == [whole : Int, cents : 0..99]
Value(d) == 100 * d.whole + d.cents

(* splitDecimal of the text of a column or a threshold, at most two digits *)
(* after the point.                                                        *)
SplitDecimal(amount) == [whole |-> amount \div 100, cents |-> amount % 100]

Sign(n) == IF n < 0 THEN -1 ELSE IF n > 0 THEN 1 ELSE 0

(* Mutation: the cents are not looked at.                                  *)
CompareNumericWhole(a, b) == Sign(a.whole - b.whole)

(* Below, at or above zero as a is below, at or above b.                   *)
CompareNumeric(a, b) ==
    IF a.whole # b.whole THEN Sign(a.whole - b.whole) ELSE Sign(a.cents - b.cents)

(* Mutation: the carry is lost.                                            *)
AddNumericNoCarry(a, b) ==
    [whole |-> a.whole + b.whole, cents |-> (a.cents + b.cents) % 100]

AddNumeric(a, b) ==
    LET c == a.cents + b.cents
    IN  [whole |-> a.whole + b.whole + c \div 100, cents |-> c % 100]

SubtractNumeric(a, b) ==
    LET w == a.whole - b.whole
        c == a.cents - b.cents
    IN  IF c < 0 THEN [whole |-> w - 1, cents |-> c + 100]
                 ELSE [whole |-> w, cents |-> c]

(* What Submit tells of a limit: formatDecimal puts a minus in front of a  *)
(* negative whole part, and what starts with a minus is told as zero.      *)
Remaining(limit, spent) ==
    LET d == SubtractNumeric(limit, spent)
    IN  IF d.whole < 0 THEN [whole |-> 0, cents |-> 0] ELSE d
=============================================================================
