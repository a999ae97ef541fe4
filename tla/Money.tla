------------------------------- MODULE Money --------------------------------
(***************************************************************************)
(* internal/money: integer JPY arithmetic.  Amounts are Go int64 values:   *)
(* HalfWord stands for 2^63 and every product wraps around two's           *)
(* complement, so that the runs can use a word small enough for TLC.       *)
(***************************************************************************)
EXTENDS Integers

CONSTANT HalfWord       \* 2^63 in the program

ASSUME HalfWordAssumption == HalfWord \in Nat \ {0}

Int64 == -HalfWord .. HalfWord - 1

\* What a two's complement register holds after an operation whose exact
\* result is n.
Wrap(n) == ((n + HalfWord) % (2 * HalfWord)) - HalfWord

\* 100% in basis points.
Whole == 10000

\* The single rounding point: amounts are already whole yen.
RoundJPY(amount) == amount

\* Mutant: rounds to the nearest yen.
ApplyPercentNearest(amount, percentBP) ==
  IF amount <= 0 \/ percentBP <= 0 THEN 0
  ELSE (Wrap(amount * percentBP) + Whole \div 2) \div Whole

\* The discount that percentBP basis points of amount make.  The dividend is
\* taken only when both factors are positive, but the wrapped product may be
\* negative, and Go divides towards zero where \div rounds down.
ApplyPercent(amount, percentBP) ==
  LET product == Wrap(amount * percentBP)
  IN  IF amount <= 0 \/ percentBP <= 0 THEN 0
      ELSE RoundJPY(IF product >= 0 THEN product \div Whole
                                    ELSE -((-product) \div Whole))

MaxJPY(a, b) == IF a > b THEN a ELSE b

MinJPY(a, b) == IF a < b THEN a ELSE b

\* Mutant: takes more than what is left.
ClampNever(discount, remaining) == discount

\* The pricing loops never take more than what is left.
Clamp(discount, remaining) ==
  IF discount > remaining THEN remaining ELSE discount

=============================================================================
