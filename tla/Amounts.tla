------------------------------ MODULE Amounts ------------------------------
(***************************************************************************)
(* Integer money arithmetic of trading/domain: every amount is a whole     *)
(* number of atoms held in a signed 64-bit integer, products are taken in  *)
(* big integers, and a result that does not fit is an error.  MaxInt64     *)
(* stands for 2^63 - 1, so that a small instance can reach the limit.      *)
(***************************************************************************)
EXTENDS Integers

CONSTANTS
  BaseScale,      \* atoms of the base asset in one unit
  QuantityStep,   \* every quantity is a multiple of this many base atoms
  MaxInt64        \* the largest amount a signed 64-bit integer holds

ASSUME AmountsAssumption ==
  /\ BaseScale \in Nat \ {0}
  /\ QuantityStep \in Nat \ {0}
  /\ MaxInt64 \in Nat \ {0}

BasisPoints == 10000

\* The value fits a signed 64-bit integer (CheckedAdd, checkedMulDiv).
FitsInt64(n) == -MaxInt64 - 1 <= n /\ n <= MaxInt64

MulDivFloor(a, b, d) == (a * b) \div d

MulDivCeil(a, b, d) ==
  IF (a * b) % d = 0 THEN (a * b) \div d ELSE (a * b) \div d + 1

\* What a trade of quantity base atoms at price settles for.
QuoteAmountFloor(price, quantity) == MulDivFloor(price, quantity, BaseScale)

\* What a resting buy of quantity base atoms at price has to reserve.
QuoteAmountCeil(price, quantity) == MulDivCeil(price, quantity, BaseScale)

RoundToStep(quantity) == quantity - (quantity % QuantityStep)

\* The largest step-aligned quantity a quote budget pays for at price.
AffordableQuantity(budget, price) ==
  RoundToStep(MulDivFloor(budget, BaseScale, price))

FeeAmount(amount, rateBPS) == MulDivFloor(amount, rateBPS, BasisPoints)
=============================================================================
