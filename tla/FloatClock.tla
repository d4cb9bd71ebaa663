------------------------------ MODULE FloatClock ------------------------------
(***************************************************************************)
(* A small binary floating-point format with gradual underflow: the        *)
(* arithmetic of the times of BudgetSlots, in the order of its numbers.    *)
(* The i-th number from 0 on has the bits of the integer i: an exponent    *)
(* and Precision - 1 bits of significand, as in IEEE 754.                  *)
(***************************************************************************)
EXTENDS Integers, FiniteSets

CONSTANTS Precision,  \* bits of a significand (53 in a Python float)
          Period,     \* the number, by its place, that is the period
          MaxNumber   \* bound: the last number

ASSUME FloatAssumption ==
  Precision \in Nat \ {0} /\ MaxNumber \in Nat /\ Period \in 1..MaxNumber

Numbers == (-MaxNumber)..MaxNumber

Magnitude(i) ==
  LET hidden == 2 ^ (Precision - 1)
      exponent == i \div hidden
  IN IF exponent = 0 THEN i ELSE (hidden + (i % hidden)) * 2 ^ (exponent - 1)

\* The value of a number, in units of the least positive one.
Value == [i \in Numbers |-> IF i >= 0 THEN Magnitude(i) ELSE -Magnitude(-i)]

Distance(i, v) == IF Value[i] >= v THEN Value[i] - v ELSE v - Value[i]

\* Round to nearest, ties to even.
Round(v) ==
  LET nearest == {i \in Numbers : \A j \in {i - 1, i + 1} \cap Numbers :
                                    Distance(i, v) <= Distance(j, v)}
  IN CHOOSE i \in nearest : Cardinality(nearest) = 1 \/ i % 2 = 0

Sums == [i \in Numbers |-> Round(Value[i] + Value[Period])]
Differences == [i \in Numbers |-> Round(Value[i] - Value[Period])]

FloatPlus(i) == Sums[i]
FloatMinus(i) == Differences[i]
=============================================================================
