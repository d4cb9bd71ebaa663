----------------------------- MODULE MCRetryBudget -----------------------------
(* Values of RetryBudget's constants for model checking. *)
EXTENDS RetryBudget, TLC

CONSTANTS t1, t2, k1, k2
CONSTANT Per  \* RetryBudget.per, in ticks of an exact clock

MinusTicks(t) == t - Per
PlusTicks(t) == t + Per

TwoThreads == {t1, t2}
OneKey == {k1}
TwoKeys == {k1, k2}
SomeDelays == {0, 3}
Symmetry == Permutations({t1, t2}) \cup Permutations({k1, k2})
=============================================================================
