----------------------------- MODULE MCRetrySystem -----------------------------
(* Values of RetrySystem's constants for model checking. *)
EXTENDS RetrySystem, TLC

CONSTANTS e1, e2, k1
CONSTANT Per  \* RetryBudget.per, in ticks of an exact clock

MinusTicks(t) == t - Per
PlusTicks(t) == t + Per

TwoExecutions == {e1, e2}
OneKey == {k1}
SharedKey == [e \in {e1, e2} |-> k1]
SomeDelays == {0, 1}
Symmetry == Permutations({e1, e2})
=============================================================================
