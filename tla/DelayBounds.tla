------------------------------ MODULE DelayBounds ------------------------------
(***************************************************************************)
(* The ceiling of internal/validation.py: no delay that reaches a sleeper  *)
(* is longer than MAX_SLEEP_SECONDS.                                       *)
(***************************************************************************)
EXTENDS Integers, Sequences

CONSTANT MaxSleep  \* MAX_SLEEP_SECONDS

ASSUME SleepAssumption == MaxSleep \in Nat

None == -1  \* Python's None where a number is expected

\* Sums of numbers.
SumOfFirst(s, n) ==
  LET sum[i \in 0..Len(s)] == IF i = 0 THEN 0 ELSE sum[i - 1] + s[i] IN sum[n]
SumSeq(s) == SumOfFirst(s, Len(s))
=============================================================================
