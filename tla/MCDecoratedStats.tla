-------------------------- MODULE MCDecoratedStats --------------------------
(* Values of DecoratedStats's constants for model checking. *)
EXTENDS DecoratedStats

CONSTANTS t1, t2

TwoThreads == {t1, t2}
Result(succeeded, exhausted, n) ==
  [succeeded |-> succeeded, exhausted |-> exhausted, attempt_count |-> n]
SomeResults == {Result(TRUE, FALSE, 1), Result(FALSE, FALSE, 1), Result(FALSE, TRUE, 2)}
=============================================================================
