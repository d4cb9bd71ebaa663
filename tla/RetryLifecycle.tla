----------------------------- MODULE RetryLifecycle -----------------------------
(***************************************************************************)
(* What one retry execution promises, whoever drives its loop: attempts up *)
(* to a limit with a wait before each further one, and one outcome, which  *)
(* is announced once and ends it.                                          *)
(***************************************************************************)
EXTENDS Naturals

CONSTANT MaxAttempts  \* the attempts the stop strategy allows

VARIABLES phase,     \* "idle", "trying", "waiting", "concluded", "over",
                     \* "broken" or "strayed"
          attempt,   \* attempts begun
          outcome,   \* "undecided", "accept", "reject" or "exhaust"
          announced  \* the verdicts announced, each with its place in the order

vars == <<phase, attempt, outcome, announced>>

Init ==
  phase = "idle" /\ attempt = 0 /\ outcome = "undecided" /\ announced = {}

\* An attempt begins; what its handlers raise may leave at once.
Begin ==
  /\ phase = "idle" /\ attempt < MaxAttempts
  /\ attempt' = attempt + 1
  /\ phase' \in {"trying", "broken"}
  /\ UNCHANGED <<outcome, announced>>

\* Another attempt is granted, and comes when the wait is over.
Wait ==
  /\ phase = "trying" /\ attempt < MaxAttempts
  /\ phase' = "waiting"
  /\ UNCHANGED <<attempt, outcome, announced>>
Wake == phase = "waiting" /\ phase' = "idle" /\ UNCHANGED <<attempt, outcome, announced>>

\* The outcome is decided and announced; the execution is over at once, or when
\* the handlers have run.
Conclude(o) ==
  /\ phase = "trying"
  /\ outcome' = o
  /\ \E a \in announced' : /\ announced' = {a}
                          /\ a[2] = IF o = "accept" THEN "after_success" ELSE "after_giveup"
  /\ phase' \in {"concluded", "over"}
  /\ UNCHANGED attempt
Finish ==
  phase = "concluded" /\ phase' = "over" /\ UNCHANGED <<attempt, outcome, announced>>

\* An exception that is no outcome ends it, or the user walks away.
Break ==
  /\ phase \in {"idle", "trying", "waiting"}
  /\ phase' = "broken"
  /\ UNCHANGED <<attempt, outcome, announced>>

\* The user's own loop goes on where an exception had left, or skips an attempt:
\* nothing is promised from there on, not even of the other variables.
Stray == phase \notin {"idle", "waiting", "over"} /\ phase' = "strayed"

Next ==
  \/ Begin \/ Wait \/ Wake
  \/ \E o \in {"accept", "reject", "exhaust"} : Conclude(o)
  \/ Finish \/ Break \/ Stray

Spec == Init /\ [][Next]_vars
=============================================================================
