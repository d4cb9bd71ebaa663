---------------------------- MODULE StopStrategies ----------------------------
(***************************************************************************)
(* The stop strategies of relinker.stop: trees of limits, and when they    *)
(* stop an execution that made n attempts and took e seconds.              *)
(***************************************************************************)
EXTENDS Integers, Sequences

CONSTANT StopTrees  \* the stop strategies considered, with all that they are made of

Attempts(n) == [kind |-> "attempts", maximum |-> n]
MaxTime(s)  == [kind |-> "max_time", seconds |-> s]
Forever     == [kind |-> "forever"]
AnyOf(parts)  == [kind |-> "any", parts |-> parts]
AllOf(parts)  == [kind |-> "all", parts |-> parts]

IsComposite(t) == t.kind \in {"any", "all"}

\* For which trees an answer is yes: `leaf' tells for single strategies; composites
\* say yes when some of their parts do, or when each of them does, by their kind.
Holds(trees, leaf, some, each) ==
  LET holds[t \in trees] ==
        \/ ~IsComposite(t) /\ leaf[t]
        \/ t.kind \in some /\ \E i \in DOMAIN t.parts : holds[t.parts[i]]
        \/ t.kind \in each /\ \A i \in DOMAIN t.parts : holds[t.parts[i]]
  IN holds

\* Mutants: one attempt too many; a limit that must be passed, not reached.
StopsAfterLast(n, maximum) == n > maximum
ReachedStrictly(e, seconds) == e > seconds

ReachesAttempts(n, maximum) == n >= maximum
ReachesTime(e, seconds) == e >= seconds

\* should_stop(attempt_number, elapsed), of every strategy
Stopping(n, e) ==
  Holds(StopTrees,
        [t \in StopTrees |->
           \/ t.kind = "attempts" /\ ReachesAttempts(n, t.maximum)
           \/ t.kind = "max_time" /\ ReachesTime(e, t.seconds)],
        {"any"}, {"all"})

ShouldStop(t, n, e) == Stopping(n, e)[t]
=============================================================================
