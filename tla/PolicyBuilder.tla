----------------------------- MODULE PolicyBuilder -----------------------------
(***************************************************************************)
(* The builder methods of RetryPolicy that combine strategies: the stop    *)
(* strategy and the condition of a policy after a chain of calls, some of  *)
(* which flatten composites to keep long chains shallow.                   *)
(*                                                                         *)
(* What a chain means is kept beside what it builds: the set of moments at *)
(* which the user asked to stop, and the set of outcomes to retry.         *)
(***************************************************************************)
EXTENDS StopStrategies, FiniteSets, FiniteSetsExt, SequencesExt

CONSTANTS Limits,      \* limits given to the or_ and and_ methods
          UserStops,   \* strategies given to stop_when
          Exceptions,  \* exceptions an attempt may raise
          Types,       \* exception classes, each the set of its instances
          Values,      \* values an attempt may return
          Parts,       \* conditions given to any_condition and all_conditions
          ConditionTrees,  \* the conditions considered, with all that they are made of
          MaxMoment,   \* bound: attempts and seconds at which stopping is asked
          MaxCalls     \* bound: calls in a chain

ASSUME BuilderAssumption ==
  /\ Exceptions \cap Values = {}
  /\ Exceptions \in Types /\ Types \subseteq SUBSET Exceptions
  /\ MaxMoment \in Nat /\ MaxCalls \in Nat

\* Composites are made of strategies that exist already: no tree contains itself.
Strategies == StopTrees \cup ConditionTrees
Depth[t \in Strategies] ==
  IF IsComposite(t) THEN 1 + Max({0} \cup {Depth[t.parts[i]] : i \in DOMAIN t.parts})
  ELSE 0

VARIABLES stop, condition,  \* the policy's strategies
          stopsAt,  \* history: the moments <<attempt, elapsed>> asked for
          retries,  \* history: the outcomes asked to be retried
          turns,    \* history: depth given, and changes between or_ and and_
          lastOp,   \* history: how the last stop method combined
          calls

builderVars == <<stop, condition, stopsAt, retries, turns, lastOp, calls>>

Moments == (1..MaxMoment) \X (0..MaxMoment)
Outcomes == Exceptions \cup Values

Exception == Exceptions  \* the class every error is an instance of

OnErrors(types) == [kind |-> "exception", types |-> types]
OnValues(values) == [kind |-> "result", values |-> values]
OnOutcomes(outcomes) == [kind |-> "custom", outcomes |-> outcomes]

-----------------------------------------------------------------------------
\* Mutants of definitions below, one plausible slip each.
FlattenComposites(kind, parts) ==
  FlattenSeq([i \in DOMAIN parts |->
    IF parts[i].kind \in {"any", "all"} THEN parts[i].parts ELSE <<parts[i]>>])
OrKeepsFirst(c) ==
  AnyOf(FlattenSeq(<<IF condition.kind = "any" THEN <<condition.parts[1]>> ELSE <<condition>>,
                     <<c>>>>))
-----------------------------------------------------------------------------
\* _flatten_any_... and _flatten_all_...: one level, composites of that kind.
Flatten(kind, parts) ==
  FlattenSeq([i \in DOMAIN parts |->
    IF parts[i].kind = kind THEN parts[i].parts ELSE <<parts[i]>>])

\* should_retry_exception and should_retry_result, by the kind of outcome o.
Retrying(o) ==
  Holds(ConditionTrees,
        [c \in ConditionTrees |->
           \/ c.kind = "exception" /\ o \in UNION c.types
           \/ c.kind = "result" /\ o \in Values /\ o \in c.values
           \/ c.kind = "custom" /\ o \in c.outcomes],
        {"any"}, {"all"})

ShouldRetry(c, o) == Retrying(o)[c]

StopMoments(t) == {m \in Moments : ShouldStop(t, m[1], m[2])}
Retried(c) == {o \in Outcomes : ShouldRetry(c, o)}

-----------------------------------------------------------------------------
DefaultCondition == OnErrors({Exception})

ASSUME TreeAssumption ==
  /\ Limits \cup UserStops \cup {Attempts(3)} \subseteq StopTrees
  /\ Parts \cup {DefaultCondition} \subseteq ConditionTrees
  /\ \A t \in Limits : ~IsComposite(t)
  /\ \A t \in StopTrees :
       \/ t.kind = "attempts" /\ t.maximum \in Nat \ {0}
       \/ t.kind = "max_time" /\ t.seconds \in Nat
       \/ t.kind = "forever"
       \/ IsComposite(t) /\ t.parts \in Seq(StopTrees) /\ t.parts # <<>>
  /\ \A c \in ConditionTrees :
       \/ c.kind = "exception" /\ c.types \subseteq Types
       \/ c.kind \in {"result", "custom"}
       \/ IsComposite(c) /\ c.parts \in Seq(ConditionTrees) /\ c.parts # <<>>
  /\ Depth \in [Strategies -> Nat]
  /\ \A t \in Strategies :
       IsComposite(t) => \A i \in DOMAIN t.parts : Depth[t.parts[i]] < Depth[t]

BuilderInit ==
  /\ stop = Attempts(3) /\ condition = DefaultCondition
  /\ stopsAt = StopMoments(stop) /\ retries = Exceptions
  /\ turns = 0 /\ lastOp = "set" /\ calls = 0

Call == calls < MaxCalls /\ calls' = calls + 1

\* attempts, forever, max_time, stop_when: the strategy is replaced.
SetStop(t) ==
  /\ Call
  /\ stop' = t
  /\ stopsAt' = StopMoments(t)
  /\ lastOp' = "set" /\ turns' = Depth[t]
  /\ UNCHANGED <<condition, retries>>

\* or_stop_after_attempts, or_stop_after_time
OrStop(t) ==
  /\ Call
  /\ stop' = AnyOf(Flatten("any", <<stop, t>>))
  /\ stopsAt' = stopsAt \cup StopMoments(t)
  /\ lastOp' = "or" /\ turns' = turns + (IF lastOp = "or" THEN 0 ELSE 1)
  /\ UNCHANGED <<condition, retries>>

\* and_stop_after_attempts, and_stop_after_time
AndStop(t) ==
  /\ Call
  /\ stop' = AllOf(Flatten("all", <<stop, t>>))
  /\ stopsAt' = stopsAt \cap StopMoments(t)
  /\ lastOp' = "and" /\ turns' = turns + (IF lastOp = "and" THEN 0 ELSE 1)
  /\ UNCHANGED <<condition, retries>>

SetCondition(c, asked) ==
  /\ Call
  /\ condition' = c
  /\ retries' = asked
  /\ UNCHANGED <<stop, stopsAt, turns, lastOp>>

\* on, retry_if_result, retry_if
On == \E types \in (SUBSET Types) \ {{}} : SetCondition(OnErrors(types), UNION types)
RetryIfResult == \E values \in SUBSET Values : SetCondition(OnValues(values), values)
RetryIf == \E outcomes \in SUBSET Outcomes : SetCondition(OnOutcomes(outcomes), outcomes)

AnyConditions ==
  \E c, d \in Parts :
    SetCondition(AnyOf(Flatten("any", <<c, d>>)), Retried(c) \cup Retried(d))
AllConditions ==
  \E c, d \in Parts :
    SetCondition(AllOf(Flatten("all", <<c, d>>)), Retried(c) \cap Retried(d))

OrCondition(c) == AnyOf(Flatten("any", <<condition, c>>))
OrOn ==
  \E types \in (SUBSET Types) \ {{}} :
    SetCondition(OrCondition(OnErrors(types)), retries \cup UNION types)
OrRetryIfResult ==
  \E values \in SUBSET Values :
    SetCondition(OrCondition(OnValues(values)), retries \cup values)

StopCall ==
  \/ \E t \in Limits \cup UserStops : SetStop(t)
  \/ \E t \in Limits : OrStop(t) \/ AndStop(t)

ConditionCall ==
  On \/ RetryIfResult \/ RetryIf \/ AnyConditions \/ AllConditions \/ OrOn \/ OrRetryIfResult

\* (Bounds: a chain changes the stop strategy or the condition, of which each call
\* leaves one alone, not both, and builds only the trees considered.)
BuilderCall ==
  /\ \/ condition = DefaultCondition /\ StopCall
     \/ stop = Attempts(3) /\ ConditionCall
  /\ stop' \in StopTrees /\ condition' \in ConditionTrees

BuilderSpec == BuilderInit /\ [][BuilderCall]_builderVars

-----------------------------------------------------------------------------
\* The policy stops exactly when the chain says, read from left to right with
\* every or_ and and_ applied to all that stands before it: flattening never
\* changes what a mixed chain means.  And it flattens: however long a chain of one
\* kind is, the tree that should_stop recurses over grows only with the changes
\* between or_ and and_ (tests/regression/test_composite_depth.py asks it of 1200
\* calls).
StopsAsWritten == StopMoments(stop) = stopsAt /\ Depth[stop] <= turns

\* The policy retries exactly the outcomes the chain asks for.
RetriesAsWritten == Retried(condition) = retries
=============================================================================
