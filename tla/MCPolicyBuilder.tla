--------------------------- MODULE MCPolicyBuilder ---------------------------
(* Values of PolicyBuilder's constants for model checking: strategies that    *)
(* stop at once, at a limit and never, composites of two levels on top of     *)
(* which chains build more, classes of exceptions inside each other.          *)
EXTENDS PolicyBuilder

CONSTANTS plain, os, connection, val1

SomeErrors == {plain, os, connection}
OneValue == {val1}
OSErrors == {os, connection}
Connection == {connection}
SomeTypes == {SomeErrors, OSErrors, Connection}

SomeLimits == {Attempts(1), Attempts(3), MaxTime(0), MaxTime(3)}
SomeStops ==
  {Forever, Attempts(4), AnyOf(<<Attempts(3), Forever>>), AllOf(<<MaxTime(3), Forever>>),
   AnyOf(<<Attempts(3), AllOf(<<Attempts(2), MaxTime(1)>>)>>),
   AllOf(<<AllOf(<<Attempts(2), MaxTime(1)>>), MaxTime(2)>>)}
SomeParts ==
  {OnErrors({OSErrors}), OnValues({val1}), OnOutcomes({os, val1}),
   AnyOf(<<OnErrors({Connection}), OnValues({val1})>>),
   AllOf(<<OnErrors({SomeErrors, Connection}), OnErrors({OSErrors})>>)}

\* Every tree that a chain of MaxCalls calls builds from the given ones, and what
\* those are made of.
OrWith(trees, added) == {AnyOf(Flatten("any", <<t, u>>)) : t \in trees, u \in added}
AndWith(trees, added) == {AllOf(Flatten("all", <<t, u>>)) : t \in trees, u \in added}
PartsOf(trees) ==
  UNION {{t.parts[i] : i \in DOMAIN t.parts} : t \in {u \in trees : IsComposite(u)}}
WithParts(trees) == trees \cup PartsOf(trees) \cup PartsOf(PartsOf(trees))

StopChains ==
  LET chains[n \in 0..MaxCalls] ==
        IF n = 0 THEN WithParts({Attempts(3)} \cup SomeLimits \cup SomeStops)
        ELSE LET trees == chains[n - 1]
             IN trees \cup OrWith(trees, SomeLimits) \cup AndWith(trees, SomeLimits)
  IN chains[MaxCalls]
SomeStopTrees == StopChains

SomeErrorConditions == {OnErrors(types) : types \in (SUBSET SomeTypes) \ {{}}}
SomeResultConditions == {OnValues(values) : values \in SUBSET OneValue}
SomeOutcomes == {OnOutcomes(outcomes) : outcomes \in SUBSET (SomeErrors \cup OneValue)}
ConditionChains ==
  LET added == SomeErrorConditions \cup SomeResultConditions
      chains[n \in 1..MaxCalls] ==
        IF n = 1 THEN WithParts(added \cup SomeOutcomes \cup SomeParts)
                      \cup OrWith(SomeParts, SomeParts) \cup AndWith(SomeParts, SomeParts)
        ELSE LET trees == chains[n - 1] IN trees \cup OrWith(trees, added)
  IN chains[MaxCalls]
SomeConditionTrees == ConditionChains
=============================================================================
