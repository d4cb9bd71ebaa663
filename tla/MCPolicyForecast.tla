-------------------------- MODULE MCPolicyForecast --------------------------
(* Values of the constants of PolicyWarnings for model checking: the chains   *)
(* of MCPolicyBuilder, each delay strategy alone, zero and not, and inside a  *)
(* sum, and settings that end, test and bound executions in different ways.   *)
EXTENDS MCPolicyBuilder, PolicyWarnings

SingleDelays ==
  {Fixed(0), Fixed(2), Linear(0, 0, None), Linear(0, 1, None), Linear(1, 1, 0),
   Exponential(0, 2, None), Exponential(1, 2, None), Exponential(1, 1, 0),
   Chain(<<0, 0>>), Chain(<<0, 2>>), RandomIn(0, 0, None), RandomIn(0, 1, None),
   RandomIn(0, 1, 5), RandomExponential(0, 2, 0, None, None),
   RandomExponential(1, 2, 0, 1, None), RandomExponential(1, 2, 2, None, None),
   RandomExponential(1, 1, 0, None, 1), Callback({0, 3})}
SomeDelays ==
  SingleDelays
  \cup {SumOf(<<Fixed(0), d>>) : d \in {Fixed(0), Linear(0, 1, None), RandomIn(0, 1, None)}}
  \cup {SumOf(<<RandomIn(0, 1, 5), SumOf(<<RandomIn(0, 1, None)>>)>>),
        SumOf(<<SumOf(<<Fixed(2), Linear(0, 1, None)>>), Exponential(1, 2, None)>>)}

DelayPartsOf(trees) ==
  UNION {{t.parts[i] : i \in DOMAIN t.parts} : t \in {u \in trees : u.kind = "additive"}}
SomeDelayTrees == SomeDelays \cup DelayPartsOf(SomeDelays) \cup DelayPartsOf(DelayPartsOf(SomeDelays))

Ended(ends, observed) == [DefaultSettings EXCEPT !.ends = ends, !.observed = observed]
SomeEnds ==
  {Ends!OnResultExhausted(p, b) :
     p \in {Ends!DefaultPolicy, Ends!ReturnResult(Ends!DefaultPolicy),
            Ends!Fallback(Ends!DefaultPolicy, "returns"),
            Ends!OnExhaustedRaise(Ends!DefaultPolicy, "fresh")},
     b \in {"return_last", "raise"}}
OtherSettings ==
  {[DefaultSettings EXCEPT !.testing = TRUE], [DefaultSettings EXCEPT !.budget = TRUE],
   [DefaultSettings EXCEPT !.history_limit = None]}
AllTunings ==
  [delay : SomeDelays, settings : {DefaultSettings}]
  \cup [delay : {Fixed(0)}, settings : {Ended(e, o) : e \in SomeEnds, o \in BOOLEAN}]
  \cup [delay : {Fixed(0), Linear(0, 1, None), RandomIn(0, 1, 5)}, settings : OtherSettings]

FewTunings == [delay : SomeDelays, settings : {DefaultSettings}]
\* (After chains of 0 to 3 calls.)
SomeTunings ==
  [n \in 0..3 |-> CASE n <= 1 -> AllTunings
                    [] n = 2 -> FewTunings
                    [] n = 3 -> [delay : {Linear(0, 1, None)}, settings : {DefaultSettings}]]

ShortDurations == {0, 2}
\* (A slot at once, one a little later, and one beyond the ceiling.)
SomeWaits == {0, 1, 6}
=============================================================================
