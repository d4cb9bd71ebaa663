--------------------------- MODULE DelayStrategies ---------------------------
(***************************************************************************)
(* The delay strategies of relinker.delays as records, and the values      *)
(* next_delay(attempt_number) may return.  Times are whole seconds.  A     *)
(* random delay is any value of its range; a seeded one is one value per   *)
(* attempt, the same in every execution.                                   *)
(***************************************************************************)
EXTENDS DelayBounds, Sequences, FiniteSets, FiniteSetsExt, SequencesExt

CONSTANT DelayTrees  \* the delay strategies considered, with all that they are made of

Fixed(s)                == [kind |-> "fixed", seconds |-> s]
Linear(start, step, m)  == [kind |-> "linear", start |-> start, step |-> step, maximum |-> m]
Exponential(b, f, m)    == [kind |-> "exponential", base |-> b, factor |-> f, maximum |-> m]
Chain(delays)           == [kind |-> "chain", delays |-> delays]
RandomIn(lo, hi, seed)  == [kind |-> "random", minimum |-> lo, maximum |-> hi, seed |-> seed]
RandomExponential(b, f, lo, m, seed) ==
  [kind |-> "random_exponential", base |-> b, factor |-> f, minimum |-> lo, maximum |-> m,
   seed |-> seed]
SumOf(parts)            == [kind |-> "additive", parts |-> parts]
Callback(answers)       == [kind |-> "custom", answers |-> answers]

Capped(d, maximum) == IF maximum = None THEN Min({d, MaxSleep}) ELSE Min({d, maximum})

LinearDelay(t, n) == t.start + t.step * (n - 1)

\* Random(seed + n).uniform(lo, hi); with a seed, any fixed value of the range.
Uniform(lo, hi, seed, n) ==
  IF seed = None THEN lo..hi ELSE {lo + ((seed + n) % (hi - lo + 1))}

\* b times f to the power n
Grown(b, f, n) ==
  LET grown[i \in 0..n] == IF i = 0 THEN b ELSE f * grown[i - 1] IN grown[n]

LeafDelays(t, n) ==
  CASE t.kind = "fixed" -> {t.seconds}
    [] t.kind = "linear" -> {Capped(LinearDelay(t, n), t.maximum)}
    [] t.kind = "exponential" -> {Capped(Grown(t.base, t.factor, n - 1), t.maximum)}
    [] t.kind = "chain" -> {t.delays[Min({n, Len(t.delays)})]}
    [] t.kind = "random" -> Uniform(t.minimum, t.maximum, t.seed, n)
    [] t.kind = "random_exponential" ->
         IF t.base = 0 THEN {t.minimum}
         ELSE Uniform(t.minimum,
                      Max({t.minimum, Capped(Grown(t.base, t.factor, n - 1), t.maximum)}),
                      t.seed, n)
    [] t.kind = "custom" -> t.answers

\* A sum, cut at the ceiling as each of its parts is added.
CutSums(delays, sums) == {Min({p[1] + p[2], MaxSleep}) : p \in delays \X sums}
AddedUp(delays) ==
  LET sums[i \in 0..Len(delays)] ==
        IF i = 0 THEN {0} ELSE CutSums(delays[i], sums[i - 1])
  IN sums[Len(delays)]

\* next_delay(attempt_number), of every strategy
Delays(n) ==
  LET delays[t \in DelayTrees] ==
        IF t.kind = "additive" THEN AddedUp([i \in DOMAIN t.parts |-> delays[t.parts[i]]])
        ELSE LeafDelays(t, n)
  IN delays
NextDelays(t, n) == Delays(n)[t]

\* The strategies that a stack over nested sums visits.
LeavesOf[t \in DelayTrees] ==
  IF t.kind = "additive" THEN UNION {LeavesOf[t.parts[i]] : i \in DOMAIN t.parts} ELSE {t}

\* How deep sums are nested in t: a sum is made of strategies that exist already.
SumDepth[t \in DelayTrees] ==
  IF t.kind = "additive" THEN 1 + Max({0} \cup {SumDepth[t.parts[i]] : i \in DOMAIN t.parts})
  ELSE 0

\* What each strategy checks when it is made; the answers of a callback are checked
\* by ensure_resolved_delay.
Duration == 0..MaxSleep
ValidDelay(t) ==
  \/ t.kind = "fixed" /\ t.seconds \in Duration
  \/ t.kind = "linear" /\ t.start \in Duration /\ t.step \in Nat
                         /\ t.maximum \in Duration \cup {None}
  \/ t.kind = "exponential" /\ t.base \in Nat /\ t.factor \in Nat \ {0}
                              /\ t.maximum \in Duration \cup {None}
  \/ t.kind = "chain" /\ t.delays \in Seq(Duration) /\ t.delays # <<>>
  \/ t.kind = "random" /\ t.minimum \in Duration /\ t.maximum \in t.minimum..MaxSleep
                         /\ t.seed \in Int
  \/ t.kind = "random_exponential"
       /\ t.base \in Nat /\ t.factor \in Nat \ {0} /\ t.minimum \in Duration
       /\ t.maximum \in (t.minimum..MaxSleep) \cup {None} /\ t.seed \in Int
  \/ t.kind = "custom" /\ t.answers \in (SUBSET Duration) \ {{}}
  \/ t.kind = "additive" /\ t.parts \in Seq(DelayTrees)

ASSUME DelayTreesAssumption ==
  /\ \A t \in DelayTrees : ValidDelay(t)
  /\ SumDepth \in [DelayTrees -> Nat]
  /\ \A t \in DelayTrees :
       t.kind = "additive" => \A i \in DOMAIN t.parts : SumDepth[t.parts[i]] < SumDepth[t]
=============================================================================
