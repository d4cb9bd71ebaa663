---------------------------- MODULE PolicyWarnings ----------------------------
(***************************************************************************)
(* policy.warnings() and policy.doctor(): the advisory warnings about a    *)
(* policy, computed from its trees and settings, and the risk they add up  *)
(* to, against the executions of PolicyForecast.                           *)
(***************************************************************************)
EXTENDS PolicyForecast

CONSTANTS ManyAttempts,    \* 10: attempts counted as many
          LongSleep,       \* 300: seconds of sleep counted as long
          ProbedAttempts,  \* 10: attempts simulated when no limit is known
          OSError,         \* the class the warning broad_os_error is about
          PlainException, PlainOSError  \* an error of exactly that class

ASSUME WarningsAssumption ==
  /\ {ManyAttempts, LongSleep, ProbedAttempts} \subseteq Nat
  /\ \A T \in Types : /\ PlainException \in T <=> T = Exception
                      /\ PlainOSError \in T <=> T \in {Exception, OSError}

-----------------------------------------------------------------------------
\* Mutants of definitions below, one plausible slip each.
CapOneRetryLate(t, n) == Grown(t.base, t.factor, n)
UnobservedUnlessRaised == settings.ends.result_exhausted_behavior # "raise"
ProbedOnly == ProbedAttempts

\* _random_exponential_can_vary without the growth of the bound.
VariesFromTheStart(t, n) ==
  n # 0 /\ t.base > t.minimum /\ (t.maximum # None => t.maximum > t.minimum)
-----------------------------------------------------------------------------
(* Conditions. *)

HasResultCondition(c) ==
  Holds(ConditionTrees, [d \in ConditionTrees |-> d.kind = "result"], {"any", "all"}, {})[c]

\* _has_broad_exception and _has_broad_os_error, by the classes that are broad.
HasBroad(c, broad) ==
  Holds(ConditionTrees,
        [d \in ConditionTrees |-> d.kind = "exception" /\ d.types \cap broad # {}],
        {"any"}, {"all"})[c]

HasBroadException == HasBroad(condition, {Exception})

\* Mutant: it is overlooked that Exception covers OSError.
OSErrorsOnly == HasBroad(condition, {OSError})

HasBroadOSError == HasBroad(condition, {OSError, Exception})

(* The number of attempts. *)

HasMaxTime(t) ==
  Holds(StopTrees, [u \in StopTrees |-> u.kind = "max_time"], {"any", "all"}, {})[t]

IsForever == StopIsInfinite(stop)
CanRetry == ~StopsAfterFirstAttempt(stop)
Limit == KnownAttemptLimit[stop]
HighAttemptCount == Limit # None /\ Limit >= ManyAttempts

\* The retries whose delays can be drawn; None is no bound.
MaximumDelayAttempts ==
  IF ~CanRetry THEN 0 ELSE IF Limit = None THEN None ELSE Max({0, Limit - 1})

(* Delays. *)

CapAt(t, n) == Grown(t.base, t.factor, n - 1)

\* _random_exponential_can_vary: some retry up to the n-th draws from a range.
RandomExponentialCanVary(t, n) ==
  /\ n # 0 /\ t.base > 0
  /\ t.maximum # None => t.maximum > t.minimum
  /\ IF t.factor <= 1 THEN t.base > t.minimum
     ELSE n # None => CapAt(t, n) > t.minimum

\* _has_effective_random_delay, of leaves that are `seeded' or not.
HasEffectiveRandomDelay(seeded) ==
  /\ MaximumDelayAttempts # 0
  /\ \E leaf \in LeavesOf[delay] :
       /\ \/ leaf.kind = "random" /\ leaf.maximum > leaf.minimum
          \/ leaf.kind = "random_exponential"
             /\ RandomExponentialCanVary(leaf, MaximumDelayAttempts)
       /\ (leaf.seed # None) \in seeded

HasPositiveDeterministicDelay ==
  \E leaf \in LeavesOf[delay] :
    \/ leaf.kind = "fixed" /\ leaf.seconds > 0
    \/ leaf.kind = "linear" /\ leaf.maximum # 0 /\ (leaf.start > 0 \/ leaf.step > 0)
    \/ leaf.kind = "exponential" /\ leaf.maximum # 0 /\ leaf.base > 0

HasUnboundedExponential ==
  \E leaf \in LeavesOf[delay] :
    leaf.kind \in {"exponential", "random_exponential"}
    /\ leaf.maximum = None /\ leaf.base > 0 /\ leaf.factor > 1

IsNoDelay == DelayIsAlwaysZero(delay)

-----------------------------------------------------------------------------
(* The warnings, by their codes. *)

ImplicitDefaultPolicy ==
  stop = Attempts(3) /\ delay = Fixed(0) /\ condition = DefaultCondition

UnboundedHistory == IsForever /\ settings.history_limit = None

BroadException == CanRetry /\ HasBroadException
BroadOSError == CanRetry /\ ~HasBroadException /\ HasBroadOSError

SimulatedAttempts == IF Limit = None THEN ProbedAttempts ELSE Limit

\* A policy with user callbacks cannot be simulated: the check is skipped.
TotalSleepCheck == CanRetry /\ ~IsForever
Skipped == {check \in {"high_total_sleep"} : TotalSleepCheck /\ HasUserCallback(delay)}
HighTotalSleep ==
  /\ TotalSleepCheck /\ ~HasUserCallback(delay)
  /\ SumSeq(Simulate(SimulatedAttempts).delays) > LongSleep

ResultUnobserved ==
  /\ ~settings.ends.should_return_result
  /\ settings.ends.exhausted_callback = "none"
  /\ settings.ends.exhausted_exception_factory = "none"
  /\ settings.ends.result_exhausted_behavior # "raise"
ResultRetryWithoutObservation == CanRetry /\ HasResultCondition(condition) /\ ResultUnobserved

MissingJitter ==
  /\ CanRetry /\ HighAttemptCount /\ HasPositiveDeterministicDelay
  /\ ~HasEffectiveRandomDelay(BOOLEAN)

SeededRandomDelay ==
  /\ ~settings.testing
  /\ HasEffectiveRandomDelay({TRUE}) /\ ~HasEffectiveRandomDelay({FALSE})

MissingRetryBudget == CanRetry /\ (IsForever \/ HighAttemptCount) /\ ~settings.budget

SilentFallback ==
  /\ CanRetry /\ settings.ends.exhausted_callback # "none" /\ ~settings.observed
  /\ ~settings.ends.should_return_result

BackgroundBroadException == CanRetry /\ HasBroadException /\ (IsForever \/ HighAttemptCount)

Warns(code) ==
  CASE code = "implicit_default_policy" -> ImplicitDefaultPolicy
    [] code = "forever" -> IsForever
    [] code = "no_delay" -> CanRetry /\ IsNoDelay
    [] code = "tight_loop_risk" -> IsForever /\ IsNoDelay
    [] code = "unbounded_exponential_with_forever" -> IsForever /\ HasUnboundedExponential
    [] code = "unbounded_history" -> UnboundedHistory
    [] code = "broad_exception" -> BroadException
    [] code = "broad_os_error" -> BroadOSError
    [] code = "many_attempts" -> CanRetry /\ Limit # None /\ Limit > ManyAttempts
    [] code = "high_total_sleep" -> HighTotalSleep
    [] code = "result_retry_without_observation" -> ResultRetryWithoutObservation
    [] code = "missing_jitter" -> MissingJitter
    [] code = "seeded_random_delay" -> SeededRandomDelay
    [] code = "missing_retry_budget" -> MissingRetryBudget
    [] code = "silent_fallback" -> SilentFallback
    [] code = "infinite_retry_with_budget" -> IsForever /\ settings.budget
    [] code = "for_testing_with_max_time" -> settings.testing /\ HasMaxTime(stop)
    [] code = "background_broad_exception" -> BackgroundBroadException

Codes ==
  {"implicit_default_policy", "forever", "no_delay", "tight_loop_risk",
   "unbounded_exponential_with_forever", "unbounded_history", "broad_exception", "broad_os_error",
   "many_attempts", "high_total_sleep", "result_retry_without_observation", "missing_jitter",
   "seeded_random_delay", "missing_retry_budget", "silent_fallback", "infinite_retry_with_budget",
   "for_testing_with_max_time", "background_broad_exception"}

Critical == {"forever", "tight_loop_risk", "unbounded_history", "background_broad_exception"}

\* PolicyHealthReport.risk_level
RiskLevel ==
  IF \E code \in Critical : Warns(code) THEN "risky"
  ELSE IF Skipped # {} \/ (\E code \in Codes : Warns(code)) THEN "warning" ELSE "ok"

-----------------------------------------------------------------------------
HasUserCondition(c) ==
  Holds(ConditionTrees, [d \in ConditionTrees |-> d.kind = "custom"], {"any", "all"}, {})[c]

Exhausted == decision.kind = "exhaust"
CallerSees == Ends!Run(settings.ends, decision)
Varies(n) == Cardinality(NextDelays(delay, n)) > 1
Deterministic == \A n \in 1..MaxAttempt : ~Varies(n)

\* The shared budget made a retry wait, or could not schedule one.
Deferred == \E i \in DOMAIN waits : waits[i] # 0
Unscheduled == \E i \in DOMAIN waits : waits[i] = None

\* A policy reported as retrying forever never stops by itself, in the load
\* estimate and in every warning about it alike.  Only a shared budget that cannot
\* schedule a retry ends its execution (test_budget_ceiling_exhaustion.py), and
\* there the warning about a budget was given, too.
ForeverNeverStops ==
  /\ EstimateAttempts[stop].unbounded = StopIsInfinite(stop)
  /\ Exhausted =>
       \A code \in {"forever", "tight_loop_risk", "unbounded_exponential_with_forever",
                    "unbounded_history", "infinite_retry_with_budget"} :
         Warns(code) => Unscheduled /\ Warns("infinite_retry_with_budget")

\* simulate() is what happens: with deterministic delays and attempts that take
\* no time, an execution sleeps exactly the simulated delays and is exhausted at
\* the simulated attempt; also in tests without real sleeps, unless the warning
\* for_testing_with_max_time is given.  "Shared retry-budget waiting is not
\* included" (policy_simulation.py:314): an execution that a budget has deferred is
\* excepted, not every one that has a budget.
SimulationIsTheIdleRun ==
  Deterministic /\ ~busy /\ ~Deferred /\ ~Warns("for_testing_with_max_time") =>
    LET sim == Simulate(attempt)
    IN /\ phase = "attempt" => slept = sim.delays /\ ~sim.stops
       /\ Exhausted => slept = sim.delays /\ sim.stops

\* Executions of one policy drift apart only if it is analysed as having an
\* effective unseeded random delay: no retry that was reached varies otherwise,
\* least of all one warned of missing jitter or a fixed seed.
RandomnessIsReported ==
  ~HasUserCallback(delay) /\ (\E n \in DOMAIN slept : Varies(n)) =>
    /\ HasEffectiveRandomDelay({FALSE})
    /\ ~Warns("missing_jitter") /\ ~Warns("seeded_random_delay")

\* Neither analysis says more than it must.  A delay that is not analysed as always
\* zero sleeps at some attempt, and one analysed as random varies at some retry,
\* within the limit if there is one: callbacks aside, whose answers are not known.
ReportsAreTight ==
  ~HasUserCallback(delay) =>
    /\ ~DelayIsAlwaysZero(delay) => \E n \in 1..(MaxAttempt + 1) : NextDelays(delay, n) # {0}
    /\ HasEffectiveRandomDelay({FALSE}) =>
         \E n \in 1..(IF Limit = None THEN MaxAttempt ELSE Limit - 1) : Varies(n)

\* Nobody is left without a sign of exhaustion unless a warning says so: a caller
\* who gets the rejected value as if it were accepted, or a fallback with nobody
\* listening, was warned; and what is warned of does happen.
ExhaustionIsObserved ==
  Exhausted /\ attempt > 1 /\ ~HasUserCondition(condition) =>
    /\ CallerSees = Ends!Returns("value") <=>
         cause = "result" /\ Warns("result_retry_without_observation")
    /\ CallerSees.what \in {"fallback", "callback_error"} /\ ~settings.observed <=>
         Warns("silent_fallback")

\* An execution that sleeps long was announced, or the report says that the check
\* could not be made: as far as the simulation looks, which leaves a budget's waits
\* out, and for delays that do not depend on chance or on how long attempts take.
LongSleepIsReported ==
  /\ Deterministic /\ ~busy /\ ~Deferred /\ ~IsForever /\ ~settings.testing
  /\ Limit # None \/ attempt <= ProbedAttempts
  /\ SumSeq(slept) > LongSleep
  => (Warns("high_total_sleep") \/ Skipped # {}) /\ RiskLevel # "ok"

\* The warnings about broad conditions are about what is retried, however a tree
\* of conditions was put together: every plain Exception, or every plain OSError
\* only; and when a policy without a time limit keeps retrying everything, it was
\* called risky.
BroadMeansBroad ==
  ~HasUserCondition(condition) =>
    /\ CanRetry => /\ Warns("broad_exception") <=> PlainException \in retries
                   /\ Warns("broad_os_error") <=>
                        PlainOSError \in retries /\ PlainException \notin retries
    /\ PlainException \in retries /\ attempt > 1 /\ attempt >= ManyAttempts /\ ~HasMaxTime(stop)
         => RiskLevel = "risky"
=============================================================================
