---------------------------- MODULE PolicyForecast ----------------------------
(***************************************************************************)
(* What relinker says about a policy without running it, against what the  *)
(* policy does: the delay strategies, the static analyses in               *)
(* policy_diagnostics and policy_simulation of their trees and of the stop *)
(* strategies that chains of PolicyBuilder calls build, and an execution   *)
(* of the policy.                                                          *)
(***************************************************************************)
EXTENDS PolicyBuilder, DelayStrategies

CONSTANTS Tunings,     \* the delays and settings considered after a chain of so many calls
          Durations,   \* how long an attempt may take
          BudgetWaits, \* how long a shared budget may make a retry wait for its slot
          MaxAttempt   \* bound: attempts followed

ASSUME ForecastAssumption ==
  Durations \subseteq Nat /\ BudgetWaits \subseteq Nat /\ MaxAttempt \in Nat \ {0}

VARIABLES delay,     \* the policy's delay strategy; stop and condition are the builder's
          settings,  \* its other fields that the analyses look at
          attempt, elapsed,
          cause,     \* why the last attempt is retried: "exception" or "result"
          decision,  \* the FinalDecision, see Exhaustion
          slept,     \* history: the delays slept
          waits,     \* history: what the budget added to each planned delay, None: no plan
          busy,      \* history: whether an attempt took any time
          phase         \* "build", "attempt", "decide" or "stopped"

policyVars == <<builderVars, delay, settings>>
run  == <<attempt, elapsed, cause, decision, slept, waits, busy>>
forecastVars == <<policyVars, run, phase>>

\* What a caller sees at the end of an execution.
Ends == INSTANCE Exhaustion WITH policy <- settings.ends, behavior <- lastOp, onResult <- lastOp

\* keep_history, with_retry_budget, for_testing and on_giveup configure these.
DefaultSettings ==
  [ends |-> Ends!DefaultPolicy, history_limit |-> 1000, budget |-> FALSE,
   testing |-> FALSE, observed |-> FALSE]

\* A chain of builder methods leaves one final behaviour: raise_last unless another
\* one was called for.
Endings ==
  {p \in Ends!Policies :
     p.should_raise_last <=> /\ ~p.should_return_result /\ p.exhausted_callback = "none"
                             /\ p.exhausted_exception_factory = "none"}

ASSUME TuningsAssumption ==
  /\ Fixed(0) \in DelayTrees
  /\ \A n \in 0..MaxCalls : \A t \in Tunings[n] :
       t.delay \in DelayTrees /\ t.settings.ends \in Endings

-----------------------------------------------------------------------------
(* The analyses of policy_diagnostics. *)

StopIsInfinite(t) ==
  Holds(StopTrees, [u \in StopTrees |-> u.kind = "forever"], {"all"}, {"any"})[t]

StopsAfterFirstAttempt(t) ==
  Holds(StopTrees,
        [u \in StopTrees |-> \/ u.kind = "attempts" /\ u.maximum <= 1
                             \/ u.kind = "max_time" /\ u.seconds <= 0],
        {"any"}, {"all"})[t]

\* The smallest of the limits that are known.
LimitOfAnyStop(limits) == IF limits = {} THEN None ELSE Min(limits)

\* The limit of a strategy, from the limits of its parts.
LimitOf(t, limits) ==
  CASE t.kind = "attempts" -> t.maximum
    [] t.kind \in {"forever", "max_time"} -> None
    [] t.kind = "any" -> LimitOfAnyStop(limits \ {None})
    [] t.kind = "all" ->
         IF (\E i \in DOMAIN t.parts : StopIsInfinite(t.parts[i])) \/ None \in limits THEN None
         ELSE Max(limits)

KnownAttemptLimit[t \in StopTrees] ==
  LimitOf(t, IF IsComposite(t) THEN {KnownAttemptLimit[t.parts[i]] : i \in DOMAIN t.parts}
             ELSE {})

\* Mutant: the step is overlooked.
LinearIsZeroAtStart(t) == t.maximum = 0 \/ t.start = 0

LinearIsZero(t) == t.maximum = 0 \/ (t.start = 0 /\ t.step = 0)

LeafIsAlwaysZero(t) ==
  CASE t.kind = "fixed" -> t.seconds = 0
    [] t.kind = "linear" -> LinearIsZero(t)
    [] t.kind = "exponential" -> t.base = 0 \/ t.maximum = 0
    [] t.kind = "chain" -> \A i \in DOMAIN t.delays : t.delays[i] = 0
    [] t.kind = "random" -> t.minimum = 0 /\ t.maximum = 0
    [] t.kind = "random_exponential" ->
         t.minimum = 0 /\ (t.base = 0 \/ t.maximum = 0)
    [] t.kind = "custom" -> FALSE

DelayIsAlwaysZero(t) == \A leaf \in LeavesOf[t] : LeafIsAlwaysZero(leaf)

(* The analyses of policy_simulation. *)

\* Mutant: one unbounded child makes the composite unbounded.
UnboundedIfSome(estimates) == \E e \in estimates : e.unbounded

\* An AnyStopStrategy without a bounded child.
UnboundedAny(estimates) == \A e \in estimates : e.unbounded

Unbounded == [maximum |-> None, unbounded |-> TRUE]
Partial   == [maximum |-> None, unbounded |-> FALSE]
UpTo(n)   == [maximum |-> n, unbounded |-> FALSE]

\* The estimate of a strategy, from the estimates of its parts.
EstimateOf(t, estimates) ==
  LET bounded == {e.maximum : e \in estimates} \ {None}
  IN CASE t.kind = "attempts" -> UpTo(t.maximum)
       [] t.kind = "forever" -> Unbounded
       [] t.kind = "max_time" -> Partial
       [] t.kind = "any" ->
            IF bounded # {} THEN UpTo(Min(bounded))
            ELSE IF UnboundedAny(estimates) THEN Unbounded ELSE Partial
       [] t.kind = "all" ->
            IF \E e \in estimates : e.unbounded THEN Unbounded
            ELSE IF \A e \in estimates : e.maximum # None THEN UpTo(Max(bounded))
            ELSE Partial

\* _estimate_attempts: the maximum, and whether the strategy is unbounded; it is
\* partial when it is neither bounded nor unbounded.
EstimateAttempts[t \in StopTrees] ==
  EstimateOf(t, IF IsComposite(t) THEN {EstimateAttempts[t.parts[i]] : i \in DOMAIN t.parts}
                ELSE {})

HasUserCallback(t) == \E leaf \in LeavesOf[t] : leaf.kind = "custom"

\* Mutant: the delay that would overrun the limit is simulated all the same.
SimulateWithoutLookahead(sim, n) ==
  LET d == CHOOSE x \in NextDelays(delay, n) : TRUE
  IN IF sim.stops \/ ShouldStop(stop, n, sim.elapsed)
     THEN [sim EXCEPT !.stops = TRUE]
     ELSE [sim EXCEPT !.elapsed = @ + d, !.delays = Append(@, d)]

\* simulate_policy with n attempts, without user callbacks: the delays before the
\* next attempt of those that do not stop.
SimulateStep(sim, n) ==
  LET d == CHOOSE x \in NextDelays(delay, n) : TRUE
  IN IF sim.stops \/ ShouldStop(stop, n, sim.elapsed) \/ ShouldStop(stop, n, sim.elapsed + d)
     THEN [sim EXCEPT !.stops = TRUE]
     ELSE [sim EXCEPT !.elapsed = @ + d, !.delays = Append(@, d)]

Simulate(n) ==
  LET after[i \in 0..n] ==
        IF i = 0 THEN [elapsed |-> 0, delays |-> <<>>, stops |-> FALSE]
        ELSE SimulateStep(after[i - 1], i)
  IN after[n]

\* estimate_policy_load: the calls of so many concurrent executions.
EstimateTotalCalls(executions) ==
  LET maximum == EstimateAttempts[stop].maximum
  IN IF maximum = None THEN None ELSE executions + executions * Max({0, maximum - 1})

-----------------------------------------------------------------------------
ForecastInit ==
  /\ BuilderInit /\ delay = Fixed(0) /\ settings = DefaultSettings
  /\ attempt = 0 /\ elapsed = 0 /\ cause = "none" /\ decision = Ends!Undecided
  /\ slept = <<>> /\ waits = <<>> /\ busy = FALSE /\ phase = "build"

Build == phase = "build" /\ BuilderCall /\ UNCHANGED <<delay, settings, run, phase>>

\* The remaining methods give the policy its delay and settings, and it runs.
\* (Bounds: policies with another condition are followed under the default stop
\* and delay only, and other settings under single stop strategies.  The chain is
\* over: chains of any length that built the same policy run alike.)
Begin ==
  /\ phase = "build" /\ phase' = "attempt"
  /\ \E t \in Tunings[calls] :
       /\ delay' = t.delay /\ settings' = t.settings
       /\ condition # DefaultCondition => stop = Attempts(3) /\ t.delay = Fixed(0)
       /\ t.settings # DefaultSettings => stop \in Limits \cup UserStops
  /\ calls' = MaxCalls
  /\ UNCHANGED <<stop, condition, stopsAt, retries, turns, lastOp, run>>

Stop(kind, error, retry_cause) ==
  /\ decision' = [kind |-> kind, error |-> error, retry_cause |-> retry_cause]
  /\ phase' = "stopped"

\* The function runs for d seconds and ends with outcome o.
Attempt(o) ==
  /\ phase = "attempt" /\ attempt < MaxAttempt
  /\ \E d \in Durations :
       /\ elapsed' = elapsed + d
       /\ busy' = (busy \/ d > 0)
  /\ attempt' = attempt + 1
  /\ cause' = IF o \in Exceptions THEN "exception" ELSE "result"
  /\ IF ShouldRetry(condition, o) THEN phase' = "decide" /\ UNCHANGED decision
     ELSE IF o \in Exceptions THEN Stop("reject", "itself", "none")
     ELSE Stop("accept", "none", "none")
  /\ UNCHANGED <<policyVars, slept, waits>>

Exhaust ==
  /\ Stop("exhaust", IF cause = "exception" THEN "itself" ELSE "none", cause)
  /\ UNCHANGED <<elapsed, slept>>

\* budget_delay, what plan_retry_wait adds to the delay of the policy: which slot is
\* free depends on all who share the budget, so any wait may come (module
\* RetrySystem follows the slots).
BudgetDelays == IF settings.budget THEN BudgetWaits ELSE {0}

\* sleep_before_retry.  The sleep that for_testing() substitutes takes no time.
Sleep(total) ==
  /\ elapsed' = IF settings.testing THEN elapsed ELSE elapsed + total
  /\ slept' = Append(slept, total)
  /\ phase' = "attempt"
  /\ UNCHANGED decision

\* RetryFlow: stop now, give up on a budget that cannot schedule the retry within
\* MAX_SLEEP_SECONDS, stop rather than sleep, or sleep.
Decide ==
  /\ phase = "decide"
  /\ IF ShouldStop(stop, attempt, elapsed) THEN Exhaust /\ UNCHANGED waits
     ELSE \E d \in NextDelays(delay, attempt), w \in BudgetDelays :
            LET scheduled == d + w <= MaxSleep
            IN /\ waits' = Append(waits, IF scheduled THEN w ELSE None)
               /\ IF scheduled /\ ~ShouldStop(stop, attempt, elapsed + d + w)
                  THEN Sleep(d + w) ELSE Exhaust
  /\ UNCHANGED <<policyVars, attempt, cause, busy>>

ForecastNext == Build \/ Begin \/ (\E o \in Outcomes : Attempt(o)) \/ Decide

ForecastSpec == ForecastInit /\ [][ForecastNext]_forecastVars

-----------------------------------------------------------------------------
\* estimate_load never promises fewer calls than an execution makes, and its
\* bound is the one the warnings use: two analyses, written twice over the same
\* trees (policy_simulation.py:98, policy_diagnostics.py:209).  A third analysis
\* switches off all warnings about retries: a policy reported by it as never
\* retrying makes one attempt, however short that is.
AnalysesBoundAttempts ==
  LET e == EstimateAttempts[stop]
  IN /\ e.maximum # None => attempt <= e.maximum /\ 2 * attempt <= EstimateTotalCalls(2)
     /\ e.maximum = KnownAttemptLimit[stop]
     /\ StopsAfterFirstAttempt(stop) => attempt <= 1

\* A delay reported as always zero never sleeps: if an execution sleeps, that is
\* what a shared budget made it wait for its slot.
NoDelayMeansNoSleep == DelayIsAlwaysZero(delay) => \A i \in DOMAIN slept : slept[i] = waits[i]
=============================================================================
