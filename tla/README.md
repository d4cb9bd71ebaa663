# A verification of relinker

relinker is a retry library: a `RetryPolicy`, built by a chain of methods, runs a
function until an attempt is accepted, rejected or the policy gives up. This
directory holds TLA+ modules of its core, the TLC configurations that check them
on small instances, and TLAPS proofs, for all instances, of what the retry budget,
the executions that share it, their events and results, the exhaustion behaviour,
the statistics, the trees of strategies that a policy is built of and the analyses
of them promise. Two short abstract specifications, a ledger of
reservations and the lifecycle of an execution, say what the detailed modules
implement. All paths below are relative to `src/` (the repository); library files are under
`src/relinker/`.

To run a check: `tlc -workers 2 -config slot_scan.cfg MCSlotScan.tla`;
to check the proofs: `tlapm RetryBudget_proofs.tla`, and so on for each `*_proofs` module. `PROJECT.json` maps every
definition to the lines it models.

## 1. Inventory

| Component | State | Operations | Hard part | What makes it correct |
|---|---|---|---|---|
| Retry budget (`budget.py`) | table key → scheduled reservations, token and operation counters, a lock | `_reserve`, `_release`, `snapshot`, `cleanup`, amortized cleanup | the clock is read before the lock is taken; slots in the future leave gaps; sums of floats round; keys are swept while in use | no rolling window overfilled; slots as early as possible; nothing forgotten that counts; a release frees only its own reservation |
| Wait planning (`internal/retry_wait.py`) | the plan of one retry | `plan_retry_wait`, `release_retry_wait` | a reservation must be used once or given back, on every path | no reservation leaks; no retry is early or unpaid |
| Execution flow (`internal/executor_flow.py`, `executors/`) | a run's start time, the runtime, the plan | attempt, decide, plan, sleep, give up | user code (function, strategies, handlers) runs and may raise at every point; time passes inside it | `max_time` includes waits; event order; every run ends |
| Retry blocks (`context/`) | iterator: `finished`, outcome; contexts | `__next__`, `__enter__`, `__exit__` | the loop belongs to the user, who may catch, leave, skip | a final decision ends iteration; the lifecycle of `run()` while the loop keeps to the protocol |
| Runtime counters, history (`internal/runtime.py`, `attempt.py`, `state.py`) | counters, bounded deque | record, result | history is cut, totals are not | totals describe the whole run |
| Events (`event.py`, `policy.py` `emit`) | registrations | `emit` | isolated and propagating failures, interruptions | every handler hears the event |
| Exhaustion (`internal/exhaustion.py`, `internal/decorator.py`, builder) | five fields of a policy | builder methods, `finish_exhausted`, `resolve_tracked_result`, `_finish` | the same decision is made on three paths | last behaviour wins; paths agree |
| Policy builder (`policy.py`) | stop, condition, delay, ... (immutable) | one method per setting; `or_`/`and_` methods | composites are flattened | a chain means what it says |
| Stop and delay strategies (`stop/`, `delays/`) | none | `should_stop`, `next_delay`, `resolve_delay` | nested composites, saturation, state-aware callbacks | sum of the leaves, each asked once, with the real state |
| Analyses (`internal/policy_diagnostics.py`, `internal/policy_simulation.py`) | none | estimate, simulate, warn, doctor | the semantics of strategies, conditions and exhaustion are written again | they agree with executions |
| HTTP helpers (`http.py`) | none | `http_retry_policy`, `retry_after_delay`, `parse_retry_after` | what a server sends becomes a delay | it can always be slept and is obeyed within its limits |
| Statistics (`stats.py`) | counters, a lock | `record`, `snapshot`, `reset` | threads | no update lost, snapshots consistent |
| Conditions, results, presets, logging, serialization, validation, testing helpers | none | predicates, formatting, argument checks | — | partly or not modelled, see section 8 |

How they interact: an executor or a block owns a `RetryFlow`; the flow records in
its `RetryRuntime`, emits through the policy, asks the policy's condition, stop and
delay strategies, plans the wait with the budget shared by all policies that were
given it, and ends in the exhaustion behaviour. Threads share only budgets and
statistics; all other objects are immutable or belong to one execution.

The hazards of this code are listed with their lines and the properties that
cover them in `PROJECT.json`.

## 2. Modules

| Module | Models | Form |
|---|---|---|
| `BudgetSlots` | the slot arithmetic of the budget | operators |
| `FloatClock` | the floating-point arithmetic of its times (external) | operators |
| `SlotLedger` | what a budget promises its callers | abstract state machine |
| `RetryBudget` | the budget shared by threads | state machine over `BudgetSlots`, implements `SlotLedger` |
| `SlotScan` | the loop of `_first_legal_slot`, one step per iteration | state machine over `BudgetSlots` |
| `RetryLifecycle` | what one execution promises | abstract state machine |
| `RetrySystem` | executions competing for a budget | composes `RetryBudget` (INSTANCE), implements `Budget!Spec`, and `RetryLifecycle` for each execution |
| `RetryFlow` | one execution: events, counters, `run()` and blocks | state machine, implements `RetryLifecycle` |
| `Exhaustion` | exhaustion builders and the end of an execution on three paths | state machine over chains of calls |
| `StopStrategies` | trees of stop strategies, `should_stop` | recursive functions |
| `PolicyBuilder` | builder calls on stop strategies and conditions | actions over `StopStrategies` |
| `DelayBounds` | the ceiling of `internal/validation.py`, sums of delays | operators |
| `DelayStrategies` | the delay strategies and `next_delay` | recursive functions |
| `PolicyForecast` | stop and delay analyses, load estimate, simulation, an execution of the policy | composes `PolicyBuilder`, `DelayStrategies` and `Exhaustion` (INSTANCE) |
| `PolicyWarnings` | the warnings, skipped checks and risk level | operators over `PolicyForecast` |
| `DelayTree` | `resolve_delay` over nested sums with its explicit stack | state machine |
| `HttpRetry` | Retry-After delays and the outcomes of `http_retry_policy` | operators over `DelayTree` |
| `DecoratedStats` | a decorated function and its statistics on several threads | state machine |
| `*_proofs` | theorems | extend their component |
| `MC*` | values of constants for TLC | extend their component |

### RetryBudget, BudgetSlots, SlotLedger, SlotScan, FloatClock

`table` is `_reservations`, `nextToken` and `opCount` are the counters, `call[t]`
what thread t has read before it asks for the lock: every operation is `Begin...`
(it reads the clock) and a second action, its whole body under the lock,
amortized cleanup included. `issued` and `released` are histories. A key's deque
is the set of its reservations: every reader sorts, filters or searches it by
token.

Times are floats, numbered in their order: `t + 1` is `nextafter(t, inf)`. The sum
and the difference of a time and the period are operators given as constants,
`PlusPer` and `MinusPer`, of which `RoundsToNearest` says what rounding to nearest
guarantees. The runs about threads use an exact clock (`t + Per`, `t - Per`);
`slot_scan` uses `FloatClock`, a binary format with three bits of significand and
gradual underflow, where the sum with the period falls on the slot that is
looked for, one float below it and one above it, the three cases of
`_first_slot_after_window` (`RoundingAssumption` checks that all of them occur).

`SlotLedger` has neither table nor lock nor stale clocks: `Grant` is allowed where
every window still open has room, `Return` removes one reservation. The refinement
mapping is `granted <- issued \ released`.

`SlotScan` runs the scanning loop with its `index`,
`changed` and `candidate` and is compared with `FirstLegalSlot`, the definition
the budget uses; `Forbidden` is the test one iteration makes.

### RetrySystem

An execution is a thread of `RetryBudget` plus `flow[e]`: its program counter,
attempt, start time, plan and wake time. Steps are cut at the budget's lock and at
every call of user code, since others and the clock can come in there. The stop
strategy is `attempts(n) | max_time(t)`. `PlanRaises`, `BeforeSleepRaises`,
`InterruptSleep` and `BeginAttempt` are the ways user code ends the run; the
constants `StrategyMayRaise` and `HandlerMayRaise` switch two of them.
Asynchronous exceptions inside library code (a signal between two of its
statements) are not modelled. `Phase` and `Outcome` map an execution to
`RetryLifecycle`; waiting for the lock and planning are part of "trying", a release
before an exception leaves is already "broken". `RetryLifecycle` keeps the verdicts
announced as a set of pairs, each verdict with its place in the order of events, so
that a second announcement of the same verdict is seen; an execution of
`RetrySystem`, which has no events, is taken to announce its outcome when it ends
(that it does is shown by `RetryFlow`).

### RetryFlow

The same flow, seen from its events: each handler call is a step, so that a handler
may raise between two others. `Record` is `record_success`/`record_failure`,
`Emit` starts `policy.emit`, `Decide` is `runtime.result()` and its event. `path`
chooses the loop of `execute_sync`/`execute_async` or a retry block, where
`LeaveLoop`, `SkipContext` and `NextContext` belong to the user. Whether time is
up, a wait fits or a condition holds are free choices here. `strayed` notes that
the user's loop went on after an exception left an attempt, or skipped one;
protocol properties are stated for runs that have not. `Phase` maps the run to
`RetryLifecycle`: `strayed` runs to "strayed", about which nothing is promised, a
decision whose handlers still run to "concluded". A policy without history
limit is a limit above the number of attempts.

### Exhaustion

`policy` holds the five fields that exhaustion builders set. `Run`, `Decorated` and
`Block` are the ends of the three paths, as what the caller sees:
`Returns(x)` or `Raises(x)`. Errors keep only what `resolve_final_error` looks at.

### StopStrategies, DelayStrategies, PolicyBuilder, PolicyForecast, PolicyWarnings

Strategies and conditions are trees of records. The trees considered are constants
(`StopTrees`, `ConditionTrees`, `DelayTrees`), sets that hold the parts of each of their
members, and what a tree means is a recursive function on such a set. Nothing bounds
them: the theorems of section 5 are about every such set, and each method that builds
a tree is limited to those considered. `Holds` is the recursion that `should_stop`,
`should_retry` and the analyses that answer yes or no have in common: composites of some
kinds ask for one part that says yes, those of other kinds for every part. Exception classes are sets of the
errors that are their instances, so that `issubclass` is inclusion. `PolicyBuilder`
keeps beside the tree what the chain means: the moments at which it asks to stop
and the outcomes it asks to retry. `PolicyForecast` then gives the policy a delay
and the settings that the analyses look at, and follows an execution of it: each
attempt ends in any outcome, and what a caller sees at the end is `Ends!Run` of
`Exhaustion`. A random delay is any value of its range, a seeded one a fixed value.
For a policy with a shared budget, `Decide` adds to the delay what `plan_retry_wait` adds, a
free choice from the constant `BudgetWaits`, since it depends on everybody who shares the
budget (`RetrySystem` follows the slots). The sum is what the second `should_stop` is asked
about and what is slept; a sum above `MAX_SLEEP_SECONDS` exhausts the execution. The history
`waits` keeps what was added at each retry, or `None` where there was no plan.
Whole seconds; factors are whole numbers from one (a factor below one, whose delay
shrinks, is not modelled), no `OverflowError`. The sum of an `AdditiveDelay` is cut at the
ceiling as each part is added, which is the code's cut at the end: delays are never
negative.

`PolicyWarnings` has one definition for each of the eighteen warnings, by the names
of their codes where they are more than one line. The thresholds 10, 300 and 10
are the constants `ManyAttempts`, `LongSleep` and `ProbedAttempts`, small in the
run. Its properties compare what is warned of with what executions do. The simulation leaves
a budget's waits out, and says so (`policy_simulation.py:309`, `docs/concepts/retry-budgets.md:82`):
`SimulationIsTheIdleRun` and `LongSleepIsReported` are about executions of which no retry
was `Deferred`, also when the policy has a budget. `ForeverNeverStops` allows one end of a policy
that is analysed as infinite, a budget with no slot within the ceiling
(`retry-budgets.md:38`, `tests/regression/test_budget_ceiling_exhaustion.py`), and asks that the
warning about budgets was given. `NoDelayMeansNoSleep` allows what the budget added, no more.

### DelayTree

`BuildState` is the decision to make a state, `Push`, `TakeChild`, `AskChild`,
`Pop` one turn of the loop of `_resolve_additive_tree`. A leaf answers differently
to the real state and to the minimal one, so that confusing them shows. `HttpRetry`
adds leaves that answer as `retry_after_delay` does: a header is a number, a date,
garbled or absent, and the minimal state has no last value, so no header.

### DecoratedStats

Writes of `record`, reads of `snapshot` and writes of `reset` are split in two
under the lock, so that the lock matters. The tracked result is a free choice; a
run may also raise before there is one. `recorded` is the history that the counters
are compared with: `Tally` counts its results, and `Attempts` numbers each attempt of
each recorded call, so that their sum is the size of a set.

## 3. Runs

| Run | Asks | Bounds and why they suffice |
|---|---|---|
| `budget_threads` | safety of the table, earliest slots, the ledger, with two threads | 2 threads, 2 keys, 1 retry per 2 ticks, cleanup each 2nd operation, clock to 3, 2 reservations begun (3 issued when both threads ask at once): a stale reading can be older than a period, a sweep can hit either key, a queued slot can outlive the clock |
| `budget_stale_clock` | *violation*: rolling capacity of all reservations | as above with one key; two threads with readings a period apart |
| `slot_scan` | the loop returns, returns the first slot, which is the least float; snapshots agree | every schedule of up to 4 reservations on the floats 0..13 of `FloatClock` that is within 2 per period, asked at each of these floats: gaps, full windows, chains of two blocks, sums that round down, up and not at all |
| `system_shared_budget` | leaks, early or unpaid retries, `max_time`, both refinements | 2 executions, 1 retry per 2 ticks, 3 attempts, time 5, ceiling 2: queueing, give-up at the ceiling and at `max_time`, late handlers |
| `system_liveness` | every execution ends | same with a clock long enough (9) that no execution is cut off |
| `system_strategy_raises` | *violation*: no leak when a stop strategy raises | as `system_shared_budget` |
| `exhaustion_paths` | every chain of up to 4 calls, every decision | four calls reach every combination of the five fields |
| `flow_paths` | event order, totals, handlers, the lifecycle | 3 attempts, history 2, up to 4 begins by a user's loop, 7 handlers: two of one event, an isolated one before a propagating one |
| `flow_block_strays` | *violation*: attempts never exceed `attempts(n)` | 2 attempts, 4 begins |
| `policy_forecast` | builder chains, analyses, simulation, warnings | 3 calls over strategies of two levels (which trees chains of three calls build is computed by `MCPolicyBuilder`); delays of each kind alone and in sums, every exhaustion behaviour with and without an observer, testing, budget and unlimited history; a budget adds 0, 1 or 6 seconds, where the ceiling is 5, to any retry: no wait, a short one, no plan; 4 attempts of 0 or 2 seconds; three attempts are many and more than 3 seconds of sleep are long |
| `delay_tree` | value, state, order of callbacks; the loop ends; headers | sums up to three deep with leaves below, at and above the ceiling; every kind of header from one second ago to one above the limit |
| `decorated_stats` | statistics | 2 threads, 4 calls, three results |

Deadlock is checked in every run whose cfg does
not say why the modelled activity ends.

`budget_threads` covers what the table does under stale readings with one retry
per window; windows of two retries are covered by `slot_scan` over every schedule
and, for all values, by the proofs.

### What the violations show

* `budget_stale_clock`: a caller whose clock reading is older than another
  caller's prune is granted a slot in a window that was already full, so that the
  window holds one reservation too many. `TableWithinBudget` and
  `ImplementsLedger` still hold: only windows that have closed are affected.
* `system_strategy_raises`: the user's stop strategy is asked with the reservation
  made and outside any `try`; what it raises leaves the reservation behind.
* `flow_block_strays`: a retry block whose user catches the exception that left an
  attempt goes on iterating without asking the stop strategy.

Other divergences met while reading, which no run asserts. `snapshot()` counts
`available` with `e < start + per` (`budget.py:257`) and places slots with
differences (`budget.py:230`), and the two round differently. With `per=0.3`, one
retry, and a reservation at `c + per` for `c = 1.9487626161218685`, a snapshot at `c`
has `available=1` and a positive `next_available_in`; with `per=0.7` and a reservation
at `3.491205380406702`, one at `2.7912053804067023` has `available=0` and
`next_available_in=0.0`. `docs/concepts/retry-budgets.md:71` reads `available` as the
retries that could be reserved immediately; `SnapshotPromise` holds wherever no
later reservation is `Misjudged` so. Slots are granted by the other algorithm: no
budget is exceeded. Under `return_result()`
a non-retryable error is returned by `run()` but raised by a block
(`BlockAgrees` excepts it); `raise_on_result_exhausted()` called after a fallback
changes nothing (`LastBehaviorWins` states what holds); an exhausted `TryAgain`
that has a cause ends in the cause (`ResolveFinalError`); `will_retry=True` can
be followed by a give-up of the same attempt (`EventOrder` states the direction
that holds).

## 4. Fairness

Three specifications state any. `SlotScan` and `DelayTree` are sequential loops:
weak fairness of their only process. `FairSpec` of `RetrySystem` assumes weak
fairness of each execution's own steps (a scheduled thread runs; handlers and the
function return) and of the clock, and that computing takes no time beside
waiting (`UrgentTick`: the clock moves while every execution sleeps or has
ended). User code is never obliged to raise (`Disturb` is not fair). Without the urgency a
clock bounded by `MaxClock` would run out under an execution that has not run.

## 5. Proofs

All for every value of the constants, under the named assumptions of the modules
(`BudgetAssumption`: a positive number of retries; `CallerAssumption`: natural
delays, a positive cleanup interval; `SystemAssumption`: at least one attempt, and
executions, keys and delays that are what they say; `FlowAssumption`: positive
limits, a sequence of handlers; `StatsAssumption`, `ThreadAssumption`: results with
at least one attempt, finitely many threads; those of trees are below). The list `theorems` of `PROJECT.json` lists
the results.

What is about the budget's times holds
for every clock whose arithmetic satisfies `RoundsToNearest`. This is a hypothesis of
the theorems, not an assumption on trust: `ExactRoundsToNearest` proves it of exact
arithmetic with any period, and TLC evaluates it for `FloatClock`. The theorems take it for all integers, that is, for a
format without a largest number; it asks that
differences keep the order, that subtracting the period makes a time smaller
(untrue only where the period is below half the spacing of the floats), and that one float after the
rounded sum is at least a period after the start and two before it is not, which
is what an error of at most half a spacing in each of the two operations leaves.

`BudgetSlots_proofs` is about the arithmetic: `WindowsInOrder` and
`FirstSlotIsLeast` (the three cases of `_first_slot_after_window` give the least
float whose window excludes the first one), `FirstLegalSlotIsEarliest` (the least
time that is not forbidden; the crux is that the least free time not below the
one asked for is that time itself or the end of some window),
`LegalSlotKeepsBudget` (a slot that is not forbidden keeps every window within the
budget: the reservations of an overfull window would be such a block) and its
converse `ForbiddenOverfills`.

`RetryBudget_proofs` proves the inductive invariant

    IInv == TypeOK /\ PendingCalls /\ TokensUnique /\ TableExact /\ TableWithinBudget

`PendingCalls` bounds the clock readings threads hold by the clock and ties a
pending release to an issued reservation; `TokensUnique` lets "delete the
reservation with this token" mean "delete this reservation"; neither `TableExact`
nor `TableWithinBudget` is inductive without them. A step that only removes
expired or released reservations is handled once (`Shrinks`), `Reserve` apart.
From it: `TypeCorrect`, `TableAlwaysWithinBudget`, `TableIsExact`,
`OpenWindowsWithinBudget`, `OnlyOwnReleaseHolds`, `SlotsAreEarliest`, and
`LedgerIsImplemented`: every step maps to a step of `SlotLedger` or a stutter, `Reserve` to
`Grant` because of `OpenWindowsWithinBudget` in its next state. What
`budget_stale_clock` refutes for two threads, `SoleCallerCapacity` proves for one:
with `Threads = {t}` no window, closed or open, is ever overfilled
(`DroppedIsPast`: what the table dropped lies a period before any later reading).

`SlotScan_proofs` proves that the loop returns `FirstLegalSlot`
(`LoopReturnsFirstLegalSlot`), which is the least float that overfills no window
(`SlotIsTheLeast`), passes over no free time
(`LoopSkipsOnlyForbidden`) and never advances in its second pass
(`SecondPassOnlyConfirms`; the comment at `budget.py:223` allows for more). The
invariant `ScanInv` says that no block before `index` forbids the candidate, which
needs sorted times: a candidate moved past a block is past every earlier one.

**Snapshots.** `AvailableIsWhatFits` (in `BudgetSlots_proofs`): the number that
`_available_at` counts with its test, which is not the test of `_first_legal_slot`, is
exactly how many reservations can be placed at that time one after the other. Its
lemma `LegalMeansRoom` is that `_is_legal_slot` says so of one; it needs the hypothesis
`Judged`, that rounding lets the test misjudge no later reservation, which `ExactJudges`
proves of exact clocks and the divergence in section 3 shows not to hold of every
float. `SnapshotIsWhatFits` carries this over to the loop (`SnapshotPromise`).

**Executions over the budget.** `RetrySystem_proofs` reasons about the executions and
the budget at once:

    IInv == SysInv /\ BudgetProofs!IInv

where `SysInv` says of each execution that it owns the reservation of its plan from the
grant to the attempt it pays for (`PlanOwned`), that two executions never own the same
one (`PlansDiffer`), that nothing is out that nobody owns (`IssuedIsPlanned`), that its
wake time is not before the slot (`WaitsLongEnough`) nor after `max_time`
(`WaitsInTime`), that attempts are left while it goes on (`AttemptsLeft`) and that what
it releases is its plan (`ReleasesPlan`). None of these is inductive alone: a grant is
fresh because of the budget's tokens, and the budget's `PendingCalls` holds only because
executions release their own plans. From it: `NothingEverLeaks`,
`NoSleepPastMaxTime`, `EveryRetryIsPaid`; `BudgetIsImplemented` (each step of an
execution is a step a thread of the budget may take, so that every theorem about the
budget holds here too) and `LifecycleIsImplemented`. `NothingEverLeaks` has the
hypothesis that no stop strategy raises, which `system_strategy_raises` shows to be
needed; `OnlyRaisersLeak` says without it that only executions a strategy has ended
can leak.

**Events, results and handlers.** `RetryFlow_proofs` first shows that every step
has one of eleven shapes (`StepShape`), seen through `Stage`: where
control is, or will be when the handlers of an emit have run. The invariant is then
proved shape by shape: `HistoryInv` (the bounded history is the end of the whole, the
failures are those of the whole), `LastEvent` (which event comes last at each stage:
what makes `EventOrder` inductive), `Tally` (attempts, records and `after_failure`
events in step), `OneVerdict`, `AttemptsLeft`, and for handlers `EmitLeads` and
`HeardSoFar`. From it: `EventsInOrder`, `ResultsAreExact`, `EveryHandlerIsHeard`,
`LifecycleIsImplemented`. `CallsNeverExceed` is the other side of the violation
`flow_block_strays`: `run()` never calls the function more often than `attempts(n)`
allows, nor does a block whose loop does not go on after an error.

**Exhaustion.** `Exhaustion_proofs`: after any chain of builder calls exactly one final
behaviour is set, the last one named (`LastBehavior`; `_replace_exhaustion` clears the
others), the result-exhaustion method is kept apart (`LastOnResult`), and a decision
agrees with its error (`DecisionFits`). From it: `LastBehaviorDecides`,
`DecoratedRunsAlike`, `BlockRunsAlike`.

**Statistics.** `DecoratedStats_proofs`: the lock is held by the thread inside a method
(`Exclusion`), and the counters are behind the tally by exactly what that thread has
not yet done (`CountersLag`). From it: `NoUpdateIsLost`, `SnapshotsAreConsistent`.

**Trees of strategies.** `Strategies_proofs` is about trees of every size and depth.
Its assumptions are what the constructors guarantee: strategies are frozen when they
are made of others that exist already, so no tree contains itself, which
`TreeAssumption`, `DelayAssumption` (of `DelayTree`) and `DelayTreesAssumption` say as: a
part is nested less deeply than the whole. They also say what `__post_init__` checks: a
composite has parts, limits
are positive, delays are at most the ceiling. `BuilderAssumption`: an outcome is an
error or a value, not both, and classes are sets of errors; `HttpAssumption`: headers and
limits are numbers; `TuningsAssumption`: a policy ends with one final behaviour;
`WarningsAssumption`: an error of exactly the class `Exception` belongs to no smaller
class, nor one of exactly `OSError` to any but these two.

The library's induction theorems take an operator as parameter and cannot be used here,
but a set can be one: `Recursion` says that a definition which looks only at elements of
smaller rank has a solution, for any rank into the naturals. It follows from `LeastNatural`
(take the least rank below which there is none). `Unrolling` and `Ascent` are the same
for loops over numbers. Each recursive function of the models is shown once to follow its equation
(`LeavesOfTree`, `HoldsOfTree`, `LimitOfTree`, `EstimateOfTree`, `DelaysOfTree`,
`GrownFollows`, `AddedUpFollows`, `SimulateFollows`, ...) and what is true of every tree follows
by a least counterexample (`LeastTree`, `LeastDelay`).

*Resolution* (`DelayInvariant`). The frames of the loop lie on a path of the tree. `Stack`
says that frame j works at the leaves after the first `at[j]`, that it has counted those before its
current part (`Totals`), and that the frame above is this part. Each frame saturates
its own sum, so that `Totals` compares sums after the cut (`SaturatedSum`). From it:
`DelayIsTheSum`, `RealStateForAll`, `LeavesAskedOnce`; and with `RetryAfterBounds`, `ServerHeeded`.

*Chains* (`BuilderInvariant`, and with it `StopsForAll`, `RetriesForAll`). One level of
flattening changes no meaning (`MomentsJoined`, `RetriedJoined`) and makes a tree no deeper when the kind of composite stays
(`JoinedDepth`); the invariant adds the kind of the composite at the root, which `lastOp`
knows. The second half is what `tests/regression/test_composite_depth.py` asks of 1200 calls.

*Analyses.* About every tree: what is analysed as infinite never stops
(`InfiniteNeverStops`), what stops after the first attempt always does
(`AtOnceStops`), a strategy stops at its known limit whatever the time (`LimitStops`), one
without a time limit has a known limit or never stops (`LimitedOrInfinite`),
`_estimate_attempts` and `_known_attempt_limit`, two recursions written
separately, agree (`EstimateOfTree`), and the classes analysed as broad are those whose plain
errors are retried (`BroadRetries`). The inductive invariant of an execution
(`ForecastInvariant`),

    ForecastInv == BuilderInv /\ PolicyKept /\ RunKept /\ Counted /\ Judged

adds what the analyses are compared with: each attempt after the first follows one after
which the strategy did not stop (`Counted`), and an exhausted execution had a retried outcome
and a reason to end, a strategy that stops or a budget that could not schedule the retry (`Judged`). From it: `AttemptsForAll`, `ForeverForAll`,
`BroadForAll`, `ObservedForAll`.

*Simulation.* A second invariant, `Slept`, says of everything slept that it is a delay of its
attempt and what the budget added to it (`DelaysAndWaits`), that the strategy allowed it, and,
while attempts take no time, that the time is the sum of what was slept; and that an
execution which no budget deferred is exhausted by its strategy. Where no retry was deferred,
what was slept are the delays alone (`UndeferredDelays`). A simulation is then shown to find the same delays,
one attempt at a time (`SimulationFinds`), and to sleep no less when it looks
further (`SimulationGrows`): `SimulationForAll`, `LongSleepForAll`.

*Zero and random delays.* `LeavesDecide` reduces a statement about every sum to its
leaves, through sets of answers that hold zero and are closed under cut sums. It is used
with the answer zero alone (`NoSleepForAll`) and with the sets of one answer (`RandomnessForAll`), where the exponential bound is shown to
grow, and to open its range at a retry within the limit (`Growing`, `OpenRange`).

## 6. Model-checked only

* Liveness (`Termination`, `Resolves`, `EveryExecutionEnds`): beyond the prover, as is
  ENABLED.
* `ReportsAreTight`, the converses of `NoDelayMeansNoSleep` and `RandomnessIsReported`. The
  first names a number of attempts within which a delay shows, which is a bound of the run:
  a chain of delays that starts with more zeros, or a seeded range that answers zero so
  often, is a counterexample for larger constants. The second does not hold of every
  tree: a sum that has reached the ceiling no longer varies, whatever its random part
  adds. The strategies of the run stay below.
* That `FloatClock` rounds to nearest: evaluated for the format of the run; for Python's it
  is the argument of section 5.

Every other invariant and action property of the passing runs is a theorem.

Two rules of the code are in the models but judged by no property. `resolve_final_error`
is stated once, as `ResolveFinalError`, and `LastBehaviorWins` uses it on both sides: what an
exhausted `TryAgain` ends in is taken from the code. `EveryHandlerHears` is about emits that
end normally; that a propagating failure stops the handlers after it is the guard of
`CallHandler`, taken from the code as well.

## 7. Plan

Done: budget, slots and their proofs; executions over the budget; the
flow; exhaustion; builder and analyses; delays; statistics; floating-point
windows, the warnings, HTTP delays, and the two abstract specifications; the proofs
of executions, flow, exhaustion and statistics; trees of strategies as recursive
functions, and the proofs about resolution, chains, analyses, warnings and simulation.
What is left:

1. The delay methods of the builder (`jitter`, `add_delay`) and the operators `|`, `&`
   and `+` of strategies, which build the same trees.
2. Exponential factors below one, and the decreasing ranges they draw from.
3. The second half of `ReportsAreTight` as a theorem of trees whose sums stay below the ceiling.

Proof modules stay at eight at most; eight are used.

## 8. Not modelled

Formatting (`story`, JSON, logging, serialization), presets (fixed chains of the
builder), argument validation and type aliases, the spelling of HTTP headers,
test doubles, `total_time` and
ratios of statistics, `RetryState` fields other than `will_retry`, asynchronous
exceptions inside library code, and the difference between `await` and a plain call
(one execution of an async flow has the same steps; its sleep may be cancelled,
which is `InterruptSleep`).
