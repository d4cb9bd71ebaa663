------------------------------ MODULE RetrySystem ------------------------------
(***************************************************************************)
(* Executions that share one retry budget: the loop of execute_sync /      *)
(* execute_async, the decisions of internal.executor_flow.RetryFlow and    *)
(* the wait planning of internal.retry_wait, over module RetryBudget.      *)
(*                                                                         *)
(* An execution is one thread of RetryBudget.  Its steps are cut wherever  *)
(* other executions or the clock can come in: at the budget's lock and at  *)
(* every call of user code (the function, the delay and stop strategies,   *)
(* the event handlers, the sleep).                                         *)
(***************************************************************************)
EXTENDS Integers, FiniteSets

CONSTANTS Threads,           \* the executions
          Keys, MaxRetries, MinusPer(_), PlusPer(_), CleanupInterval,
          Delays, MaxClock, MaxTokens,
          KeyOf,             \* policy.retry_budget_key of each execution
          MaxAttempts,       \* stop strategy: attempts(MaxAttempts)
          MaxTime,           \*   | max_time(MaxTime)
          MaxSleep,          \* MAX_SLEEP_SECONDS
          StrategyMayRaise,  \* may a user stop strategy raise?
          HandlerMayRaise    \* may a propagating event handler raise?

ASSUME SystemAssumption ==
  /\ MaxRetries \in Nat \ {0} /\ CleanupInterval \in Nat \ {0}
  /\ Delays \subseteq Nat /\ MaxClock \in Nat /\ MaxTokens \in Nat
  /\ KeyOf \in [Threads -> Keys]
  /\ MaxAttempts \in Nat \ {0} /\ MaxTime \in Nat /\ MaxSleep \in Nat
  /\ StrategyMayRaise \in BOOLEAN /\ HandlerMayRaise \in BOOLEAN

VARIABLES clock, table, nextToken, opCount, call, issued, released,  \* the budget
          flow,  \* per execution, where its RetryFlow and its loop stand
          used   \* history: reservations whose attempt began

budgetVars == <<clock, table, nextToken, opCount, call, issued, released>>
vars == <<budgetVars, flow, used>>

Budget == INSTANCE RetryBudget

NoPlan == [token |-> 0]

\* flow[e].pc:  "new"        before RetryFlow is made
\*              "attempt"    at the top of the loop
\*              "calling"    the user function is running
\*              "planning"   in _plan_retry, before plan_retry_wait
\*              "reserving"  plan_retry_wait has read the clock
\*              "checking"   before the first _sleep_would_stop
\*              "emitting"   the before_sleep handlers run
\*              "sleeping"   until flow[e].wake
\*              "releasing"  release_retry_wait, then flow[e].next
\*              "accepted", "rejected", "exhausted", "raised"  the outcomes
Outcomes == {"accepted", "rejected", "exhausted", "raised"}
Running(e) == flow[e].pc \notin Outcomes \cup {"new"}

-----------------------------------------------------------------------------
\* Mutants of definitions below, one plausible slip each.
PlanRelative(e) ==
  /\ flow[e].pc = "planning"
  /\ nextToken <= MaxTokens
  /\ \E d \in Delays :
       Budget!Begin(e, [op |-> "reserve", key |-> KeyOf[e], current |-> clock,
                        not_before |-> d])
  /\ flow' = [flow EXCEPT ![e].pc = "reserving"]
  /\ UNCHANGED used
GrantForgetsPolicyDelay(e) ==
  /\ flow[e].pc = "reserving"
  /\ Budget!Reserve(e)
  /\ \E r \in issued' \ issued :
       flow' = [flow EXCEPT ![e].plan = r, ![e].total = r.at - call[e].not_before,
                            ![e].pc = "checking"]
  /\ UNCHANGED used
GrantTriesAgain(e) ==
  /\ flow[e].pc = "reserving"
  /\ Budget!Reserve(e)
  /\ \E r \in issued' \ issued :
       LET total == r.at - call[e].current IN
       flow' = [flow EXCEPT ![e].plan = r, ![e].total = total,
                            ![e].pc = IF total > MaxSleep THEN "releasing" ELSE "checking",
                            ![e].next = "planning"]
  /\ UNCHANGED used
ShouldStopOneLate(attempt, elapsed) == attempt > MaxAttempts \/ elapsed >= MaxTime
SleepWithoutRecheck(e) ==
  /\ flow[e].pc = "emitting"
  /\ flow' = [flow EXCEPT ![e].pc = "sleeping", ![e].wake = clock + flow[e].total]
  /\ UNCHANGED <<budgetVars, used>>
InterruptSleepKeepsSlot(e) ==
  /\ flow[e].pc = "sleeping"
  /\ flow' = [flow EXCEPT ![e].pc = "raised"]
  /\ UNCHANGED <<budgetVars, used>>
-----------------------------------------------------------------------------
\* The stop strategy StopAfterAttempt(MaxAttempts) | StopAfterDelay(MaxTime).
ShouldStop(attempt, elapsed) == attempt >= MaxAttempts \/ elapsed >= MaxTime

Elapsed(e) == clock - flow[e].startedAt

\* should_stop_before_sleep: would the stop strategy fire after the sleep?
SleepWouldStop(e) == ShouldStop(flow[e].attempt, Elapsed(e) + flow[e].total)

Goto(e, pc) == flow' = [flow EXCEPT ![e].pc = pc]

\* release_retry_wait(plan), then end with outcome o.
ReleaseThen(e, o) == flow' = [flow EXCEPT ![e].pc = "releasing", ![e].next = o]

Init ==
  /\ Budget!Init
  /\ flow = [e \in Threads |->
               [pc |-> "new", attempt |-> 0, startedAt |-> 0, plan |-> NoPlan,
                total |-> 0, wake |-> 0, next |-> "raised"]]
  /\ used = {}

Tick == Budget!Tick /\ UNCHANGED <<flow, used>>

\* RetryFlow.__init__
Start(e) ==
  /\ flow[e].pc = "new"
  /\ flow' = [flow EXCEPT ![e].pc = "attempt", ![e].startedAt = clock]
  /\ UNCHANGED <<budgetVars, used>>

\* next_attempt(), then enter_attempt() with its before_attempt handlers.  From
\* here on the reservation of a retry is used.
BeginAttempt(e) ==
  /\ flow[e].pc = "attempt"
  /\ \E pc \in {"calling"} \cup (IF HandlerMayRaise THEN {"raised"} ELSE {}) :
       flow' = [flow EXCEPT ![e].pc = pc, ![e].attempt = @ + 1,
                            ![e].plan = NoPlan]
  /\ used' = used \cup ({flow[e].plan} \ {NoPlan})
  /\ UNCHANGED budgetVars

\* The function returned or raised; after_value / after_exception decide.
\* "value" is accepted, "fatal" is not retryable, "failure" (an exception or a
\* rejected value) may be retried, "interrupt" is no Exception and propagates.
EndAttempt(e) ==
  /\ flow[e].pc = "calling"
  /\ \/ Goto(e, "accepted")
     \/ Goto(e, "rejected")
     \/ Goto(e, "raised")
     \/ Goto(e, IF ShouldStop(flow[e].attempt, Elapsed(e))
                THEN "exhausted" ELSE "planning")
  /\ UNCHANGED <<budgetVars, used>>

\* plan_retry_wait resolves the policy delay and reads the clock.
Plan(e) ==
  /\ flow[e].pc = "planning"
  /\ nextToken <= MaxTokens
  /\ \E d \in Delays :
       Budget!Begin(e, [op |-> "reserve", key |-> KeyOf[e], current |-> clock,
                        not_before |-> clock + d])
  /\ Goto(e, "reserving")
  /\ UNCHANGED used

\* The delay strategy raised: nothing is reserved yet.
PlanRaises(e) ==
  /\ flow[e].pc = "planning"
  /\ Goto(e, "raised")
  /\ UNCHANGED <<budgetVars, used>>

\* budget._reserve; a wait above the ceiling gives the slot back and gives up.
Grant(e) ==
  /\ flow[e].pc = "reserving"
  /\ Budget!Reserve(e)
  /\ \E r \in issued' \ issued :
       LET total == r.at - call[e].current IN
       flow' = [flow EXCEPT ![e].plan = r, ![e].total = total,
                            ![e].pc = IF total > MaxSleep THEN "releasing" ELSE "checking",
                            ![e].next = "exhausted"]
  /\ UNCHANGED used

\* The first _sleep_would_stop: it calls the user's stop strategy outside any
\* try, so what that raises leaves the reservation where it is.
CheckSleep(e) ==
  /\ flow[e].pc = "checking"
  /\ \/ SleepWouldStop(e) /\ ReleaseThen(e, "exhausted")
     \/ ~SleepWouldStop(e) /\ Goto(e, "emitting")
     \/ StrategyMayRaise /\ Goto(e, "raised")
  /\ UNCHANGED <<budgetVars, used>>

\* The before_sleep handlers return, the second _sleep_would_stop decides with
\* the time they left, and the sleep begins.
Sleep(e) ==
  /\ flow[e].pc = "emitting"
  /\ \/ SleepWouldStop(e) /\ ReleaseThen(e, "exhausted")
     \/ /\ ~SleepWouldStop(e)
        /\ flow' = [flow EXCEPT ![e].pc = "sleeping", ![e].wake = clock + flow[e].total]
     \/ StrategyMayRaise /\ Goto(e, "raised")
  /\ UNCHANGED <<budgetVars, used>>

\* A before_sleep handler raised.
BeforeSleepRaises(e) ==
  /\ HandlerMayRaise
  /\ flow[e].pc = "emitting"
  /\ ReleaseThen(e, "raised")
  /\ UNCHANGED <<budgetVars, used>>

\* The sleep is over, on time or late.
Wake(e) ==
  /\ flow[e].pc = "sleeping"
  /\ clock >= flow[e].wake
  /\ Goto(e, "attempt")
  /\ UNCHANGED <<budgetVars, used>>

\* The sleep raised: interrupted thread or cancelled task.
InterruptSleep(e) ==
  /\ flow[e].pc = "sleeping"
  /\ ReleaseThen(e, "raised")
  /\ UNCHANGED <<budgetVars, used>>

\* budget._release reads the clock ...
BeginRelease(e) ==
  /\ flow[e].pc = "releasing"
  /\ Budget!Begin(e, [op |-> "release", item |-> flow[e].plan, current |-> clock])
  /\ UNCHANGED <<flow, used>>

\* ... and deletes the reservation under the lock.
Release(e) ==
  /\ flow[e].pc = "releasing"
  /\ Budget!Release(e)
  /\ flow' = [flow EXCEPT ![e].pc = flow[e].next, ![e].plan = NoPlan]
  /\ UNCHANGED used

\* The execution's own work, in the order of the code.
Work(e) ==
  \/ Start(e) \/ BeginAttempt(e) \/ EndAttempt(e) \/ Plan(e) \/ Grant(e)
  \/ CheckSleep(e) \/ Sleep(e) \/ Wake(e) \/ BeginRelease(e) \/ Release(e)

\* User code ends what the execution was doing.
Disturb(e) == PlanRaises(e) \/ BeforeSleepRaises(e) \/ InterruptSleep(e)

Step(e) == Work(e) \/ Disturb(e)

Done == \A e \in Threads : flow[e].pc \in Outcomes
Terminated == Done /\ UNCHANGED vars

Next == Tick \/ (\E e \in Threads : Step(e)) \/ Terminated

Spec == Init /\ [][Next]_vars

\* Liveness assumes that computing takes no time beside waiting: the clock moves
\* only while every execution sleeps or has ended.  Threads and the clock are
\* scheduled fairly; an execution is never obliged to interrupt its sleep.
UrgentTick ==
  /\ \A e \in Threads : \/ flow[e].pc \in Outcomes
                         \/ (flow[e].pc = "sleeping" /\ clock < flow[e].wake)
  /\ ~Done
  /\ Tick

UrgentNext == UrgentTick \/ (\E e \in Threads : Step(e)) \/ Terminated

FairSpec ==
  /\ Init /\ [][UrgentNext]_vars
  /\ WF_vars(UrgentTick)
  /\ \A e \in Threads : WF_vars(Work(e))

-----------------------------------------------------------------------------
\* "unused Retry Budget reservations are released" (architecture.md:113): a
\* reservation that is neither used nor released belongs to an execution that
\* still runs.
NothingLeaks ==
  \A r \in issued \ (released \cup used) :
     \E e \in Threads : flow[e].plan = r /\ Running(e)

\* "only additional attempts consume Retry Budget capacity" (architecture.md:109)
\* and all of them do: an execution begins a further attempt only with a
\* reservation nobody else used or released, and never before its slot.
RetriesArePaidAndOnTime ==
  [][\A e \in Threads : flow'[e].attempt # flow[e].attempt =>
        IF flow[e].attempt = 0 THEN used' = used
        ELSE \E r \in issued \ (released \cup used) :
                used' = used \cup {r} /\ clock >= r.at]_vars

\* max_time includes the wait (retry-budgets.md:30): no execution sleeps past
\* the time its stop strategy allows, however long its handlers took.
SleepsWithinMaxTime ==
  \A e \in Threads : flow[e].pc = "sleeping" =>
     ~ShouldStop(flow[e].attempt, flow[e].wake - flow[e].startedAt)

\* Every execution ends, however many others compete for the budget: no wait
\* is unbounded and giving up always gives up.
EveryExecutionEnds == \A e \in Threads : <>(flow[e].pc \in Outcomes)

\* The executions use the budget as it may be used.
ImplementsBudget == Budget!Spec

\* Each execution has the lifecycle of a retry execution, whatever the others and
\* the clock do: the waits and the refusals of a shared budget change when it
\* retries and how it ends, never that it ends with one outcome and within its
\* attempts.
Phase(e) ==
  CASE flow[e].pc \in {"new", "attempt"} -> "idle"
    [] flow[e].pc = "sleeping" -> "waiting"
    [] flow[e].pc \in {"accepted", "rejected", "exhausted"} -> "over"
    [] flow[e].pc = "raised" -> "broken"
    [] flow[e].pc = "releasing" /\ flow[e].next = "raised" -> "broken"
    [] OTHER -> "trying"

Outcome(e) ==
  CASE flow[e].pc = "accepted" -> "accept"
    [] flow[e].pc = "rejected" -> "reject"
    [] flow[e].pc = "exhausted" -> "exhaust"
    [] OTHER -> "undecided"

Lifecycle(e) == INSTANCE RetryLifecycle WITH
  phase <- Phase(e), attempt <- flow[e].attempt, outcome <- Outcome(e),
  announced <- CASE Outcome(e) = "undecided" -> {}
                 [] Outcome(e) = "accept" -> {<<1, "after_success">>}
                 [] OTHER -> {<<1, "after_giveup">>}
ImplementsLifecycle ==
  /\ \A e \in Threads : Lifecycle(e)!Init
  /\ [][\A e \in Threads : [Lifecycle(e)!Next]_(Lifecycle(e)!vars)]_vars
=============================================================================
