------------------------------ MODULE RetryFlow ------------------------------
(***************************************************************************)
(* One retry execution step by step: the decisions of RetryFlow, the       *)
(* bookkeeping of RetryRuntime, the event handlers one call at a time, and *)
(* the two loops around them, execute_sync / execute_async ("run") and the *)
(* retry block, whose loop is the user's own code ("block").               *)
(*                                                                         *)
(* Time and the shared budget are answers chosen here: whether the stop    *)
(* strategy's time is up, whether the planned wait fits.  Modules          *)
(* RetrySystem and RetryBudget model them.                                 *)
(***************************************************************************)
EXTENDS Integers, Sequences, FiniteSets, SequencesExt

CONSTANTS MaxAttempts,   \* StopAfterAttempt(MaxAttempts), | max_time
          HistoryLimit,  \* policy.history_limit
          Handlers,      \* policy.event_handlers, [name, failure_mode] each
          MaxBegins      \* bound: attempts the user's own loop may begin

EventNames ==
  {"before_attempt", "after_success", "after_failure", "before_sleep", "after_giveup"}

ASSUME FlowAssumption ==
  /\ MaxAttempts \in Nat \ {0} /\ HistoryLimit \in Nat \ {0}
  /\ Handlers \in Seq([name : EventNames, failure_mode : {"propagate", "isolate"}])
  /\ MaxBegins \in Nat /\ MaxBegins >= MaxAttempts

VARIABLES
  path,      \* "run" or "block"
  pc,
  attempt,   \* runtime.attempt_number
  attempts,  \* runtime.attempts, a deque of at most HistoryLimit records
  failed, succeeded,  \* runtime.failed_count, runtime.success_count
  emitting,  \* the emit under way: event, next registration, what follows
  decision,  \* the FinalDecision, with the counters of its result
  finished,  \* the block iterator's flag
  events,    \* history: the events emitted
  heard,     \* history: registrations the emit under way has called
  all,       \* history: every record ever appended to attempts
  strayed    \* history: the user's loop went on where no retry was granted

runtime == <<attempt, attempts, failed, succeeded, all>>
vars == <<path, pc, runtime, emitting, decision, finished, events, heard, strayed>>

\* pc: "top" (the loop of run), "loop" (the user's for), "context" (an attempt
\* context not entered), "body" (user code runs), "plan", "recheck", "sleep",
\* "exhaust", "decided", "emit", "propagating" (an exception is leaving),
\* and the ends "returned", "raised", "abandoned".
Ends == {"returned", "raised", "abandoned"}

NoEvent == [name |-> "none"]
NotEmitting == [event |-> NoEvent, next |-> 1, then |-> "top"]
Undecided == [kind |-> "undecided"]

MinOf(a, b) == IF a <= b THEN a ELSE b

-----------------------------------------------------------------------------
\* Mutants of definitions below, one plausible slip each.
CountRetained(r) ==
  /\ attempts' = SubSeq(Append(attempts, r), 1 + MinOf(1, Len(attempts) \div HistoryLimit),
                        Len(attempts) + 1)
  /\ all' = Append(all, r)
  /\ failed' = Cardinality({i \in DOMAIN attempts' : attempts'[i].failed})
  /\ succeeded' = Cardinality({i \in DOMAIN attempts' : ~attempts'[i].failed})
  /\ UNCHANGED attempt
SleepTriesAgain ==
  /\ pc = "sleep"
  /\ pc' \in {IF path = "run" THEN "top" ELSE "loop", "plan"}
  /\ UNCHANGED <<path, runtime, emitting, decision, finished, events, heard, strayed>>
EmitDoneAfterFirst ==
  /\ pc = "emit" /\ (heard # {} \/ emitting.next \notin DOMAIN Handlers)
  /\ pc' = emitting.then
  /\ UNCHANGED <<path, runtime, emitting, decision, finished, events, heard, strayed>>
FinishForgets ==
  /\ pc = "decided" /\ path = "block"
  /\ \E end \in {"loop", "propagating"} : pc' = end
  /\ UNCHANGED <<path, runtime, emitting, decision, finished, events, heard, strayed>>
-----------------------------------------------------------------------------
\* deque(maxlen=history_limit).append
AppendBounded(records, r) ==
  LET longer == Append(records, r)
  IN IF Len(longer) <= HistoryLimit THEN longer ELSE Tail(longer)

\* record_success, record_failure
Record(r) ==
  /\ attempts' = AppendBounded(attempts, r)
  /\ all' = Append(all, r)
  /\ failed' = failed + (IF r.failed THEN 1 ELSE 0)
  /\ succeeded' = succeeded + (IF r.failed THEN 0 ELSE 1)
  /\ UNCHANGED attempt

\* stop_strategy.should_stop, with timeUp the answer of its time part.
ShouldStop(timeUp) == attempt >= MaxAttempts \/ timeUp

\* policy.emit(name): the handlers run next, then control goes to `then'.
Emit(name, number, willRetry, then) ==
  LET e == [name |-> name, number |-> number, will_retry |-> willRetry]
  IN /\ emitting' = [event |-> e, next |-> 1, then |-> then]
     /\ events' = Append(events, e)
     /\ heard' = {}
     /\ pc' = "emit"

\* Whether emit goes on to the next registration after registration i.
EmitGoesOn(i, raises) == ~raises \/ Handlers[i].failure_mode = "isolate"

\* The event that announces a final decision.
Verdict(kind) == IF kind = "accept" THEN "after_success" ELSE "after_giveup"

\* runtime.result(), then the event.
Decide(kind) ==
  /\ decision' = [kind |-> kind, total |-> attempt, failed |-> failed',
                  succeeded |-> succeeded']
  /\ Emit(Verdict(kind), attempt, FALSE, "decided")

-----------------------------------------------------------------------------
Init ==
  /\ path \in {"run", "block"}
  /\ pc = IF path = "run" THEN "top" ELSE "loop"
  /\ attempt = 0 /\ attempts = <<>> /\ failed = 0 /\ succeeded = 0
  /\ emitting = NotEmitting /\ decision = Undecided /\ finished = FALSE
  /\ events = <<>> /\ heard = {} /\ all = <<>> /\ strayed = FALSE

\* The top of execute_sync's loop: next_attempt(), enter_attempt().
RunAttempt ==
  /\ pc = "top"
  /\ attempt' = attempt + 1
  /\ Emit("before_attempt", attempt + 1, FALSE, "body")
  /\ UNCHANGED <<path, attempts, failed, succeeded, all, decision, finished, strayed>>

\* __next__ of the block iterator.
NextContext ==
  /\ pc = "loop"
  /\ IF finished
     THEN pc' = "returned" /\ UNCHANGED attempt
     ELSE attempt < MaxBegins /\ attempt' = attempt + 1 /\ pc' = "context"
  /\ UNCHANGED <<path, attempts, failed, succeeded, all, emitting, decision, finished,
                 events, heard, strayed>>

\* __enter__ of the attempt context.
EnterContext ==
  /\ pc = "context"
  /\ Emit("before_attempt", attempt, FALSE, "body")
  /\ UNCHANGED <<path, runtime, decision, finished, strayed>>

\* The user leaves the loop, or goes on with the next attempt without entering
\* this one.
LeaveLoop ==
  /\ pc \in {"loop", "context"}
  /\ pc' = "abandoned"
  /\ UNCHANGED <<path, runtime, emitting, decision, finished, events, heard, strayed>>
SkipContext ==
  /\ pc = "context"
  /\ pc' = "loop" /\ strayed' = TRUE
  /\ UNCHANGED <<path, runtime, emitting, decision, finished, events, heard>>

\* policy.emit: one registration of the loop.
CallHandler ==
  /\ pc = "emit" /\ emitting.next \in DOMAIN Handlers
  /\ LET i == emitting.next IN
     IF Handlers[i].name # emitting.event.name
     THEN pc' = pc /\ heard' = heard
     ELSE /\ heard' = heard \cup {i}
          /\ \E raises \in BOOLEAN :
               pc' = IF EmitGoesOn(i, raises) THEN "emit" ELSE "propagating"
  /\ emitting' = [emitting EXCEPT !.next = @ + 1]
  /\ UNCHANGED <<path, runtime, decision, finished, events, strayed>>

\* A handler raises a BaseException that is no Exception: never isolated.
HandlerInterrupts ==
  /\ pc = "emit" /\ emitting.next \in DOMAIN Handlers
  /\ Handlers[emitting.next].name = emitting.event.name
  /\ heard' = heard \cup {emitting.next}
  /\ pc' = "propagating"
  /\ UNCHANGED <<path, runtime, emitting, decision, finished, events, strayed>>

EmitDone ==
  /\ pc = "emit" /\ emitting.next \notin DOMAIN Handlers
  /\ pc' = emitting.then
  /\ UNCHANGED <<path, runtime, emitting, decision, finished, events, heard, strayed>>

\* after_exception: TryAgain or a matching exception (`retryable'), or another.
AttemptFails ==
  /\ pc = "body"
  /\ Record([number |-> attempt, failed |-> TRUE, has_value |-> FALSE])
  /\ \E retryable, timeUp \in BOOLEAN :
       LET stop == ShouldStop(timeUp) IN
       Emit("after_failure", attempt, retryable /\ ~stop,
            IF ~retryable THEN "reject" ELSE IF stop THEN "exhaust" ELSE "plan")
  /\ UNCHANGED <<path, decision, finished, strayed>>

\* after_value with an accepted value.  A block may end without set_result:
\* then there is no value and nothing to reject.
AttemptAccepted ==
  /\ pc = "body"
  /\ \E hasValue \in (IF path = "run" THEN {TRUE} ELSE BOOLEAN) :
       Record([number |-> attempt, failed |-> FALSE, has_value |-> hasValue])
  /\ Decide("accept")
  /\ UNCHANGED <<path, finished, strayed>>

\* after_value with a rejected value.
AttemptRejected ==
  /\ pc = "body"
  /\ Record([number |-> attempt, failed |-> FALSE, has_value |-> TRUE])
  /\ \E timeUp \in BOOLEAN : pc' = IF ShouldStop(timeUp) THEN "exhaust" ELSE "plan"
  /\ UNCHANGED <<path, emitting, decision, finished, events, heard, strayed>>

\* User code raised a BaseException that is no Exception (KeyboardInterrupt,
\* cancellation): nothing is recorded.
AttemptInterrupted ==
  /\ pc = "body"
  /\ pc' = "propagating"
  /\ UNCHANGED <<path, runtime, emitting, decision, finished, events, heard, strayed>>

\* The condition or the stop strategy raises once the attempt is recorded.  (A
\* condition that raises on an exception does so before, as above.)
DecisionRaises ==
  /\ pc = "body"
  /\ \E fails \in BOOLEAN :
       Record([number |-> attempt, failed |-> fails, has_value |-> ~fails])
  /\ pc' = "propagating"
  /\ UNCHANGED <<path, emitting, decision, finished, events, heard, strayed>>

Reject == /\ pc = "reject"
          /\ UNCHANGED <<path, runtime, finished, strayed>>
          /\ Decide("reject")

Exhaust == /\ pc = "exhaust"
           /\ UNCHANGED <<path, runtime, finished, strayed>>
           /\ Decide("exhaust")

\* _plan_retry up to before_sleep: no capacity or no time left, a delay strategy
\* that raises, or a plan.
PlanRetry ==
  /\ pc = "plan"
  /\ UNCHANGED <<path, runtime, decision, finished, strayed>>
  /\ \/ Emit("before_sleep", attempt, TRUE, "recheck")
     \/ pc' \in {"exhaust", "propagating"} /\ UNCHANGED <<emitting, events, heard>>

\* The second _sleep_would_stop: handlers may have used up the time.
Recheck ==
  /\ pc = "recheck"
  /\ pc' \in {"exhaust", "sleep"}
  /\ UNCHANGED <<path, runtime, emitting, decision, finished, events, heard, strayed>>

\* sleep_before_retry: the loop goes on, or the sleep raises.
Sleep ==
  /\ pc = "sleep"
  /\ pc' \in {IF path = "run" THEN "top" ELSE "loop", "propagating"}
  /\ UNCHANGED <<path, runtime, emitting, decision, finished, events, heard, strayed>>

\* run: the decision becomes a return or a raise (module Exhaustion).
RunEnds ==
  /\ pc = "decided" /\ path = "run"
  /\ pc' \in {"returned", "raised"}
  /\ UNCHANGED <<path, runtime, emitting, decision, finished, events, heard, strayed>>

\* block: _finish, then back to the user's loop or an exception (module
\* Exhaustion).
Finish ==
  /\ pc = "decided" /\ path = "block"
  /\ finished' = TRUE
  /\ \E end \in {"loop", "propagating"} : pc' = end
  /\ UNCHANGED <<path, runtime, emitting, decision, events, heard, strayed>>

\* An exception leaves: run raises it; the user's loop may let it go or catch it
\* around the with statement and go on.
Propagate ==
  /\ pc = "propagating"
  /\ \/ pc' = "raised" /\ UNCHANGED strayed
     \/ path = "block" /\ pc' = "loop" /\ strayed' = (strayed \/ ~finished)
  /\ UNCHANGED <<path, runtime, emitting, decision, finished, events, heard>>

\* The end, or the bound on a loop that strayed.
Over ==
  /\ pc \in Ends \/ (pc = "loop" /\ ~finished /\ attempt = MaxBegins)
  /\ UNCHANGED vars

Next ==
  \/ RunAttempt \/ NextContext \/ EnterContext \/ LeaveLoop \/ SkipContext
  \/ CallHandler \/ HandlerInterrupts \/ EmitDone
  \/ AttemptFails \/ AttemptAccepted \/ AttemptRejected \/ AttemptInterrupted
  \/ DecisionRaises
  \/ Reject \/ Exhaust \/ PlanRetry \/ Recheck \/ Sleep
  \/ RunEnds \/ Finish \/ Propagate \/ Over

Spec == Init /\ [][Next]_vars

-----------------------------------------------------------------------------
Announced(name) == {i \in DOMAIN events : events[i].name = name}

\* The event order of docs/concepts/retry-lifecycle.md, section 6: what may come
\* right before event e, for every mix of failures, rejections and raising
\* handlers, as long as the user's loop stays within the protocol.  A failure that
\* was announced without will_retry is never retried.
MayPrecede(d, e) ==
  CASE e.name = "before_attempt" -> d.name = "before_sleep" /\ d.number = e.number - 1
    [] e.name \in {"after_failure", "after_success"} ->
         d.name = "before_attempt" /\ d.number = e.number
    [] e.name = "before_sleep" ->
         /\ d.name \in {"before_attempt", "after_failure"} /\ d.number = e.number
         /\ d.name = "after_failure" => d.will_retry
    [] e.name = "after_giveup" -> d.name # "after_success" /\ d.number = e.number

EventOrder ==
  ~strayed => \A i \in DOMAIN events :
                IF i = 1 THEN events[1].name = "before_attempt" /\ events[1].number = 1
                ELSE MayPrecede(events[i - 1], events[i])

\* "Aggregate counters must describe the full execution even when retained
\* history is bounded" (architecture.md:87): the history is the newest records, the
\* counters of a result count all records, add up to its attempts, and one
\* after_failure was emitted for each failed one.
TotalsExact ==
  pc = "decided" =>
    /\ attempts = SubSeq(all, Len(all) - MinOf(HistoryLimit, Len(all)) + 1, Len(all))
    /\ decision.failed = Cardinality({i \in DOMAIN all : all[i].failed})
    /\ ~strayed =>
         /\ decision.failed = Cardinality(Announced("after_failure"))
         /\ decision.failed + decision.succeeded = decision.total

\* An emit that ends normally has called every handler of its event: one that
\* failed in isolation costs the later ones nothing (docs/reference/events.md).
EveryHandlerHears ==
  [][pc = "emit" /\ pc' \notin {"emit", "propagating"} =>
       heard = {i \in DOMAIN Handlers : Handlers[i].name = emitting.event.name}]_vars

\* Through run() and through the user's loop alike, an execution has the lifecycle
\* it promises, as long as the loop does not stray: at most MaxAttempts attempts
\* ("a maximum number of calls", retry-lifecycle.md:41), one verdict, announced
\* once and the right one, and no attempt after it, also when __exit__ raised and
\* the user caught it.
Phase ==
  CASE strayed -> "strayed"
    [] ~strayed /\ decision # Undecided ->
         IF finished \/ pc \in Ends THEN "over" ELSE "concluded"
    [] ~strayed /\ decision = Undecided ->
         IF pc \in Ends \cup {"propagating"} THEN "broken"
         ELSE IF pc \in {"top", "loop"} THEN "idle"
         ELSE IF pc = "sleep" THEN "waiting" ELSE "trying"

Verdicts == {i \in DOMAIN events : events[i].name \in {"after_success", "after_giveup"}}

Lifecycle == INSTANCE RetryLifecycle WITH
  phase <- Phase, outcome <- decision.kind,
  announced <- {<<i, events[i].name>> : i \in Verdicts}
ImplementsLifecycle == Lifecycle!Spec

-----------------------------------------------------------------------------
\* A claim of the documentation that the code does not keep.

\* "`attempts(n)` for a maximum number of calls" (retry-lifecycle.md:41).
AttemptsNeverExceed == Cardinality(Announced("before_attempt")) <= MaxAttempts
=============================================================================
