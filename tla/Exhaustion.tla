------------------------------ MODULE Exhaustion ------------------------------
(***************************************************************************)
(* What a caller sees at the end of an execution: the exhaustion behaviour *)
(* that a chain of RetryPolicy builder calls configures, the error that a  *)
(* retry signal stands for, and the outcome through policy.run(), through  *)
(* a decorated function and through a retry block.                         *)
(***************************************************************************)
EXTENDS Naturals

CONSTANT MaxCalls  \* bound: builder calls in a chain

ASSUME ChainAssumption == MaxCalls \in Nat

VARIABLES policy,    \* the exhaustion fields of the RetryPolicy under construction
          behavior,  \* history: the last final behaviour called
          onResult,  \* history: the last result-exhaustion method called
          calls,     \* history: builder calls made
          decision   \* the FinalDecision of an execution of policy, or Undecided

vars == <<policy, behavior, onResult, calls, decision>>

\* What the user's callables do when they are called.  A factory may return a
\* fresh exception, the result's own error, or no exception at all.
Callbacks == {"none", "returns", "raises"}
Factories == {"none", "fresh", "last_error", "not_an_exception"}

Policies ==
  [should_raise_last : BOOLEAN, should_return_result : BOOLEAN,
   result_exhausted_behavior : {"return_last", "raise"},
   exhausted_callback : Callbacks, exhausted_exception_factory : Factories]

\* An exception that left an attempt.  Its chained exceptions are an ordinary
\* Exception, another TryAgain, or no Exception at all ("base").
Chained == {"none", "exception", "try_again", "base"}
Errors ==
  [again : BOOLEAN, cause : Chained, context : Chained, suppress_context : BOOLEAN]

\* An error of a result, as seen from the exception that was raised.
ErrorRefs == {"none", "itself", "cause", "context"}

\* FinalDecision: accept and reject are decided by the condition, exhaust by the
\* stop strategy or the budget.  `raised' is the exception of the last attempt.
Undecided == [kind |-> "undecided"]
Decisions ==
  [kind : {"accept", "reject", "exhaust"}, error : ErrorRefs,
   retry_cause : {"none", "exception", "result"}]

Returns(x) == [by |-> "return", what |-> x]
Raises(x)  == [by |-> "raise", what |-> x]

-----------------------------------------------------------------------------
\* Mutants of definitions below, one plausible slip each.
RaiseLastOnly(p) == [p EXCEPT !.should_raise_last = TRUE]
ResolveTrackedNoReject(p, d) ==
  IF p.should_return_result THEN Returns("result") ELSE Returns("value")
SuppressAlways(p, d) == [suppressed |-> d.error # "none", raised |-> "none"]
-----------------------------------------------------------------------------
\* RetryPolicy(): the default behaviour.
DefaultPolicy ==
  [should_raise_last |-> TRUE, should_return_result |-> FALSE,
   result_exhausted_behavior |-> "return_last",
   exhausted_callback |-> "none", exhausted_exception_factory |-> "none"]

\* _replace_exhaustion without arguments: no final behaviour at all.
NoBehavior(p) ==
  [p EXCEPT !.should_raise_last = FALSE, !.should_return_result = FALSE,
            !.exhausted_callback = "none", !.exhausted_exception_factory = "none"]

RaiseLast(p) == [NoBehavior(p) EXCEPT !.should_raise_last = TRUE]
ReturnResult(p) == [NoBehavior(p) EXCEPT !.should_return_result = TRUE]
Fallback(p, c) == [NoBehavior(p) EXCEPT !.exhausted_callback = c]
OnExhaustedRaise(p, f) == [NoBehavior(p) EXCEPT !.exhausted_exception_factory = f]
OnResultExhausted(p, b) == [p EXCEPT !.result_exhausted_behavior = b]

\* What RetryPolicy.__post_init__ accepts.
Exclusive(p) ==
  LET explicit == {b \in {"result", "callback", "factory"} :
                     \/ b = "result" /\ p.should_return_result
                     \/ b = "callback" /\ p.exhausted_callback # "none"
                     \/ b = "factory" /\ p.exhausted_exception_factory # "none"}
  IN /\ \A a, b \in explicit : a = b
     /\ p.should_raise_last => explicit = {}

\* resolve_final_error: the operational error behind a retry signal.
ResolveFinalError(e) ==
  IF ~e.again THEN "itself"
  ELSE IF e.cause = "exception" THEN "cause"
  ELSE IF e.context = "exception" /\ ~e.suppress_context THEN "context"
  ELSE "itself"

\* The exception the factory of p makes is raised, unless it is none.
RaiseFromFactory(p, d) ==
  CASE p.exhausted_exception_factory = "fresh" -> Raises("custom")
    [] p.exhausted_exception_factory = "last_error" /\ d.error # "none" -> Raises(d.error)
    [] OTHER -> Raises("config_error")

\* finish_exhausted
FinishExhausted(p, d) ==
  CASE p.should_return_result -> Returns("result")
    [] ~p.should_return_result /\ p.exhausted_callback # "none" ->
         IF p.exhausted_callback = "raises" THEN Raises("callback_error")
         ELSE Returns("fallback")
    [] ~p.should_return_result /\ p.exhausted_callback = "none"
       /\ p.exhausted_exception_factory # "none" -> RaiseFromFactory(p, d)
    [] OTHER ->
         IF d.error # "none" /\ p.should_raise_last THEN Raises(d.error)
         ELSE IF d.retry_cause = "result" /\ p.result_exhausted_behavior = "raise"
         THEN Raises("RetryExhaustedError")
         ELSE Returns("value")

\* The end of execute_sync and execute_async.
Run(p, d) ==
  IF d.kind = "exhaust" THEN FinishExhausted(p, d)
  ELSE IF p.should_return_result THEN Returns("result")
  ELSE IF d.kind = "reject" THEN Raises(d.error)
  ELSE Returns("value")

\* resolve_tracked_result: the policy's own behaviour, from a tracked result.
ResolveTracked(p, d) ==
  IF p.should_return_result THEN Returns("result")
  ELSE IF d.kind = "exhaust" THEN FinishExhausted(p, d)
  ELSE IF d.error # "none" THEN Raises(d.error)
  ELSE Returns("value")

\* A decorated function runs under policy.return_result() and resolves what it
\* gets when that is a result.
Decorated(p, d) ==
  LET tracked == Run(ReturnResult(p), d)
  IN IF tracked = Returns("result") THEN ResolveTracked(p, d) ELSE tracked

\* _finish, in the __exit__ of a retry block: whether the exception of the block
\* is suppressed and what __exit__ itself raises.  An exhausted block that would
\* raise the exception in flight lets it propagate instead.
Finish(p, d) ==
  LET end == FinishExhausted(p, d)
  IN IF d.kind # "exhaust" THEN [suppressed |-> FALSE, raised |-> "none"]
     ELSE IF end.by = "raise" /\ end.what # "itself"
     THEN [suppressed |-> FALSE, raised |-> end.what]
     ELSE [suppressed |-> end.by = "return" /\ d.retry_cause = "exception",
           raised |-> "none"]

\* What the user of the block sees: the exception in flight unless suppressed or
\* replaced, else iterator.outcome, else iterator.result.
Block(p, d) ==
  LET exit == Finish(p, d)
  IN IF exit.raised # "none" THEN Raises(exit.raised)
     ELSE IF d.error # "none" /\ ~exit.suppressed THEN Raises("itself")
     ELSE IF d.kind = "exhaust" THEN FinishExhausted(p, d)
     ELSE IF p.should_return_result THEN Returns("result") ELSE Returns("value")

-----------------------------------------------------------------------------
Init ==
  /\ policy = DefaultPolicy
  /\ behavior = "raise_last" /\ onResult = "return_last_on_result_exhausted"
  /\ calls = 0
  /\ decision = Undecided

\* One call of the chain.
Configure(p, method, isBehavior) ==
  /\ decision = Undecided /\ calls < MaxCalls
  /\ policy' = p
  /\ behavior' = IF isBehavior THEN method ELSE behavior
  /\ onResult' = IF isBehavior THEN onResult ELSE method
  /\ calls' = calls + 1
  /\ UNCHANGED decision

CallRaiseLast == Configure(RaiseLast(policy), "raise_last", TRUE)
CallReturnResult == Configure(ReturnResult(policy), "return_result", TRUE)
CallFallback ==
  \E c \in Callbacks \ {"none"} : Configure(Fallback(policy, c), "fallback", TRUE)
CallOnExhaustedRaise ==
  \E f \in Factories \ {"none"} :
     Configure(OnExhaustedRaise(policy, f), "on_exhausted_raise", TRUE)
CallRaiseOnResultExhausted ==
  Configure(OnResultExhausted(policy, "raise"), "raise_on_result_exhausted", FALSE)
CallReturnLastOnResultExhausted ==
  Configure(OnResultExhausted(policy, "return_last"), "return_last_on_result_exhausted", FALSE)

Decide(d) ==
  /\ decision = Undecided
  /\ decision' = d
  /\ UNCHANGED <<policy, behavior, onResult, calls>>

\* The executions of the policy: what RetryFlow decides and the result it builds.
Accept == Decide([kind |-> "accept", error |-> "none", retry_cause |-> "none"])
Reject == Decide([kind |-> "reject", error |-> "itself", retry_cause |-> "none"])
ExhaustByResult ==
  Decide([kind |-> "exhaust", error |-> "none", retry_cause |-> "result"])
ExhaustByException ==
  \E e \in Errors :
     Decide([kind |-> "exhaust", error |-> ResolveFinalError(e),
             retry_cause |-> "exception"])

Next ==
  \/ CallRaiseLast \/ CallReturnResult \/ CallFallback \/ CallOnExhaustedRaise
  \/ CallRaiseOnResultExhausted \/ CallReturnLastOnResultExhausted
  \/ Accept \/ Reject \/ ExhaustByResult \/ ExhaustByException

Spec == Init /\ [][Next]_vars

-----------------------------------------------------------------------------
\* "the last behavior method called expresses the user's intent"
\* (docs/concepts/exhaustion.md:48), whatever was called before it and whatever
\* result-exhaustion method was called around it.  Where that behavior is to raise
\* the last exception and there is none, the last result-exhaustion method decides.
\* No chain makes a policy that RetryPolicy.__post_init__ rejects.
LastBehaviorWins ==
  /\ Exclusive(policy)
  /\ decision.kind = "exhaust" =>
    LET end == Run(policy, decision)
    IN CASE behavior = "return_result" -> end = Returns("result")
         [] behavior = "fallback" -> end \in {Returns("fallback"), Raises("callback_error")}
         [] behavior = "on_exhausted_raise" ->
              end \in {Raises("custom"), Raises("config_error"), Raises(decision.error)}
         [] behavior = "raise_last" ->
              IF decision.retry_cause = "exception" THEN end = Raises(decision.error)
              ELSE end = IF onResult = "raise_on_result_exhausted"
                         THEN Raises("RetryExhaustedError") ELSE Returns("value")

\* A decorated function, which runs under another policy to collect statistics,
\* ends exactly as policy.run() does (architecture.md:114).
DecoratedAgrees ==
  decision # Undecided => Decorated(policy, decision) = Run(policy, decision)

\* A retry block ends as policy.run() does: same exception, same outcome, same
\* result.  The one difference: under return_result(), run() returns the result of
\* a non-retryable error and a block lets the error out, which is no exhaustion, so
\* neither falls back (docs/concepts/exhaustion.md, "Non-retryable errors").
BlockAgrees ==
  decision # Undecided =>
    IF decision.kind = "reject" /\ policy.should_return_result
    THEN Block(policy, decision) = Raises("itself")
    ELSE Block(policy, decision) = Run(policy, decision)

=============================================================================
