--------------------------- MODULE Exhaustion_proofs ---------------------------
(***************************************************************************)
(* The exhaustion behaviour of every chain of builder calls, of whatever   *)
(* length, and the agreement of the three ways to run an execution.        *)
(***************************************************************************)
EXTENDS Exhaustion, TLAPS

\* Each builder call leaves exactly one final behaviour in the policy: the one it
\* names.  This is why the order of the earlier calls does not matter.
LastBehavior ==
  /\ behavior \in {"raise_last", "return_result", "fallback", "on_exhausted_raise"}
  /\ policy.should_raise_last <=> behavior = "raise_last"
  /\ policy.should_return_result <=> behavior = "return_result"
  /\ policy.exhausted_callback # "none" <=> behavior = "fallback"
  /\ policy.exhausted_exception_factory # "none" <=> behavior = "on_exhausted_raise"

\* The result-exhaustion method is kept apart from the final behaviours.
LastOnResult ==
  policy.result_exhausted_behavior =
    IF onResult = "raise_on_result_exhausted" THEN "raise" ELSE "return_last"

\* What a decision says of the last attempt: an accepted one raised nothing, a
\* rejected one raised the error the caller gets, and one retried until the stop
\* raised if and only if an exception was what it was retried for.
DecisionFits ==
  \/ decision = Undecided
  \/ /\ decision \in Decisions
     /\ decision.kind = "accept" => decision.error = "none"
     /\ decision.kind = "reject" => decision.error = "itself"
     /\ decision.kind = "exhaust" =>
          /\ decision.retry_cause \in {"exception", "result"}
          /\ decision.retry_cause = "exception" <=> decision.error # "none"

IInv == policy \in Policies /\ LastBehavior /\ LastOnResult /\ DecisionFits

-----------------------------------------------------------------------------
\* A policy whose final behaviour is replaced keeps its result-exhaustion method.
LEMMA NoBehaviorIsNone ==
  ASSUME NEW p \in Policies
  PROVE  /\ NoBehavior(p) \in Policies
         /\ ~NoBehavior(p).should_raise_last /\ ~NoBehavior(p).should_return_result
         /\ NoBehavior(p).exhausted_callback = "none"
         /\ NoBehavior(p).exhausted_exception_factory = "none"
         /\ NoBehavior(p).result_exhausted_behavior = p.result_exhausted_behavior
BY DEF NoBehavior, Policies, Callbacks, Factories

\* The error behind a retry signal is some exception of the attempt.
LEMMA FinalErrorExists ==
  ASSUME NEW e
  PROVE  ResolveFinalError(e) \in ErrorRefs \ {"none"}
BY DEF ResolveFinalError, ErrorRefs

LEMMA InitIInv == Init => IInv
BY DEF Init, IInv, DefaultPolicy, Policies, Callbacks, Factories, LastBehavior, LastOnResult,
   DecisionFits, Undecided

LEMMA StepIInv == IInv /\ [Next]_vars => IInv'
<1> SUFFICES ASSUME IInv, [Next]_vars PROVE IInv'
  OBVIOUS
<1> USE DEF IInv
<1>0. NoBehavior(policy) \in Policies
  BY NoBehaviorIsNone
<1> DEFINE q == NoBehavior(policy)
<1>00. /\ q \in Policies
       /\ ~q.should_raise_last /\ ~q.should_return_result
       /\ q.exhausted_callback = "none" /\ q.exhausted_exception_factory = "none"
       /\ q.result_exhausted_behavior = policy.result_exhausted_behavior
  BY NoBehaviorIsNone
<1> HIDE DEF q
<1>1. CASE CallRaiseLast
  <2>1. policy' = [q EXCEPT !.should_raise_last = TRUE] /\ behavior' = "raise_last"
        /\ UNCHANGED <<onResult, decision>>
    BY <1>1 DEF CallRaiseLast, Configure, RaiseLast, q
  <2> QED BY <2>1, <1>00 DEF Policies, LastBehavior, LastOnResult, DecisionFits
<1>2. CASE CallReturnResult
  <2>1. policy' = [q EXCEPT !.should_return_result = TRUE] /\ behavior' = "return_result"
        /\ UNCHANGED <<onResult, decision>>
    BY <1>2 DEF CallReturnResult, Configure, ReturnResult, q
  <2> QED BY <2>1, <1>00 DEF Policies, LastBehavior, LastOnResult, DecisionFits
<1>3. CASE CallFallback
  <2>1. PICK c \in Callbacks \ {"none"} : Configure(Fallback(policy, c), "fallback", TRUE)
    BY <1>3 DEF CallFallback
  <2>2. policy' = [q EXCEPT !.exhausted_callback = c] /\ behavior' = "fallback"
        /\ UNCHANGED <<onResult, decision>>
    BY <2>1 DEF Configure, Fallback, q
  <2> QED BY <2>2, <1>00 DEF Policies, LastBehavior, LastOnResult, DecisionFits
<1>4. CASE CallOnExhaustedRaise
  <2>1. PICK f \in Factories \ {"none"} :
          Configure(OnExhaustedRaise(policy, f), "on_exhausted_raise", TRUE)
    BY <1>4 DEF CallOnExhaustedRaise
  <2>2. policy' = [q EXCEPT !.exhausted_exception_factory = f]
        /\ behavior' = "on_exhausted_raise" /\ UNCHANGED <<onResult, decision>>
    BY <2>1 DEF Configure, OnExhaustedRaise, q
  <2> QED BY <2>2, <1>00 DEF Policies, LastBehavior, LastOnResult, DecisionFits
<1>5. CASE CallRaiseOnResultExhausted
  <2>1. policy' = [policy EXCEPT !.result_exhausted_behavior = "raise"]
        /\ onResult' = "raise_on_result_exhausted" /\ UNCHANGED <<behavior, decision>>
    BY <1>5 DEF CallRaiseOnResultExhausted, Configure, OnResultExhausted
  <2> QED BY <2>1 DEF Policies, LastBehavior, LastOnResult, DecisionFits
<1>6. CASE CallReturnLastOnResultExhausted
  <2>1. policy' = [policy EXCEPT !.result_exhausted_behavior = "return_last"]
        /\ onResult' = "return_last_on_result_exhausted" /\ UNCHANGED <<behavior, decision>>
    BY <1>6 DEF CallReturnLastOnResultExhausted, Configure, OnResultExhausted
  <2> QED BY <2>1 DEF Policies, LastBehavior, LastOnResult, DecisionFits
<1>7. CASE Accept \/ Reject \/ ExhaustByResult
  <2>1. DecisionFits'
    BY <1>7 DEF Accept, Reject, ExhaustByResult, Decide, DecisionFits, Decisions, ErrorRefs
  <2>2. UNCHANGED <<policy, behavior, onResult>>
    BY <1>7 DEF Accept, Reject, ExhaustByResult, Decide
  <2> QED BY <2>1, <2>2 DEF LastBehavior, LastOnResult
<1>8. CASE ExhaustByException
  <2>1. PICK e \in Errors :
          Decide([kind |-> "exhaust", error |-> ResolveFinalError(e),
                  retry_cause |-> "exception"])
    BY <1>8 DEF ExhaustByException
  <2>2. ResolveFinalError(e) \in ErrorRefs \ {"none"}
    BY FinalErrorExists
  <2>3. DecisionFits'
    BY <2>1, <2>2 DEF Decide, DecisionFits, Decisions
  <2> QED BY <2>1, <2>3 DEF Decide, LastBehavior, LastOnResult
<1>9. CASE UNCHANGED vars
  BY <1>9 DEF vars, LastBehavior, LastOnResult, DecisionFits
<1> QED
  BY <1>1, <1>2, <1>3, <1>4, <1>5, <1>6, <1>7, <1>8, <1>9 DEF Next

LEMMA InductiveInvariant == Spec => []IInv
BY InitIInv, StepIInv, PTL DEF Spec

-----------------------------------------------------------------------------
\* The last behavior method called decides how an exhausted execution ends, in
\* every chain of calls, and no chain makes a policy that is rejected
\* (_replace_exhaustion, finish_exhausted).
THEOREM LastBehaviorDecides == Spec => []LastBehaviorWins
<1>1. ASSUME IInv PROVE Exclusive(policy)
  BY <1>1 DEF IInv, LastBehavior, Exclusive
<1>2. ASSUME IInv, decision.kind = "exhaust"
      PROVE  LastBehaviorWins
  <2> DEFINE end == Run(policy, decision)
  <2>1. end = FinishExhausted(policy, decision)
    BY <1>2 DEF Run
  <2>2. CASE behavior = "return_result"
    BY <1>1, <1>2, <2>1, <2>2 DEF IInv, LastBehavior, FinishExhausted, LastBehaviorWins
  <2>3. CASE behavior = "fallback"
    BY <1>1, <1>2, <2>1, <2>3 DEF IInv, LastBehavior, FinishExhausted, LastBehaviorWins
  <2>4. CASE behavior = "on_exhausted_raise"
    BY <1>1, <1>2, <2>1, <2>4
       DEF IInv, LastBehavior, FinishExhausted, RaiseFromFactory, LastBehaviorWins
  <2>5. CASE behavior = "raise_last"
    <3>1. /\ ~policy.should_return_result /\ policy.should_raise_last
          /\ policy.exhausted_callback = "none" /\ policy.exhausted_exception_factory = "none"
      BY <1>2, <2>5 DEF IInv, LastBehavior
    <3>2. decision.retry_cause = "exception" <=> decision.error # "none"
      BY <1>2 DEF IInv, DecisionFits, Undecided
    <3>3. decision.retry_cause \in {"exception", "result"}
      BY <1>2 DEF IInv, DecisionFits, Undecided
    <3> QED BY <1>1, <1>2, <2>1, <2>5, <3>1, <3>2, <3>3
            DEF IInv, LastOnResult, FinishExhausted, LastBehaviorWins
  <2> QED BY <1>2, <2>2, <2>3, <2>4, <2>5 DEF IInv, LastBehavior
<1>3. IInv => LastBehaviorWins
  BY <1>1, <1>2 DEF LastBehaviorWins
<1> QED BY <1>3, InductiveInvariant, PTL

\* A decorated function ends as policy.run() does, for every policy a chain makes
\* and every decision (resolve_tracked_result).
THEOREM DecoratedRunsAlike == Spec => []DecoratedAgrees
<1>1. ASSUME IInv, decision # Undecided
      PROVE  Decorated(policy, decision) = Run(policy, decision)
  <2>1. ReturnResult(policy).should_return_result
    BY <1>1 DEF IInv, ReturnResult, NoBehavior, Policies
  <2>2. Run(ReturnResult(policy), decision) = Returns("result")
    BY <2>1 DEF Run, FinishExhausted
  <2>3. Decorated(policy, decision) = ResolveTracked(policy, decision)
    BY <2>2 DEF Decorated
  <2>4. ResolveTracked(policy, decision) = Run(policy, decision)
    BY <1>1 DEF IInv, DecisionFits, Decisions, ResolveTracked, Run, FinishExhausted
  <2> QED BY <2>3, <2>4
<1> QED BY <1>1, InductiveInvariant, PTL DEF DecoratedAgrees

\* A retry block ends as policy.run() does, but for a non-retryable error under
\* return_result(), which it lets out (RetryIteration's __exit__ and _finish).
THEOREM BlockRunsAlike == Spec => []BlockAgrees
<1>1. ASSUME IInv, decision # Undecided
      PROVE  BlockAgrees
  <2> DEFINE end  == FinishExhausted(policy, decision)
             exit == Finish(policy, decision)
  <2>1. CASE decision.kind # "exhaust"
    <3>1. exit = [suppressed |-> FALSE, raised |-> "none"]
      BY <2>1 DEF Finish
    <3> QED BY <1>1, <2>1, <3>1 DEF IInv, DecisionFits, Decisions, BlockAgrees, Block, Run
  <2>2. CASE decision.kind = "exhaust"
    <3>1. Run(policy, decision) = end
      BY <2>2 DEF Run
    <3>2. /\ decision.retry_cause \in {"exception", "result"}
          /\ decision.retry_cause = "exception" <=> decision.error # "none"
      BY <1>1, <2>2 DEF IInv, DecisionFits
    <3>3. \/ end \in {Returns("result"), Returns("fallback"), Returns("value")}
          \/ end \in {Raises("callback_error"), Raises("custom"), Raises("config_error"),
                      Raises("RetryExhaustedError")}
          \/ end = Raises(decision.error) /\ decision.error # "none"
      BY DEF FinishExhausted, RaiseFromFactory
    <3>4. CASE end.by = "return"
      BY <2>2, <3>1, <3>2, <3>4 DEF Block, Finish, BlockAgrees
    <3>5. CASE end.by = "raise" /\ end.what # "itself"
      <4>1. end = Raises(end.what) /\ end.what # "none"
        BY <3>3, <3>5 DEF Raises, Returns
      <4>2. exit.raised = end.what
        BY <2>2, <3>5 DEF Finish
      <4> QED BY <2>2, <3>1, <4>1, <4>2 DEF Block, BlockAgrees
    <3>6. CASE end.by = "raise" /\ end.what = "itself"
      <4>1. end = Raises("itself") /\ decision.error # "none"
        BY <3>3, <3>6 DEF Raises, Returns
      <4>2. exit = [suppressed |-> FALSE, raised |-> "none"]
        BY <2>2, <3>6 DEF Finish
      <4> QED BY <2>2, <3>1, <4>1, <4>2 DEF Block, BlockAgrees
    <3>7. end.by \in {"return", "raise"}
      BY <3>3 DEF Raises, Returns
    <3> QED BY <3>4, <3>5, <3>6, <3>7
  <2> QED BY <2>1, <2>2
<1>2. IInv => BlockAgrees
  BY <1>1 DEF BlockAgrees
<1> QED BY <1>2, InductiveInvariant, PTL
=============================================================================
