------------------------------- MODULE HttpRetry -------------------------------
(***************************************************************************)
(* The HTTP helpers: which outcomes http_retry_policy retries, and the     *)
(* delay that retry_after_delay reads from the Retry-After header of the   *)
(* last response, as a stateful leaf of the delay trees of DelayTree.      *)
(*                                                                         *)
(* An outcome is a transport error or a response [status, header].  A      *)
(* header is [form, seconds]: "seconds" (a number, which may be negative), *)
(* "date" (so long after the wall clock's time, negative for the past),    *)
(* "garbled" (also empty or too long) or "absent".                         *)
(***************************************************************************)
EXTENDS DelayTree

CONSTANT MaxRetryAfter  \* MAX_RETRY_AFTER_SECONDS

TransportError == [kind |-> "error"]
Response(status, header) == [kind |-> "response", status |-> status, header |-> header]
Header(form, seconds) == [form |-> form, seconds |-> seconds]

\* Mutant: a date beyond the limit is not waited for at all.
UntilWithin(delay, maximum) == IF delay > maximum THEN 0 ELSE Max({0, delay})

Until(delay, maximum) == Max({0, Min({delay, maximum})})

\* parse_retry_after
ParseRetryAfter(header, default, maximum) ==
  CASE header.form = "seconds" /\ header.seconds >= 0 -> Min({header.seconds, maximum})
    [] header.form = "date" -> Until(header.seconds, maximum)
    [] OTHER -> Min({default, maximum})

\* The callback of retry_after_delay(default, maximum); maximum may be None.  The
\* state of a retried exception has no last value, so there is no header.
RetryAfterDelay(outcome, default, maximum) ==
  LET found == outcome.kind = "response" /\ outcome.header.form # "absent"
      limit == IF maximum = None THEN MaxRetryAfter ELSE maximum
      resolved == IF found THEN ParseRetryAfter(outcome.header, default, limit) ELSE default
  IN Max({0, IF maximum = None THEN resolved ELSE Min({resolved, maximum})})

\* Outcomes retried by http_retry_policy: its condition is retry_if_status(statuses),
\* or_on(...) the transport exceptions that were opted in.
RetriesOutcome(statuses, onTransportErrors, outcome) ==
  \/ outcome.kind = "response" /\ outcome.status \in statuses
  \/ outcome.kind = "error" /\ onTransportErrors

\* The stateful delay that http_retry_policy makes, after an outcome.  Made-up
\* states have no last value.  It never raises.
RetryAfterLeaf(id, outcome, default, maximum) ==
  [kind |-> "stateful", id |-> id, fails |-> FALSE,
   real |-> RetryAfterDelay(outcome, default, maximum),
   minimal |-> RetryAfterDelay(TransportError, default, maximum),
   outcome |-> outcome, maximum |-> maximum]

\* retry_after_delay checks its default and its maximum.
ASSUME HttpAssumption ==
  /\ MaxRetryAfter \in 0..MaxSleep
  /\ \A leaf \in Trees : "outcome" \in DOMAIN leaf =>
       /\ leaf.outcome.kind = "response" => leaf.outcome.header.seconds \in Int
       /\ \E default \in 0..MaxSleep :
            /\ leaf.maximum \in {None} \cup 0..MaxSleep
            /\ leaf = RetryAfterLeaf(leaf.id, leaf.outcome, default, leaf.maximum)

-----------------------------------------------------------------------------
\* A server neither breaks an execution nor stalls it, whatever it sends, and is
\* obeyed: the delay is always one that can be slept, it is not shorter than the
\* server asks for, and longer than the configured maximum only for the sake of
\* the other delays it is added to.
ServerIsHeeded ==
  \A i \in DOMAIN Leaves[tree] :
    LET leaf == Leaves[tree][i]
        asked == leaf.outcome.header.seconds
        limit == IF leaf.maximum = None THEN MaxRetryAfter ELSE leaf.maximum
    IN "outcome" \in DOMAIN leaf =>
         /\ leaf = tree => pc # "raised"
         /\ pc = "returned" =>
              /\ leaf = tree /\ leaf.maximum # None => child <= leaf.maximum
              /\ leaf.outcome.kind = "response" /\ leaf.outcome.header.form \in {"seconds", "date"}
                   => child >= Min({asked, limit})
=============================================================================
