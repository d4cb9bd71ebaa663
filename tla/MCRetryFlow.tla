------------------------------ MODULE MCRetryFlow ------------------------------
(* Values of RetryFlow's constants for model checking. *)
EXTENDS RetryFlow

Registration(name, mode) == [name |-> name, failure_mode |-> mode]

\* Two handlers where their order matters, an isolated one before a propagating
\* one, and one of each other event.
SomeHandlers ==
  <<Registration("before_attempt", "propagate"),
    Registration("after_failure", "isolate"),
    Registration("after_failure", "propagate"),
    Registration("before_sleep", "propagate"),
    Registration("after_giveup", "isolate"),
    Registration("after_giveup", "propagate"),
    Registration("after_success", "isolate")>>

OneHandler == <<Registration("after_giveup", "propagate")>>
=============================================================================
