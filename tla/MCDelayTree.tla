----------------------------- MODULE MCDelayTree -----------------------------
(* Values of DelayTree's constants for model checking: leaves below 0, *)
(* at and above the ceiling, alone and in sums nested up to three deep, and   *)
(* Retry-After delays after every kind of response.                           *)
EXTENDS HttpRetry

Plain(id, d) == [kind |-> "plain", id |-> id, real |-> d, minimal |-> d, fails |-> TRUE]
Stateful(id, d) == [kind |-> "stateful", id |-> id, real |-> d, minimal |-> d + 1,
                    fails |-> TRUE]
SumOf(parts) == [kind |-> "additive", parts |-> parts]

LeavesOf(id) == {Plain(id, d) : d \in {-1, 0, 2, 3, 4}} \cup {Stateful(id, d) : d \in {1, 3}}

FewLeaves(id) == {Plain(id, 2), Plain(id, 4), Stateful(id, 1)}

\* What http_retry_policy(statuses={503}) retries, with and without transport errors.
Headers ==
  {Header(form, s) : form \in {"seconds", "date"}, s \in -1..4}
  \cup {Header("garbled", 0), Header("absent", 0)}
HttpOutcomes ==
  {o \in {TransportError} \cup {Response(status, h) : status \in {404, 503}, h \in Headers} :
     RetriesOutcome({503}, TRUE, o)}
RetryAfters(id) ==
  {RetryAfterLeaf(id, o, d, m) : o \in HttpOutcomes, d \in {0, 2}, m \in {None, 0, 1, 3}}

SomeSums ==
  LeavesOf(1) \cup RetryAfters(1)
  \cup {SumOf(<<a, SumOf(<<b>>)>>) : a \in {Plain(1, 1)}, b \in RetryAfters(2)}
  \cup {SumOf(<<a, b>>) : a \in LeavesOf(1), b \in LeavesOf(2)}
  \cup {SumOf(<<a, SumOf(<<b>>), c>>) : a \in FewLeaves(1), b \in FewLeaves(2), c \in FewLeaves(3)}
  \cup {SumOf(<<SumOf(<<a, SumOf(<<b, c>>)>>), d>>) :
          a \in FewLeaves(1), b \in FewLeaves(2), c \in FewLeaves(3), d \in FewLeaves(4)}

\* The trees and all that they are made of.
Parts(trees) ==
  UNION {{t.parts[i] : i \in DOMAIN t.parts} : t \in {u \in trees : u.kind = "additive"}}
SomeTrees ==
  SomeSums \cup Parts(SomeSums) \cup Parts(Parts(SomeSums)) \cup Parts(Parts(Parts(SomeSums)))
=============================================================================
