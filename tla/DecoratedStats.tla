---------------------------- MODULE DecoratedStats ----------------------------
(***************************************************************************)
(* A decorated function called by several threads, and its RetryStats: the *)
(* wrapper runs the tracking policy, records the result and then applies   *)
(* the real policy's behaviour to it, while other threads take snapshots   *)
(* and reset the counters.                                                 *)
(*                                                                         *)
(* Each method of RetryStats holds one lock; the fields it writes or reads *)
(* under it are separate steps here, so that the lock has work to do.      *)
(***************************************************************************)
EXTENDS Naturals, Sequences, FiniteSets

CONSTANTS Threads,
          Results,  \* what the tracking policy may return
          MaxCalls  \* bound: calls of the decorated function

ResultKinds == [succeeded : BOOLEAN, exhausted : BOOLEAN, attempt_count : Nat \ {0}]

ASSUME StatsAssumption ==
  /\ MaxCalls \in Nat /\ Results \subseteq ResultKinds
  /\ \A r \in Results : ~(r.succeeded /\ r.exhausted)

NoThread == "nobody"
ASSUME ThreadAssumption == IsFiniteSet(Threads) /\ NoThread \notin Threads

VARIABLES
  pc,        \* per thread: where its call, snapshot or reset stands
  result,    \* per thread: the tracked result of its call
  lock,      \* the thread that holds RetryStats._lock
  counters,  \* the counters of RetryStats
  snap,      \* per thread: the snapshot it has read so far
  begun,     \* calls begun
  recorded,  \* history: the results recorded since the last reset
  resets,    \* history: how many results the resets have cleared
  ended      \* history: calls that had a result and have ended

vars == <<pc, result, lock, counters, snap, begun, recorded, resets, ended>>

Zero == [calls |-> 0, attempts |-> 0, successes |-> 0, failures |-> 0, exhausted |-> 0]
NoResult == [attempt_count |-> 0]

\* pc: "idle"; a call: "running", "record", "counting", "judging", "releasing",
\* "resolve"; a snapshot: "reading"; a reset: "clearing".

-----------------------------------------------------------------------------
\* Mutants of definitions below, one plausible slip each.
TakeWithoutLock(t) == lock' = lock
ClearCallsOnly == [counters EXCEPT !.calls = 0]
-----------------------------------------------------------------------------
Init ==
  /\ pc = [t \in Threads |-> "idle"] /\ result = [t \in Threads |-> NoResult]
  /\ lock = NoThread /\ counters = Zero /\ snap = [t \in Threads |-> Zero]
  /\ begun = 0 /\ recorded = <<>> /\ resets = 0 /\ ended = 0

Goto(t, from, to) == pc[t] = from /\ pc' = [pc EXCEPT ![t] = to]

Take(t) == lock = NoThread /\ lock' = t
Free == lock' = NoThread

Call(t) ==
  /\ begun < MaxCalls /\ begun' = begun + 1
  /\ Goto(t, "idle", "running")
  /\ UNCHANGED <<result, lock, counters, snap, recorded, resets, ended>>

\* A handler, a strategy or an interruption ended the tracked run: no result.
TrackedRaises(t) ==
  /\ Goto(t, "running", "idle")
  /\ UNCHANGED <<result, lock, counters, snap, begun, recorded, resets, ended>>

TrackedReturns(t) ==
  /\ \E r \in Results :
       /\ Goto(t, "running", "record")
       /\ result' = [result EXCEPT ![t] = r]
  /\ UNCHANGED <<lock, counters, snap, begun, recorded, resets, ended>>

\* RetryStats.record
BeginRecord(t) ==
  /\ Goto(t, "record", "counting") /\ Take(t)
  /\ UNCHANGED <<result, counters, snap, begun, recorded, resets, ended>>

CountCall(t) ==
  /\ Goto(t, "counting", "judging")
  /\ counters' = [counters EXCEPT !.calls = @ + 1, !.attempts = @ + result[t].attempt_count]
  /\ UNCHANGED <<result, lock, snap, begun, recorded, resets, ended>>

CountOutcome(t) ==
  /\ Goto(t, "judging", "releasing")
  /\ counters' =
       [counters EXCEPT !.successes = @ + (IF result[t].succeeded THEN 1 ELSE 0),
                        !.failures = @ + (IF result[t].succeeded THEN 0 ELSE 1),
                        !.exhausted = @ + (IF result[t].exhausted THEN 1 ELSE 0)]
  /\ UNCHANGED <<result, lock, snap, begun, recorded, resets, ended>>

EndRecord(t) ==
  /\ Goto(t, "releasing", "resolve") /\ Free
  /\ recorded' = Append(recorded, result[t])
  /\ UNCHANGED <<result, counters, snap, begun, resets, ended>>

\* resolve_tracked_result returns or raises (module Exhaustion).
Resolve(t) ==
  /\ Goto(t, "resolve", "idle")
  /\ result' = [result EXCEPT ![t] = NoResult]
  /\ ended' = ended + 1
  /\ UNCHANGED <<lock, counters, snap, begun, recorded, resets>>

\* RetryStats.snapshot
BeginSnapshot(t) ==
  /\ Goto(t, "idle", "reading") /\ Take(t)
  /\ snap' = [snap EXCEPT ![t] = [Zero EXCEPT !.calls = counters.calls]]
  /\ UNCHANGED <<result, counters, begun, recorded, resets, ended>>

EndSnapshot(t) ==
  /\ Goto(t, "reading", "idle") /\ Free
  /\ snap' = [snap EXCEPT ![t] = [counters EXCEPT !.calls = snap[t].calls]]
  /\ UNCHANGED <<result, counters, begun, recorded, resets, ended>>

\* RetryStats.reset
Cleared == Zero

BeginReset(t) ==
  /\ Goto(t, "idle", "clearing") /\ Take(t)
  /\ counters' = [counters EXCEPT !.calls = Cleared.calls]
  /\ UNCHANGED <<result, snap, begun, recorded, resets, ended>>

EndReset(t) ==
  /\ Goto(t, "clearing", "idle") /\ Free
  /\ counters' = [Cleared EXCEPT !.calls = counters.calls]
  /\ resets' = resets + Len(recorded)
  /\ recorded' = <<>>
  /\ UNCHANGED <<result, snap, begun, ended>>

Next ==
  \E t \in Threads :
    \/ Call(t) \/ TrackedRaises(t) \/ TrackedReturns(t)
    \/ BeginRecord(t) \/ CountCall(t) \/ CountOutcome(t) \/ EndRecord(t) \/ Resolve(t)
    \/ BeginSnapshot(t) \/ EndSnapshot(t) \/ BeginReset(t) \/ EndReset(t)

Spec == Init /\ [][Next]_vars

-----------------------------------------------------------------------------
\* The attempts of the recorded calls: attempt k of call i.
Attempts == UNION {{i} \X (1..recorded[i].attempt_count) : i \in DOMAIN recorded}

Tally ==
  [calls |-> Len(recorded),
   attempts |-> Cardinality(Attempts),
   successes |-> Cardinality({i \in DOMAIN recorded : recorded[i].succeeded}),
   failures |-> Cardinality({i \in DOMAIN recorded : ~recorded[i].succeeded}),
   exhausted |-> Cardinality({i \in DOMAIN recorded : recorded[i].exhausted})]

\* Whenever nobody holds the lock, the counters are the tally of the results
\* recorded since the last reset, no update lost or half done; and the results ever
\* recorded are those of the calls that had one, each once, also of a call whose
\* fallback or final exception raised.
CountersAreTally ==
  /\ lock = NoThread => counters = Tally
  /\ Len(recorded) + resets = ended + Cardinality({t \in Threads : pc[t] = "resolve"})

\* Every snapshot a thread has taken adds up, whatever ran beside it: each call
\* made an attempt, succeeded or failed, and only failed calls are exhausted.
SnapshotsAddUp ==
  \A t \in Threads : pc[t] # "reading" =>
    /\ snap[t].calls = snap[t].successes + snap[t].failures
    /\ snap[t].exhausted <= snap[t].failures
    /\ snap[t].attempts >= snap[t].calls
=============================================================================
