------------------------------ MODULE RetryBudget ------------------------------
(***************************************************************************)
(* relinker.budget.RetryBudget: one budget object shared by the threads of *)
(* a process.                                                              *)
(*                                                                         *)
(* Every operation reads the clock BEFORE it takes the lock: the caller of *)
(* _reserve passes current_time, the others call _monotonic() first.  An   *)
(* operation is therefore two steps, Begin... (read the clock) and the     *)
(* body under the lock, and other threads may run between the two.         *)
(***************************************************************************)
EXTENDS BudgetSlots, Functions

CONSTANTS Threads,          \* callers that share the budget object
          Keys,             \* budget keys
          CleanupInterval,  \* _CLEANUP_INTERVAL
          Delays,           \* policy delays asked of _reserve
          MaxClock,         \* bound: last tick of the clock
          MaxTokens         \* bound: no reserve begins after this many tokens

ASSUME CallerAssumption ==
  /\ CleanupInterval \in Nat \ {0}
  /\ Delays \subseteq Nat
  /\ MaxClock \in Nat /\ MaxTokens \in Nat

VARIABLES
  clock,      \* the monotonic clock
  table,      \* _reservations: key -> its reservations
  nextToken,  \* _next_token
  opCount,    \* _op_count
  call,       \* per thread, the operation between its clock read and its lock
  issued,     \* history: every reservation _reserve returned
  released    \* history: those whose _release completed

vars == <<clock, table, nextToken, opCount, call, issued, released>>

Reservation == [token : Nat \ {0}, key : Keys, at : Nat]

NoCall == [op |-> "none"]

Call ==
  {NoCall}
  \cup [op : {"reserve"}, key : Keys, current : Nat, not_before : Nat]
  \cup [op : {"release"}, item : Reservation, current : Nat]
  \cup [op : {"snapshot"}, key : Keys, current : Nat]
  \cup [op : {"cleanup"}, current : Nat]

-----------------------------------------------------------------------------
\* Mutants of definitions below, one plausible slip each.
ReleaseWholeKey(R, item) == {}
DueOneLate == opCount >= CleanupInterval
CleanupAnyExpired(T, now) ==
  Restrict(T, {k \in DOMAIN T : T[k] # {} /\ Prune(T[k], now) = T[k]})
-----------------------------------------------------------------------------
\* Helpers on the table.

Slots(T, k) == IF k \in DOMAIN T THEN T[k] ELSE {}

Put(T, k, R) == [j \in DOMAIN T \cup {k} |-> IF j = k THEN R ELSE T[j]]

Drop(T, k) == Restrict(T, DOMAIN T \ {k})

\* The reservations left when the one with item's token is deleted.
WithoutToken(R, item) == {r \in R : r.token # item.token}

\* _cleanup_expired_keys: keys whose every reservation has expired (or that
\* hold none).
CleanupExpiredKeys(T, now) ==
  Restrict(T, {k \in DOMAIN T : Prune(T[k], now) # {}})

\* _maybe_cleanup: every CleanupInterval-th operation sweeps the table.
Due == opCount + 1 >= CleanupInterval
MaybeCleanup(now) == IF Due THEN CleanupExpiredKeys(table, now) ELSE table
CountOp == opCount' = IF Due THEN 0 ELSE opCount + 1

-----------------------------------------------------------------------------
Init ==
  /\ clock = 0
  /\ table = [k \in {} |-> {}]
  /\ nextToken = 1
  /\ opCount = 0
  /\ call = [t \in Threads |-> NoCall]
  /\ issued = {}
  /\ released = {}

Tick ==
  /\ clock < MaxClock
  /\ clock' = clock + 1
  /\ UNCHANGED <<table, nextToken, opCount, call, issued, released>>

Begin(t, c) ==
  /\ call[t] = NoCall
  /\ call' = [call EXCEPT ![t] = c]
  /\ UNCHANGED <<clock, table, nextToken, opCount, issued, released>>

\* plan_retry_wait reads the clock and adds the policy delay.
BeginReserve(t) ==
  /\ nextToken <= MaxTokens
  /\ \E k \in Keys, d \in Delays :
       Begin(t, [op |-> "reserve", key |-> k, current |-> clock,
                 not_before |-> clock + d])

\* Any reservation may be released, again too: cleanup may run twice.
BeginRelease(t) ==
  \E r \in issued : Begin(t, [op |-> "release", item |-> r, current |-> clock])

BeginSnapshot(t) ==
  \E k \in Keys : Begin(t, [op |-> "snapshot", key |-> k, current |-> clock])

BeginCleanup(t) == Begin(t, [op |-> "cleanup", current |-> clock])

\* Thread t, in operation op, takes the lock, does the body and returns.
Locked(t, op) ==
  /\ call[t].op = op
  /\ call' = [call EXCEPT ![t] = NoCall]
  /\ clock' = clock

Reserve(t) ==
  /\ Locked(t, "reserve")
  /\ LET c    == call[t]
         T    == MaybeCleanup(c.current)
         kept == Prune(Slots(T, c.key), c.current)
         r    == [token |-> nextToken, key |-> c.key,
                  at |-> FirstLegalSlot(Max({c.current, c.not_before}), kept)]
     IN /\ table' = Put(T, c.key, kept \cup {r})
        /\ issued' = issued \cup {r}
  /\ nextToken' = nextToken + 1
  /\ CountOp
  /\ UNCHANGED released

\* A missing key, or one left empty, returns early and keeps the entry.
Release(t) ==
  /\ Locked(t, "release")
  /\ LET item == call[t].item
         T    == MaybeCleanup(call[t].current)
         left == WithoutToken(Slots(T, item.key), item)
     IN /\ table' = IF Slots(T, item.key) = {} THEN T
                    ELSE IF left = {} THEN Drop(T, item.key)
                    ELSE Put(T, item.key, left)
        /\ released' = released \cup {item}
  /\ CountOp
  /\ UNCHANGED <<nextToken, issued>>

\* A snapshot prunes the key it looks at, even to an empty entry.
Snapshot(t) ==
  /\ Locked(t, "snapshot")
  /\ LET k == call[t].key
         T == MaybeCleanup(call[t].current)
     IN table' = IF k \in DOMAIN T
                 THEN Put(T, k, Prune(T[k], call[t].current)) ELSE T
  /\ CountOp
  /\ UNCHANGED <<nextToken, issued, released>>

\* cleanup() sweeps at once and does not count as an operation.
Cleanup(t) ==
  /\ Locked(t, "cleanup")
  /\ table' = CleanupExpiredKeys(table, call[t].current)
  /\ UNCHANGED <<nextToken, opCount, issued, released>>

ThreadStep(t) ==
  \/ BeginReserve(t) \/ BeginRelease(t) \/ BeginSnapshot(t) \/ BeginCleanup(t)
  \/ Reserve(t) \/ Release(t) \/ Snapshot(t) \/ Cleanup(t)

Next == Tick \/ \E t \in Threads : ThreadStep(t)

Spec == Init /\ [][Next]_vars

-----------------------------------------------------------------------------
TypeOK ==
  /\ clock \in Nat
  /\ DOMAIN table \subseteq Keys
  /\ \A k \in DOMAIN table : table[k] \subseteq Reservation
  /\ nextToken \in Nat \ {0}
  /\ opCount \in 0..(CleanupInterval - 1)
  /\ call \in [Threads -> Call]
  /\ issued \subseteq Reservation
  /\ released \subseteq issued

\* The reservations of key k that were granted and not given back.
Granted(k) == {r \in issued \ released : r.key = k}

\* Whatever the threads do, no key of the table ever holds more than
\* MaxRetries reservations in one rolling window (budget.py:213, "Existing
\* reservations are already legal").
TableWithinBudget == \A k \in DOMAIN table : WithinBudget(table[k])

\* The promise of the budget: of ALL the reservations ever granted for a key
\* and not released, the pruned ones included, at most MaxRetries lie in any
\* rolling window (docs/concepts/retry-budgets.md:3).
RollingCapacity == \A k \in Keys : WithinBudget(Granted(k))

\* However stale the clocks the threads hold, no window that ends now or
\* later is overfilled: RollingCapacity can only fail for windows in the past.
OpenWindowCapacity ==
  \A k \in Keys : \A e \in Times(Granted(k)) :
     e >= clock => Cardinality(Window(Granted(k), e)) <= MaxRetries

\* The table forgets nothing that still counts and keeps nothing that was
\* given back: a key's entry is between the granted reservations that have
\* not expired and all the granted ones.
TableExact ==
  \A k \in Keys :
     /\ Prune(Granted(k), clock) \subseteq Slots(table, k)
     /\ Slots(table, k) \subseteq Granted(k)

\* A reservation leaves the table only when it has expired or by its own
\* release, never by the release of another one.
OnlyOwnRelease ==
  [][\A k \in DOMAIN table : \A r \in table[k] \ Slots(table', k) :
        \/ r.at <= MinusPer(clock)
        \/ \E t \in Threads : call[t].op = "release" /\ call[t].item = r
                              /\ call'[t] = NoCall]_vars

\* A slot is granted no earlier than asked, and never later than necessary:
\* every earlier time would have overfilled a window of the reservations the
\* key still counts.
EarliestSlot ==
  [][\A t \in Threads : call[t].op = "reserve" /\ call'[t] = NoCall =>
        \A r \in issued' \ issued :
           /\ r.at >= call[t].not_before
           /\ \A m \in call[t].not_before..(r.at - 1) :
                 ~WithinBudget(Prune(Slots(table, r.key), call[t].current)
                               \cup {[r EXCEPT !.at = m]})]_vars

\* The budget keeps the ledger it promises: whatever its clock readings, its
\* pruning and its sweeps, a reservation is made only where every window still
\* open has room for it among ALL the reservations that are out.
Ledger == INSTANCE SlotLedger WITH granted <- issued \ released
ImplementsLedger == Ledger!Spec

=============================================================================
