------------------------------- MODULE SlotScan -------------------------------
(***************************************************************************)
(* The loop of RetryBudget._first_legal_slot, step by step: it slides a    *)
(* candidate over the blocks of MaxRetries consecutive reservations until  *)
(* a whole pass moves it no more.  BudgetSlots.FirstLegalSlot is what the  *)
(* loop is meant to return.                                                *)
(***************************************************************************)
EXTENDS BudgetSlots, Sequences

CONSTANTS MaxSlots,  \* bound: reservations of the key
          MaxTime    \* bound: their times and the time asked for

ASSUME ScanAssumption == MaxSlots \in Nat /\ MaxTime \in Nat

VARIABLES times,      \* scheduled_times, sorted
          start,      \* the candidate the loop was called with
          candidate, index, changed,
          passes,     \* history: passes of the while loop begun, 2 for more
          pc          \* "while", "for" or "returned"

vars == <<times, start, candidate, index, changed, passes, pc>>

\* The reservations behind the sorted times.
Reservations == {[token |-> i, at |-> times[i]] : i \in DOMAIN times}

SortedTimes ==
  {s \in UNION {[1..n -> 0..MaxTime] : n \in 0..MaxSlots} :
     \A i, j \in DOMAIN s : i <= j => s[i] <= s[j]}

\* The range of the for loop, one-based.
Blocks == 1..(Len(times) - MaxRetries + 1)

-----------------------------------------------------------------------------
\* Mutants of definitions below, one plausible slip each.
BlockForbidsFromLast(i, c) ==
  times[i + MaxRetries - 1] <= c /\ c < FirstSlotAfterWindow(times[i])
BlockForbidsClosed(i, c) ==
  MinusPer(times[i + MaxRetries - 1]) < c /\ c <= FirstSlotAfterWindow(times[i])
-----------------------------------------------------------------------------

\* Block i spans less than a period and c lies in the interval it forbids.
BlockForbids(i, c) ==
  LET first == times[i]
      last  == times[i + MaxRetries - 1]
  IN /\ first > MinusPer(last)
     /\ MinusPer(last) < c /\ c < FirstSlotAfterWindow(first)

Init ==
  /\ times \in SortedTimes
  /\ WithinBudget(Reservations)
  /\ start \in 0..MaxTime
  /\ candidate = start
  /\ index = 1
  /\ changed = TRUE
  /\ passes = 0
  /\ pc = "while"

BeginPass ==
  /\ pc = "while" /\ changed
  /\ changed' = FALSE
  /\ index' = 1
  /\ passes' = IF passes = 0 THEN 1 ELSE 2
  /\ pc' = "for"
  /\ UNCHANGED <<times, start, candidate>>

Advance ==
  /\ pc = "for" /\ index \in Blocks
  /\ BlockForbids(index, candidate)
  /\ candidate' = FirstSlotAfterWindow(times[index])
  /\ changed' = TRUE
  /\ index' = index + 1
  /\ UNCHANGED <<times, start, passes, pc>>

Skip ==
  /\ pc = "for" /\ index \in Blocks
  /\ ~BlockForbids(index, candidate)
  /\ index' = index + 1
  /\ UNCHANGED <<times, start, candidate, changed, passes, pc>>

EndPass ==
  /\ pc = "for" /\ index \notin Blocks
  /\ pc' = "while"
  /\ UNCHANGED <<times, start, candidate, index, changed, passes>>

Return ==
  /\ pc = "while" /\ ~changed
  /\ pc' = "returned"
  /\ UNCHANGED <<times, start, candidate, index, changed, passes>>

Next == BeginPass \/ Advance \/ Skip \/ EndPass \/ Return

Spec == Init /\ [][Next]_vars /\ WF_vars(Next)

-----------------------------------------------------------------------------
TypeOK ==
  /\ times \in Seq(Nat)
  /\ \A i, j \in 1..Len(times) : i <= j => times[i] <= times[j]
  /\ start \in Nat /\ candidate \in Nat
  /\ index \in Nat \ {0} /\ passes \in Nat
  /\ changed \in BOOLEAN
  /\ pc \in {"while", "for", "returned"}

\* The loop returns the earliest time, not before the one asked for, at which
\* one more reservation overfills no window.
ReturnsFirstLegalSlot ==
  pc = "returned" => candidate = FirstLegalSlot(start, Reservations)

\* The candidate never jumps over a time that was free.
SkipsOnlyForbidden ==
  /\ candidate >= start
  /\ \A m \in start..(candidate - 1) : Forbidden(m, Reservations)

\* One pass finds the slot and the re-scan only confirms it: a candidate moved
\* past block i is past every earlier block too (the comment at budget.py:223
\* allows for more passes).
RescanOnlyConfirms == passes >= 2 => ~changed

\* The slot is the least time, not before the one asked for, that leaves every
\* window within the budget, also where first + per is rounded down into the
\* window or up past the first float after it (budget.py:221).
SlotIsLeast ==
  pc = "returned" =>
    LET With(t) == Reservations \cup {[token |-> 0, at |-> t]}
    IN /\ WithinBudget(With(candidate))
       /\ \A t \in start..(candidate - 1) : ~WithinBudget(With(t))

\* A later reservation that _is_legal_slot misjudges: whether it precedes
\* start + per as rounded (budget.py:257) is not whether its window, which begins
\* at the rounded difference, contains start.
Misjudged(R) ==
  \E t \in Times(R) : t > start /\ (t < PlusPer(start)) # (MinusPer(t) < start)

\* snapshot().available is what it is said to be ("how many retries could be
\* reserved immediately", retry-budgets.md:71): the two algorithms, _available_at
\* and _first_legal_slot, agree on every schedule in which rounding lets
\* _is_legal_slot misjudge no reservation.
SnapshotPromise ==
  pc = "returned" =>
    LET R == Prune(Reservations, start)
        n == AvailableAt(start, R)
    IN \/ Misjudged(R)
       \/ /\ n > 0 <=> candidate = start
          /\ \A i \in 0..(n - 1) : FirstLegalSlot(start, WithCopies(R, start, i)) = start
          /\ FirstLegalSlot(start, WithCopies(R, start, n)) > start

\* The loop ends.
Termination == <>(pc = "returned")
=============================================================================
