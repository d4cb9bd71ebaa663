------------------------------ MODULE BudgetSlots ------------------------------
(***************************************************************************)
(* The slot arithmetic of relinker.budget.RetryBudget: which times a key   *)
(* with the reservations R may still grant.                                *)
(*                                                                         *)
(* A reservation is a record [token, key, at]; `at' is scheduled_at.  The  *)
(* deque of a key is the SET of its reservations: every reader sorts it by *)
(* time, filters it or searches it by token, so its order is never seen.   *)
(*                                                                         *)
(* Times are floats, numbered in their order: the integers are the floats, *)
(* t + 1 is nextafter(t, inf), and sums and differences with the period    *)
(* are whatever float the arithmetic of the clock rounds them to.          *)
(***************************************************************************)
EXTENDS Integers, FiniteSets, FiniteSetsExt

CONSTANTS MaxRetries,  \* RetryBudget.max_retries
          MinusPer(_), \* t - per, where per is RetryBudget.per
          PlusPer(_)   \* t + per

ASSUME BudgetAssumption == MaxRetries \in Nat \ {0}

\* What is known of sums and differences of floats in S that are rounded to the
\* nearest one, where per is not too small beside them: the order is kept, and
\* the float before last is less than a period after f, the next one is not.
RoundsToNearest(S) ==
  /\ \A t \in S : MinusPer(t) \in Int /\ PlusPer(t) \in Int /\ MinusPer(t) < t
  /\ \A t, u \in S : t <= u => MinusPer(t) <= MinusPer(u)
  /\ \A f \in S : MinusPer(PlusPer(f) + 1) >= f /\ MinusPer(PlusPer(f) - 2) < f

Times(R) == {r.at : r \in R}

\* The rolling window that ends at e: open on the left, closed on the right.
Window(R, e) == {r \in R : MinusPer(e) < r.at /\ r.at <= e}

\* Every rolling window of R holds at most MaxRetries reservations.
WithinBudget(R) == \A e \in Times(R) : Cardinality(Window(R, e)) <= MaxRetries

-----------------------------------------------------------------------------
\* Mutants of the definitions below, one plausible slip each.
IsLegalSlotPastOnly(c, R) == Cardinality(Window(R, c)) < MaxRetries
ForbiddenPastOnly(c, R) ==
  \E hi \in R : /\ hi.at <= c
                /\ Cardinality(Window(R, c)) >= MaxRetries
\* Appends after every known slot instead of filling the first gap.
LastCandidate(c, R) == Max({c} \cup {PlusPer(r.at) : r \in R})
\* The sum is taken for the first slot after the window.
Uncorrected(first) == PlusPer(first)
-----------------------------------------------------------------------------

\* The first time whose window no longer contains a slot at `first': the sum, or
\* the float next to it where rounding asks for it.
FirstSlotAfterWindow(first) ==
  LET candidate == PlusPer(first)
  IN CASE MinusPer(candidate - 1) >= first -> candidate - 1
       [] MinusPer(candidate - 1) < first /\ MinusPer(candidate) >= first -> candidate
       [] OTHER -> candidate + 1

\* _prune: the reservations still inside the window that ends at `now', or later.
Prune(R, now) == {r \in R : r.at > MinusPer(now)}

\* Some MaxRetries reservations that share a window would share one with c:
\* the test of the scan over the blocks of consecutive reservations.
Forbidden(c, R) ==
  \E lo, hi \in R :
     /\ lo.at <= hi.at
     /\ lo.at > MinusPer(hi.at)
     /\ Cardinality({r \in R : lo.at <= r.at /\ r.at <= hi.at}) >= MaxRetries
     /\ MinusPer(hi.at) < c /\ c < FirstSlotAfterWindow(lo.at)

\* Where the scan can stop: at the time asked for, or where a window expires.
Candidates(c, R) ==
  {m \in {c} \cup {FirstSlotAfterWindow(r.at) : r \in R} : m >= c}

LegalCandidates(c, R) == {m \in Candidates(c, R) : ~Forbidden(m, R)}

\* _first_legal_slot: what its loop returns (module SlotScan models the loop).
FirstLegalSlot(c, R) == Min(LegalCandidates(c, R))

\* _is_legal_slot: the independent test used to count the available slots.
IsLegalSlot(c, R) ==
  \A e \in {c} \cup {t \in Times(R) : c < t /\ t < PlusPer(c)} :
     Cardinality(Window(R, e)) < MaxRetries

\* R with n more reservations at time c (their tokens only keep them apart).
WithCopies(R, c, n) == R \cup {[token |-> 0 - i, at |-> c] : i \in 1..n}

\* _available_at: how often a slot at c can be inserted before it is illegal.
AvailableAt(c, R) ==
  Min({n \in 0..MaxRetries : ~IsLegalSlot(c, WithCopies(R, c, n))})

=============================================================================
