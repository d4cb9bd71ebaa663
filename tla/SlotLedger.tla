------------------------------- MODULE SlotLedger -------------------------------
(***************************************************************************)
(* What a RetryBudget promises its callers, without its table, its clocks  *)
(* and its lock: a ledger of the reservations that are out.                *)
(***************************************************************************)
EXTENDS BudgetSlots

CONSTANT Keys

VARIABLES clock,   \* the monotonic clock
          granted  \* the reservations granted and not given back

vars == <<clock, granted>>

Init == clock = 0 /\ granted = {}

Tick == clock' = clock + 1 /\ granted' = granted

\* A reservation is made when no window that has not closed yet has more than
\* MaxRetries of its key with it; its token tells it from all others.
Grant(r) ==
  LET R == {s \in granted \cup {r} : s.key = r.key}
  IN /\ r.key \in Keys
     /\ \A s \in granted : s.token # r.token
     /\ \A e \in Times(R) : e >= clock => Cardinality(Window(R, e)) <= MaxRetries
     /\ granted' = granted \cup {r}
     /\ clock' = clock

\* A reservation is given back, no other one with it.
Return(r) == granted' = granted \ {r} /\ clock' = clock

\* (A reservation is any record: the new one is read off the next state.)
Next ==
  \/ Tick
  \/ \E r \in granted' : Grant(r)
  \/ \E r \in granted : Return(r)

Spec == Init /\ [][Next]_vars
=============================================================================
