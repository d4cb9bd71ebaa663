---------------------------- MODULE SlotScan_proofs ----------------------------
(***************************************************************************)
(* The loop of _first_legal_slot returns the least slot the budget allows, *)
(* for every sorted list of times, every MaxRetries and every clock that   *)
(* rounds to nearest; its second pass never moves the candidate.  And the  *)
(* number of slots that a snapshot reports is the number that fit.         *)
(***************************************************************************)
EXTENDS SlotScan, BudgetSlots_proofs, SequenceTheorems

-----------------------------------------------------------------------------
\* The test over consecutive blocks and the one over pairs of reservations
\* forbid the same times.

LEMMA ReservationsTimed ==
  ASSUME TypeOK
  PROVE  /\ Timed(Reservations)
         /\ \A r \in Reservations : /\ r.token \in 1..Len(times)
                                    /\ r.at = times[r.token]
<1> DEFINE f == [i \in DOMAIN times |-> [token |-> i, at |-> times[i]]]
<1>1. DOMAIN times = 1..Len(times) /\ Len(times) \in Nat
      /\ \A i \in 1..Len(times) : times[i] \in Nat
  BY DEF TypeOK
<1>2. IsFiniteSet(DOMAIN times)
  BY <1>1, FS_Interval
<1>3. f \in Surjection(DOMAIN times, Reservations)
  BY DEF Surjection, Reservations
<1>4. IsFiniteSet(Reservations)
  BY <1>2, <1>3, FS_Surjection
<1>5. \A r \in Reservations : r.token \in 1..Len(times) /\ r.at = times[r.token]
  BY <1>1 DEF Reservations
<1> QED BY <1>1, <1>4, <1>5 DEF Timed

LEMMA BlockIsForbidden ==
  ASSUME TypeOK, NEW i \in Blocks, NEW c \in Int, BlockForbids(i, c)
  PROVE  Forbidden(c, Reservations)
<1> USE BudgetAssumption
<1> DEFINE j == i + MaxRetries - 1
           lo == [token |-> i, at |-> times[i]]
           hi == [token |-> j, at |-> times[j]]
           B == {r \in Reservations : lo.at <= r.at /\ r.at <= hi.at}
           f == [n \in i..j |-> [token |-> n, at |-> times[n]]]
           T == {f[n] : n \in i..j}
<1>1. /\ Len(times) \in Nat /\ DOMAIN times = 1..Len(times)
      /\ i \in 1..Len(times) /\ j \in 1..Len(times) /\ i <= j
      /\ \A n \in 1..Len(times) : times[n] \in Nat
  BY DEF TypeOK, Blocks
<1>2. lo \in Reservations /\ hi \in Reservations
  BY <1>1 DEF Reservations
<1>3. times[i] <= times[j]
  BY <1>1 DEF TypeOK
<1>4. T \in SUBSET B
  <2> SUFFICES ASSUME NEW n \in i..j PROVE f[n] \in B
    OBVIOUS
  <2>1. n \in 1..Len(times) /\ i <= n /\ n <= j
    BY <1>1
  <2>2. times[i] <= times[n] /\ times[n] <= times[j]
    BY <1>1, <2>1 DEF TypeOK
  <2>3. [token |-> n, at |-> times[n]] \in Reservations
    BY <1>1, <2>1 DEF Reservations
  <2> QED BY <2>2, <2>3
<1>5. Cardinality(T) = MaxRetries
  <2>1. f \in Surjection(i..j, T) /\ f \in Injection(i..j, T)
    BY DEF Surjection, Injection, IsInjective
  <2>2. IsFiniteSet(i..j) /\ Cardinality(i..j) = j - i + 1
    BY <1>1, FS_Interval
  <2>3. Cardinality(T) = Cardinality(i..j)
    BY <2>1, <2>2, FS_Surjection
  <2> QED BY <1>1, <2>2, <2>3
<1>6. IsFiniteSet(B) /\ Cardinality(B) \in Nat /\ Cardinality(T) <= Cardinality(B)
  BY <1>4, ReservationsTimed, FS_Subset, FS_CardinalityType DEF Timed
<1>7. Cardinality(B) >= MaxRetries
  BY <1>5, <1>6
<1>8. lo.at > MinusPer(hi.at) /\ MinusPer(hi.at) < c /\ c < FirstSlotAfterWindow(lo.at)
  BY DEF BlockForbids
<1> QED BY <1>2, <1>3, <1>7, <1>8 DEF Forbidden

LEMMA ForbiddenHasBlock ==
  ASSUME RoundsToNearest(Int), TypeOK, NEW c \in Int, Forbidden(c, Reservations)
  PROVE  \E i \in Blocks : BlockForbids(i, c)
<1> USE BudgetAssumption
<1>1. PICK lo \in Reservations, hi \in Reservations :
        /\ lo.at <= hi.at
        /\ lo.at > MinusPer(hi.at)
        /\ Cardinality({r \in Reservations : lo.at <= r.at /\ r.at <= hi.at}) >= MaxRetries
        /\ MinusPer(hi.at) < c /\ c < FirstSlotAfterWindow(lo.at)
  BY DEF Forbidden
<1> DEFINE Q == {r \in Reservations : lo.at <= r.at /\ r.at <= hi.at}
           P == {n \in 1..Len(times) : lo.at <= times[n] /\ times[n] <= hi.at}
           f == [n \in P |-> [token |-> n, at |-> times[n]]]
<1>2. /\ Len(times) \in Nat /\ DOMAIN times = 1..Len(times)
      /\ \A n \in 1..Len(times) : times[n] \in Nat
  BY DEF TypeOK
<1>3. IsFiniteSet(P) /\ P \subseteq Int
  <2>1. P \in SUBSET (1..Len(times)) /\ IsFiniteSet(1..Len(times))
    BY <1>2, FS_Interval
  <2>2. IsFiniteSet(P)
    BY <2>1, FS_Subset
  <2>3. P \subseteq Int
    BY <1>2
  <2> QED BY <2>2, <2>3
<1>4. f \in Surjection(P, Q)
  BY <1>2 DEF Surjection, Reservations
<1>5. IsFiniteSet(Q) /\ Cardinality(Q) <= Cardinality(P)
  BY <1>3, <1>4, FS_Surjection
<1>6. Cardinality(P) \in Nat /\ Cardinality(Q) \in Nat /\ Cardinality(P) >= MaxRetries
  <2>1. Cardinality(P) \in Nat
    BY <1>3, FS_CardinalityType
  <2>2. Cardinality(Q) \in Nat
    BY <1>5, FS_CardinalityType
  <2>3. Cardinality(Q) >= MaxRetries
    BY <1>1
  <2> QED BY <1>5, <2>1, <2>2, <2>3
<1>7. P # {}
  <2>1. Cardinality(P) # 0
    BY <1>6
  <2> HIDE DEF P
  <2> QED BY <2>1, FS_EmptySet
<1>8. PICK p \in P : \A n \in P : p <= n
  BY <1>3, <1>7, FiniteMin
<1>9. PICK q \in P : \A n \in P : n <= q
  BY <1>3, <1>7, FiniteMax
<1>10. p \in 1..Len(times) /\ q \in 1..Len(times) /\ p <= q
  BY <1>8, <1>9
<1>11. P \in SUBSET (p..q)
  BY <1>8, <1>9
<1>12. Cardinality(P) <= q - p + 1
  BY <1>10, <1>11, FS_Interval, FS_Subset
<1>13. p + MaxRetries - 1 <= q
  BY <1>6, <1>10, <1>12
<1>14. p \in Blocks /\ p + MaxRetries - 1 \in 1..Len(times)
  BY <1>2, <1>10, <1>13 DEF Blocks
<1>15. times[p + MaxRetries - 1] <= times[q]
  BY <1>10, <1>13, <1>14 DEF TypeOK
<1>16. lo.at <= times[p] /\ times[q] <= hi.at
  OBVIOUS
<1>17. lo.at \in Int /\ hi.at \in Int
  BY ReservationsTimed DEF Timed
<1>18. BlockForbids(p, c)
  <2>1. times[p] \in Int /\ times[q] \in Int /\ times[p + MaxRetries - 1] \in Int
    BY <1>2, <1>10, <1>14
  <2> DEFINE first == times[p]
             last == times[p + MaxRetries - 1]
  <2> HIDE DEF first, last, P, Q, f
  <2>2. first \in Int /\ last \in Int /\ lo.at <= first /\ last <= hi.at
    BY <1>15, <1>16, <1>17, <2>1 DEF first, last
  <2>3. /\ MinusPer(last) \in Int /\ MinusPer(hi.at) \in Int /\ MinusPer(c) \in Int
        /\ MinusPer(last) <= MinusPer(hi.at)
    BY <1>17, <2>2, WindowsInOrder
  <2>4. first > MinusPer(last) /\ MinusPer(last) < c
    BY <1>1, <1>17, <2>2, <2>3
  <2>5. MinusPer(c) < lo.at
    BY <1>1, <1>17, FirstSlotIsLeast
  <2>6. MinusPer(c) < first
    BY <1>17, <2>2, <2>3, <2>5
  <2>7. c < FirstSlotAfterWindow(first)
    BY <2>2, <2>6, FirstSlotIsLeast
  <2> QED BY <2>4, <2>7 DEF BlockForbids, first, last
<1> QED BY <1>14, <1>18

-----------------------------------------------------------------------------
\* The inductive invariant of the loop.

AllClear == \A j \in Blocks : ~BlockForbids(j, candidate)

\* The blocks already scanned in this pass do not forbid the candidate: it was
\* moved past their windows, or never was in one.  So a second pass finds
\* nothing to do.
ScanInv ==
  /\ TypeOK
  /\ candidate >= start
  /\ \A m \in start..(candidate - 1) : Forbidden(m, Reservations)
  /\ pc = "for" => \A j \in Blocks : j < index => ~BlockForbids(j, candidate)
  /\ pc = "while" => changed \/ passes >= 1
  /\ passes >= 1 /\ pc # "for" => AllClear
  /\ passes >= 2 => AllClear /\ ~changed
  /\ pc \in {"for", "returned"} => passes >= 1

LEMMA InitScanInv == Init => ScanInv
<1> SUFFICES ASSUME Init PROVE ScanInv
  OBVIOUS
<1>1. times \in Seq(Nat) /\ \A i, j \in 1..Len(times) : i <= j => times[i] <= times[j]
  <2>1. PICK n \in 0..MaxSlots : times \in [1..n -> 0..MaxTime]
    BY DEF Init, SortedTimes
  <2>2. n \in Nat /\ times \in [1..n -> Nat]
    BY <2>1, ScanAssumption
  <2>3. times \in Seq(Nat)
    BY <2>2, SeqDef
  <2>4. DOMAIN times = 1..Len(times)
    BY <2>3, LenProperties
  <2> QED BY <2>3, <2>4 DEF Init, SortedTimes
<1>2. start \in Nat
  BY ScanAssumption DEF Init
<1>3. TypeOK
  BY <1>1, <1>2 DEF Init, TypeOK
<1> QED BY <1>2, <1>3 DEF Init, ScanInv

LEMMA StepScanInv ==
  ASSUME RoundsToNearest(Int)
  PROVE  ScanInv /\ [Next]_vars => ScanInv'
<1> SUFFICES ASSUME ScanInv, [Next]_vars PROVE ScanInv'
  OBVIOUS
<1> USE BudgetAssumption
<1>0. TypeOK /\ start \in Nat /\ candidate \in Nat /\ index \in Nat \ {0} /\ passes \in Nat
  BY DEF ScanInv, TypeOK
<1>1. CASE BeginPass
  <2>1. TypeOK'
    <3>1. passes' \in Nat /\ index' \in Nat \ {0}
      BY <1>0, <1>1 DEF BeginPass
    <3> QED BY <1>0, <1>1, <3>1 DEF BeginPass, TypeOK
  <2>2. ~passes >= 2
    BY <1>1 DEF BeginPass, ScanInv
  <2>3. Blocks' = Blocks /\ Reservations' = Reservations
        /\ candidate' = candidate /\ start' = start
    BY <1>1 DEF BeginPass, Blocks, Reservations
  <2>4. \A j \in Blocks : BlockForbids(j, candidate)' = BlockForbids(j, candidate)
    BY <1>1 DEF BeginPass, BlockForbids
  <2>5. passes' >= 1 /\ (passes' >= 2 => passes >= 1)
    BY <1>0, <1>1 DEF BeginPass
  <2>6. \A j \in Blocks : ~(j < 1)
    BY DEF Blocks
  <2> QED BY <1>1, <2>1, <2>3, <2>4, <2>5, <2>6 DEF BeginPass, ScanInv, AllClear
<1>2. CASE Advance
  <2> DEFINE first == times[index]
             last == times[index + MaxRetries - 1]
  <2>1. /\ Len(times) \in Nat /\ index \in 1..Len(times)
        /\ index + MaxRetries - 1 \in 1..Len(times)
        /\ first \in Nat /\ last \in Nat
    BY <1>0, <1>2 DEF Advance, Blocks, TypeOK
  <2>2. /\ first > MinusPer(last) /\ MinusPer(last) < candidate /\ candidate < FirstSlotAfterWindow(first)
        /\ candidate' = FirstSlotAfterWindow(first)
    BY <1>2 DEF Advance, BlockForbids
  <2>3. UNCHANGED <<times, start, passes, pc>> /\ index' = index + 1 /\ changed' = TRUE
        /\ pc = "for" /\ index \in Blocks
    BY <1>2 DEF Advance
  <2> HIDE DEF first, last
  <2>a. FirstSlotAfterWindow(first) \in Int /\ MinusPer(last) \in Int
    <3>1. first \in Int /\ last \in Int
      BY <2>1
    <3>2. FirstSlotAfterWindow(first) \in Int
      BY <3>1, FirstSlotIsLeast
    <3>3. MinusPer(last) \in Int
      BY <3>1, WindowsInOrder
    <3> QED BY <3>2, <3>3
  <2>4. candidate' \in Nat /\ candidate' > candidate
    BY <1>0, <2>1, <2>2, <2>a
  <2>5. TypeOK'
    BY <1>0, <2>3, <2>4 DEF TypeOK
  <2>6. ASSUME NEW m \in start..(candidate' - 1) PROVE Forbidden(m, Reservations)
    <3>1. CASE m < candidate
      BY <1>0, <3>1 DEF ScanInv
    <3>2. CASE m >= candidate
      <4>1. m \in Int /\ MinusPer(last) < m /\ m < FirstSlotAfterWindow(first)
        BY <1>0, <2>1, <2>2, <2>a, <2>4, <3>2
      <4>2. BlockForbids(index, m)
        BY <2>2, <4>1 DEF BlockForbids, first, last
      <4> QED BY <1>0, <2>3, <4>1, <4>2, BlockIsForbidden
    <3> QED BY <1>0, <3>1, <3>2
  <2>7. ASSUME NEW j \in Blocks, j < index + 1 PROVE ~BlockForbids(j, candidate')
    <3>1. j \in 1..Len(times) /\ j <= index
      BY <1>0, <2>1, <2>7 DEF Blocks
    <3>2. times[j] <= first
      BY <1>0, <2>1, <3>1 DEF TypeOK, first
    <3>3. times[j] \in Nat
      BY <1>0, <3>1 DEF TypeOK
    <3>4. candidate' \in Int /\ MinusPer(candidate') \in Int /\ MinusPer(candidate') >= first
      <4>1. candidate' \in Int /\ candidate' = FirstSlotAfterWindow(first) /\ first \in Int
        BY <2>1, <2>2, <2>a
      <4>2. ~(candidate' < FirstSlotAfterWindow(first))
        BY <4>1
      <4>3. ~(MinusPer(candidate') < first)
        BY <4>1, <4>2, FirstSlotIsLeast
      <4> QED BY <4>1, <4>3, WindowsInOrder
    <3>5. ~(MinusPer(candidate') < times[j])
      BY <2>1, <3>2, <3>3, <3>4
    <3>6. ~(candidate' < FirstSlotAfterWindow(times[j]))
      BY <3>3, <3>4, <3>5, FirstSlotIsLeast
    <3> QED BY <3>6 DEF BlockForbids
  <2>8. ~(passes >= 2)
    BY <1>2 DEF Advance, ScanInv, AllClear
  <2>9. Blocks' = Blocks /\ Reservations' = Reservations
        /\ \A j : BlockForbids(j, candidate)' <=> BlockForbids(j, candidate')
    BY <2>3 DEF Blocks, Reservations, BlockForbids
  <2>10. candidate' >= start'
    BY <1>0, <2>3, <2>4 DEF ScanInv
  <2> QED BY <2>3, <2>5, <2>6, <2>7, <2>8, <2>9, <2>10 DEF ScanInv
<1>3. CASE Skip
  <2>1. TypeOK'
    BY <1>0, <1>3 DEF Skip, TypeOK
  <2>2. /\ UNCHANGED <<times, start, candidate, changed, passes, pc>> /\ index' = index + 1
        /\ Blocks' = Blocks /\ Reservations' = Reservations
        /\ \A j : BlockForbids(j, candidate)' <=> BlockForbids(j, candidate)
    BY <1>3 DEF Skip, Blocks, Reservations, BlockForbids
  <2>3. \A j \in Blocks : j < index + 1 => j < index \/ j = index
    BY <1>0 DEF Blocks, TypeOK
  <2> QED BY <1>3, <2>1, <2>2, <2>3 DEF Skip, ScanInv, AllClear
<1>4. CASE EndPass
  <2>1. TypeOK'
    BY <1>0, <1>4 DEF EndPass, TypeOK
  <2>2. /\ UNCHANGED <<times, start, candidate, index, changed, passes>>
        /\ Blocks' = Blocks /\ Reservations' = Reservations
        /\ \A j : BlockForbids(j, candidate)' <=> BlockForbids(j, candidate)
    BY <1>4 DEF EndPass, Blocks, Reservations, BlockForbids
  <2>3. \A j \in Blocks : j < index
    BY <1>0, <1>4 DEF EndPass, Blocks, TypeOK
  <2>4. AllClear
    BY <1>4, <2>3 DEF EndPass, ScanInv, AllClear
  <2> QED BY <1>4, <2>1, <2>2, <2>4 DEF EndPass, ScanInv, AllClear
<1>5. CASE Return
  <2>1. TypeOK'
    BY <1>0, <1>5 DEF Return, TypeOK
  <2>2. /\ UNCHANGED <<times, start, candidate, index, changed, passes>>
        /\ Blocks' = Blocks /\ Reservations' = Reservations
        /\ \A j : BlockForbids(j, candidate)' <=> BlockForbids(j, candidate)
    BY <1>5 DEF Return, Blocks, Reservations, BlockForbids
  <2> QED BY <1>5, <2>1, <2>2 DEF Return, ScanInv, AllClear
<1>6. CASE UNCHANGED vars
  BY <1>6 DEF vars, ScanInv, TypeOK, AllClear, Blocks, Reservations, BlockForbids
<1> QED BY <1>1, <1>2, <1>3, <1>4, <1>5, <1>6 DEF Next

LEMMA ScanInvariant ==
  ASSUME RoundsToNearest(Int)
  PROVE  Spec => []ScanInv
BY InitScanInv, StepScanInv, PTL DEF Spec

\* No forbidden block is left below the candidate when the loop returns.
LEMMA ReturnIsFirst ==
  ASSUME RoundsToNearest(Int), ScanInv
  PROVE  ReturnsFirstLegalSlot
<1> SUFFICES ASSUME pc = "returned"
             PROVE  candidate = FirstLegalSlot(start, Reservations)
  BY DEF ReturnsFirstLegalSlot
<1> DEFINE R == Reservations
           slot == FirstLegalSlot(start, R)
<1>1. TypeOK /\ start \in Int /\ candidate \in Int /\ candidate >= start
  BY DEF ScanInv, TypeOK
<1>2. AllClear
  BY DEF ScanInv, TypeOK
<1>3. ~Forbidden(candidate, R)
  BY <1>1, <1>2, ForbiddenHasBlock DEF AllClear
<1>4. Timed(R)
  BY <1>1, ReservationsTimed
<1>5. slot \in Int /\ slot >= start /\ ~Forbidden(slot, R)
  BY <1>1, <1>4, FirstLegalSlotIsLegal
<1>6. ~(slot < candidate)
  BY <1>1, <1>5 DEF ScanInv
<1>7. ~(candidate < slot)
  BY <1>1, <1>3, <1>4, FirstLegalSlotIsEarliest
<1> QED BY <1>1, <1>5, <1>6, <1>7

\* Whenever the loop returns, it returns the first legal slot: the declarative
\* FirstLegalSlot that the other modules use is what the code computes.
THEOREM LoopReturnsFirstLegalSlot ==
  ASSUME RoundsToNearest(Int)
  PROVE  Spec => []ReturnsFirstLegalSlot
<1>1. ScanInv => ReturnsFirstLegalSlot
  BY ReturnIsFirst
<1> QED BY <1>1, ScanInvariant, PTL

\* The reservations are those of a budget, and the loop only reads them.
LEMMA BudgetKept == Spec => []WithinBudget(Reservations)
<1> DEFINE Kept == WithinBudget(Reservations)
<1>1. Init => Kept
  BY DEF Init
<1>2. Kept /\ [Next]_vars => Kept'
  <2> SUFFICES ASSUME Kept, [Next]_vars PROVE Kept'
    OBVIOUS
  <2>1. times' = times
    BY DEF Next, BeginPass, Advance, Skip, EndPass, Return, vars
  <2>2. Reservations' = Reservations
    BY <2>1 DEF Reservations
  <2> QED BY <2>2 DEF WithinBudget, Times, Window
<1> QED BY <1>1, <1>2, PTL DEF Spec

\* The candidate never jumps over a free time.
THEOREM LoopSkipsOnlyForbidden ==
  ASSUME RoundsToNearest(Int)
  PROVE  Spec => []SkipsOnlyForbidden
<1>1. ScanInv => SkipsOnlyForbidden
  BY DEF ScanInv, SkipsOnlyForbidden
<1> QED BY <1>1, ScanInvariant, PTL

\* The second pass of the while loop never moves the candidate.
THEOREM SecondPassOnlyConfirms ==
  ASSUME RoundsToNearest(Int)
  PROVE  Spec => []RescanOnlyConfirms
<1>1. ScanInv => RescanOnlyConfirms
  BY DEF ScanInv, RescanOnlyConfirms
<1> QED BY <1>1, ScanInvariant, PTL

\* The loop returns the least time that leaves every window within the budget:
\* neither a rounding of first + per nor the jumps of the scan cost a caller a
\* single float.
THEOREM SlotIsTheLeast ==
  ASSUME RoundsToNearest(Int)
  PROVE  Spec => []SlotIsLeast
<1> DEFINE R == Reservations
           Kept == WithinBudget(R)
<1>1. ASSUME ScanInv, Kept, pc = "returned"
      PROVE  LET With(t) == R \cup {[token |-> 0, at |-> t]}
             IN /\ WithinBudget(With(candidate))
                /\ \A t \in start..(candidate - 1) : ~WithinBudget(With(t))
  <2>1. TypeOK /\ start \in Int /\ candidate \in Int /\ AllClear /\ Timed(R)
    BY <1>1, ReservationsTimed DEF ScanInv, TypeOK
  <2>2. ~Forbidden(candidate, R)
    BY <2>1, ForbiddenHasBlock DEF AllClear
  <2>3. WithinBudget(R \cup {[token |-> 0, at |-> candidate]})
    <3> DEFINE x == [token |-> 0, at |-> candidate]
    <3>1. x.at = candidate
      OBVIOUS
    <3> HIDE DEF x, R
    <3> QED BY <1>1, <2>1, <2>2, <3>1, LegalSlotKeepsBudget DEF x
  <2>4. ASSUME NEW t \in start..(candidate - 1)
        PROVE  ~WithinBudget(R \cup {[token |-> 0, at |-> t]})
    <3> DEFINE x == [token |-> 0, at |-> t]
    <3>1. t \in Int /\ Forbidden(t, R)
      BY <1>1, <2>1 DEF ScanInv
    <3>2. x.at = t /\ x.token = 0
      OBVIOUS
    <3>3. x \notin R
      <4>1. \A r \in R : r.token \in 1..Len(times) /\ Len(times) \in Nat
        BY <2>1, ReservationsTimed DEF TypeOK
      <4>2. \A r \in R : r.token # 0
        BY <4>1
      <4> QED BY <3>2, <4>2
    <3> HIDE DEF x, R
    <3> QED BY <2>1, <3>1, <3>2, <3>3, ForbiddenOverfills DEF x
  <2> QED BY <2>3, <2>4
<1>2. ScanInv /\ Kept => SlotIsLeast
  BY <1>1 DEF SlotIsLeast
<1> QED BY <1>2, ScanInvariant, BudgetKept, PTL

-----------------------------------------------------------------------------
\* The slot is the time asked for exactly when that is free.
LEMMA FreeSlotIsFirst ==
  ASSUME RoundsToNearest(Int), NEW R, Timed(R), NEW c \in Int
  PROVE  /\ FirstLegalSlot(c, R) = c <=> ~Forbidden(c, R)
         /\ Forbidden(c, R) => FirstLegalSlot(c, R) > c
<1>1. /\ FirstLegalSlot(c, R) \in Int /\ FirstLegalSlot(c, R) >= c
      /\ ~Forbidden(FirstLegalSlot(c, R), R)
  BY FirstLegalSlotIsLegal
<1>2. ASSUME ~Forbidden(c, R) PROVE FirstLegalSlot(c, R) <= c
  <2>1. c \in LegalCandidates(c, R)
    BY <1>2, CandidatesFinite DEF LegalCandidates
  <2> QED BY <2>1, FirstLegalSlotIsLegal
<1> QED BY <1>1, <1>2

\* What _prune drops forbids nothing any more.
LEMMA PrunedForbidsNothing ==
  ASSUME RoundsToNearest(Int), NEW R, Timed(R), NEW c \in Int
  PROVE  Forbidden(c, R) <=> Forbidden(c, Prune(R, c))
<1> DEFINE P == Prune(R, c)
<1>1. \A r \in R : r.at \in Int /\ MinusPer(c) \in Int
  BY WindowsInOrder DEF Timed
<1>2. ASSUME NEW lo \in R, NEW hi \in R, lo.at <= hi.at, c < FirstSlotAfterWindow(lo.at)
      PROVE  /\ lo \in P /\ hi \in P
             /\ {r \in R : lo.at <= r.at /\ r.at <= hi.at}
                  = {r \in P : lo.at <= r.at /\ r.at <= hi.at}
  <2>1. MinusPer(c) < lo.at
    BY <1>1, <1>2, FirstSlotIsLeast
  <2> QED BY <1>1, <1>2, <2>1 DEF Prune
<1>3. P \subseteq R
  BY DEF Prune
<1>4. ASSUME Forbidden(c, R) PROVE Forbidden(c, P)
  <2>1. PICK lo \in R, hi \in R :
          /\ lo.at <= hi.at /\ lo.at > MinusPer(hi.at)
          /\ Cardinality({r \in R : lo.at <= r.at /\ r.at <= hi.at}) >= MaxRetries
          /\ MinusPer(hi.at) < c /\ c < FirstSlotAfterWindow(lo.at)
    BY <1>4 DEF Forbidden
  <2> HIDE DEF P
  <2> QED BY <1>2, <2>1 DEF Forbidden
<1>5. ASSUME Forbidden(c, P) PROVE Forbidden(c, R)
  <2>1. PICK lo \in P, hi \in P :
          /\ lo.at <= hi.at /\ lo.at > MinusPer(hi.at)
          /\ Cardinality({r \in P : lo.at <= r.at /\ r.at <= hi.at}) >= MaxRetries
          /\ MinusPer(hi.at) < c /\ c < FirstSlotAfterWindow(lo.at)
    BY <1>5 DEF Forbidden
  <2> HIDE DEF P
  <2> QED BY <1>2, <1>3, <2>1 DEF Forbidden
<1> QED BY <1>4, <1>5

\* snapshot().available is the number of retries that can be granted at once, on
\* every schedule the budget allows, save for one in which rounding makes
\* _is_legal_slot misjudge a later reservation.
THEOREM SnapshotIsWhatFits ==
  ASSUME RoundsToNearest(Int)
  PROVE  Spec => []SnapshotPromise
<1> DEFINE R == Prune(Reservations, start)
           n == AvailableAt(start, R)
<1>1. ASSUME ScanInv, WithinBudget(Reservations), pc = "returned", ~Misjudged(R)
      PROVE  /\ n > 0 <=> candidate = start
             /\ \A i \in 0..(n - 1) : FirstLegalSlot(start, WithCopies(R, start, i)) = start
             /\ FirstLegalSlot(start, WithCopies(R, start, n)) > start
  <2>1. TypeOK /\ start \in Int /\ Timed(Reservations)
    BY <1>1, ReservationsTimed DEF ScanInv, TypeOK
  <2>2. R \in SUBSET Reservations
    BY DEF Prune
  <2>3. Timed(R) /\ WithinBudget(R)
    <3> HIDE DEF R
    <3> QED BY <1>1, <2>1, <2>2, SubsetKeepsBudget
  <2>4. Numbered(R)
    <3>1. \A r \in Reservations : r.token \in 1..Len(times) /\ Len(times) \in Nat
      BY <2>1, ReservationsTimed DEF TypeOK
    <3> HIDE DEF R
    <3> QED BY <2>2, <3>1 DEF Numbered
  <2>5. Judged(start, R)
    <3> HIDE DEF R
    <3> QED BY <1>1 DEF Judged, Misjudged
  <2>6. /\ n \in 0..MaxRetries
        /\ \A i \in 0..(n - 1) : ~Forbidden(start, WithCopies(R, start, i))
        /\ Forbidden(start, WithCopies(R, start, n))
    <3> HIDE DEF R
    <3> QED BY <2>1, <2>3, <2>4, <2>5, AvailableIsWhatFits
  <2>7. candidate = start <=> ~Forbidden(start, R)
    <3>1. candidate = FirstLegalSlot(start, Reservations)
      BY <1>1, ReturnIsFirst DEF ReturnsFirstLegalSlot
    <3> QED BY <2>1, <3>1, FreeSlotIsFirst, PrunedForbidsNothing
  <2> HIDE DEF n, R
  <2>8. WithCopies(R, start, 0) = R
    BY <2>4, CopiesGrow
  <2>9. n > 0 <=> candidate = start
    <3>1. CASE n = 0
      BY <2>6, <2>7, <2>8, <3>1
    <3>2. CASE n > 0
      BY <2>6, <2>7, <2>8, <3>2, BudgetAssumption
    <3> QED BY <2>6, <3>1, <3>2, BudgetAssumption
  <2>10. \A i \in 0..n : Timed(WithCopies(R, start, i))
    <3>1. \A i \in 0..n : i \in Nat
      BY <2>6, BudgetAssumption
    <3> QED BY <2>1, <2>3, <3>1, CopiesTimed
  <2>11. n \in 0..n /\ 0..(n - 1) \subseteq 0..n
    BY <2>6, BudgetAssumption
  <2>12. \A i \in 0..(n - 1) : FirstLegalSlot(start, WithCopies(R, start, i)) = start
    BY <2>1, <2>6, <2>10, <2>11, FreeSlotIsFirst
  <2>13. FirstLegalSlot(start, WithCopies(R, start, n)) > start
    BY <2>1, <2>6, <2>10, <2>11, FreeSlotIsFirst
  <2> QED BY <2>9, <2>12, <2>13
<1>2. ScanInv /\ WithinBudget(Reservations) => SnapshotPromise
  BY <1>1 DEF SnapshotPromise
<1> QED BY <1>2, ScanInvariant, BudgetKept, PTL

=============================================================================
