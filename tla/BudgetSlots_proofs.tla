--------------------------- MODULE BudgetSlots_proofs ---------------------------
(***************************************************************************)
(* Facts about the slot arithmetic, for every MaxRetries and every clock   *)
(* that rounds to nearest: granting the first legal slot keeps a key       *)
(* within its budget, and any earlier time would not.                      *)
(***************************************************************************)
EXTENDS BudgetSlots, FiniteSetTheorems, TLAPS

\* A finite non-empty set of integers has a greatest element.
LEMMA FiniteMax ==
  ASSUME NEW S, IsFiniteSet(S), S # {}, S \subseteq Int
  PROVE  \E m \in S : \A x \in S : x <= m
<1> DEFINE HasMax(X) == \E m \in X : \A x \in X : x <= m
           Bad == {X \in SUBSET S : X # {} /\ ~HasMax(X)}
<1>1. IsWellFoundedOn(StrictSubsetOrdering(S), FiniteSubsetsOf(S))
  BY FS_StrictSubsetOrderingWellFounded
<1>2. Bad \subseteq FiniteSubsetsOf(S)
  BY FS_FiniteSubsetsOfFinite
<1>3. SUFFICES ASSUME Bad # {} PROVE FALSE
  OBVIOUS
<1>4. PICK X \in Bad : \A Y \in Bad : ~(<<Y, X>> \in StrictSubsetOrdering(S))
  BY <1>1, <1>2, <1>3, WFMin
<1>5. PICK a \in X : TRUE
  OBVIOUS
<1>6. CASE X = {a}
  BY <1>6
<1>7. CASE X # {a}
  <2>1. X \ {a} # {} /\ X \ {a} \subseteq X /\ X \ {a} # X
    BY <1>5, <1>7
  <2>2. X \ {a} \notin Bad
    BY <1>4, <2>1 DEF StrictSubsetOrdering
  <2>3. PICK m \in X \ {a} : \A x \in X \ {a} : x <= m
    BY <2>1, <2>2
  <2>4. a \in Int /\ m \in Int /\ \A x \in X : x \in Int
    OBVIOUS
  <2>5. CASE a <= m
    BY <2>3, <2>4, <2>5
  <2>6. CASE ~(a <= m)
    <3>1. \A x \in X : x <= a
      BY <2>3, <2>4, <2>6
    <3> QED BY <3>1, <1>5
  <2> QED BY <2>5, <2>6
<1> QED BY <1>6, <1>7

\* ... and a least one.
LEMMA FiniteMin ==
  ASSUME NEW S, IsFiniteSet(S), S # {}, S \subseteq Int
  PROVE  \E m \in S : \A x \in S : m <= x
<1> DEFINE N == {0 - x : x \in S}
           f == [x \in S |-> 0 - x]
<1>1. f \in Surjection(S, N)
  BY DEF Surjection
<1>2. IsFiniteSet(N)
  BY <1>1, FS_Surjection
<1>3. N # {} /\ N \subseteq Int
  <2>1. \A x \in S : 0 - x \in Int
    OBVIOUS
  <2>2. PICK x \in S : TRUE
    OBVIOUS
  <2>3. 0 - x \in N
    BY <2>2
  <2> QED BY <2>1, <2>3
<1>4. PICK n \in N : \A y \in N : y <= n
  <2> HIDE DEF N
  <2> QED BY <1>2, <1>3, FiniteMax
<1>5. PICK x \in S : n = 0 - x
  OBVIOUS
<1>6. \A y \in S : 0 - y <= 0 - x
  BY <1>4, <1>5
<1>7. \A y \in S : x <= y
  BY <1>6
<1> QED BY <1>7

\* Min returns the least element of a finite non-empty set of integers.
LEMMA MinIsLeast ==
  ASSUME NEW S, IsFiniteSet(S), S # {}, S \subseteq Int
  PROVE  Min(S) \in S /\ \A x \in S : Min(S) <= x
BY FiniteMin DEF Min

\* Exact arithmetic, of an integral period of at least one, rounds to nearest.
LEMMA ExactRoundsToNearest ==
  ASSUME NEW per \in Nat \ {0},
         \A t \in Int : MinusPer(t) = t - per /\ PlusPer(t) = t + per
  PROVE  RoundsToNearest(Int)
BY DEF RoundsToNearest

\* The windows of later times begin later.
LEMMA WindowsInOrder ==
  ASSUME RoundsToNearest(Int)
  PROVE  /\ \A t \in Int : MinusPer(t) \in Int /\ MinusPer(t) < t
         /\ \A t, u \in Int : t <= u => MinusPer(t) <= MinusPer(u)
BY DEF RoundsToNearest

\* The first slot after the window of f is the least time whose window has lost
\* f, wherever f + per was rounded to.
LEMMA FirstSlotIsLeast ==
  ASSUME RoundsToNearest(Int), NEW f \in Int
  PROVE  /\ FirstSlotAfterWindow(f) \in Int
         /\ FirstSlotAfterWindow(f) > f
         /\ \A m \in Int : m < FirstSlotAfterWindow(f) <=> MinusPer(m) < f
<1> DEFINE c == PlusPer(f)
           F == FirstSlotAfterWindow(f)
<1>1. c \in Int /\ MinusPer(c + 1) >= f /\ MinusPer(c - 2) < f
  BY DEF RoundsToNearest
<1>a. c - 2 \in Int /\ c - 1 \in Int /\ c + 1 \in Int
  BY <1>1
<1>b. /\ \A t \in Int : MinusPer(t) \in Int /\ MinusPer(t) < t
      /\ \A t, u \in Int : t <= u => MinusPer(t) <= MinusPer(u)
  BY WindowsInOrder
<1>c. MinusPer(c) \in Int /\ MinusPer(c - 1) \in Int
  BY <1>1, <1>a, <1>b
<1>2. F \in Int /\ F - 1 \in Int /\ MinusPer(F) >= f /\ MinusPer(F - 1) < f
  <2>1. CASE MinusPer(c - 1) >= f
    <3>1. F = c - 1
      BY <1>c, <2>1 DEF FirstSlotAfterWindow
    <3>2. F - 1 = c - 2
      BY <1>1, <3>1
    <3> QED BY <1>1, <1>a, <2>1, <3>1, <3>2
  <2>2. CASE MinusPer(c - 1) < f /\ MinusPer(c) >= f
    <3>1. F = c
      BY <1>c, <2>2 DEF FirstSlotAfterWindow
    <3> QED BY <1>1, <1>a, <2>2, <3>1
  <2>3. CASE MinusPer(c - 1) < f /\ MinusPer(c) < f
    <3>1. F = c + 1
      BY <1>c, <2>3 DEF FirstSlotAfterWindow
    <3>2. F - 1 = c
      BY <1>1, <3>1
    <3> QED BY <1>1, <1>a, <2>3, <3>1, <3>2
  <2> QED BY <1>c, <2>1, <2>2, <2>3
<1> HIDE DEF c, F
<1>3. ASSUME NEW m \in Int PROVE m < F <=> MinusPer(m) < f
  <2>1. CASE m < F
    <3>1. m <= F - 1
      BY <1>2, <2>1
    <3> QED BY <1>b, <1>2, <2>1, <3>1
  <2>2. CASE ~(m < F)
    BY <1>b, <1>2, <2>2
  <2> QED BY <2>1, <2>2
<1>4. F > f
  BY <1>b, <1>2, <1>3
<1> QED BY <1>2, <1>3, <1>4 DEF F

\* Hypothesis of the lemmas below: a finite set of timed reservations.
Timed(R) == IsFiniteSet(R) /\ \A r \in R : r.at \in Int

LEMMA TimesFinite ==
  ASSUME NEW R, Timed(R)
  PROVE  IsFiniteSet(Times(R)) /\ Times(R) \subseteq Int
<1> DEFINE f == [r \in R |-> r.at]
<1>1. f \in Surjection(R, Times(R))
  BY DEF Surjection, Times
<1>2. IsFiniteSet(Times(R))
  BY <1>1, FS_Surjection DEF Timed
<1> QED BY <1>2 DEF Timed, Times

LEMMA CandidatesFinite ==
  ASSUME RoundsToNearest(Int), NEW R, Timed(R), NEW c \in Int
  PROVE  /\ IsFiniteSet(Candidates(c, R))
         /\ Candidates(c, R) \subseteq Int
         /\ c \in Candidates(c, R)
         /\ \A r \in R : FirstSlotAfterWindow(r.at) >= c => FirstSlotAfterWindow(r.at) \in Candidates(c, R)
<1> DEFINE E == {FirstSlotAfterWindow(r.at) : r \in R}
           f == [r \in R |-> FirstSlotAfterWindow(r.at)]
<1>1. f \in Surjection(R, E)
  BY DEF Surjection
<1>2. IsFiniteSet(E)
  BY <1>1, FS_Surjection DEF Timed
<1>3. IsFiniteSet(E \cup {c})
  BY <1>2, FS_AddElement
<1>4. E \subseteq Int
  BY FirstSlotIsLeast DEF Timed
<1>5. Candidates(c, R) \in SUBSET (E \cup {c})
  BY DEF Candidates
<1>6. IsFiniteSet(Candidates(c, R))
  BY <1>3, <1>5, FS_Subset
<1>7. c \in Candidates(c, R)
  BY DEF Candidates
<1>8. \A r \in R : FirstSlotAfterWindow(r.at) >= c => FirstSlotAfterWindow(r.at) \in Candidates(c, R)
  BY DEF Candidates
<1> QED BY <1>4, <1>5, <1>6, <1>7, <1>8

\* The last candidate is free: every window of R has expired there, so the
\* scan always finds a slot.
LEMMA LegalCandidateExists ==
  ASSUME RoundsToNearest(Int), NEW R, Timed(R), NEW c \in Int
  PROVE  LegalCandidates(c, R) # {}
<1> USE BudgetAssumption
<1>1. PICK m \in Candidates(c, R) : \A x \in Candidates(c, R) : x <= m
  BY CandidatesFinite, FiniteMax
<1>2. m \in Int /\ m >= c
  BY <1>1, CandidatesFinite DEF Candidates
<1>3. ASSUME NEW lo \in R, m < FirstSlotAfterWindow(lo.at) PROVE FALSE
  <2>1. FirstSlotAfterWindow(lo.at) \in Int
    BY FirstSlotIsLeast DEF Timed
  <2>2. FirstSlotAfterWindow(lo.at) >= c
    BY <2>1, <1>2, <1>3
  <2>3. FirstSlotAfterWindow(lo.at) <= m
    BY <2>2, <1>1, CandidatesFinite
  <2> QED BY <2>1, <2>3, <1>2, <1>3
<1>4. ~Forbidden(m, R)
  BY <1>3 DEF Forbidden
<1> QED BY <1>1, <1>4 DEF LegalCandidates

\* What _first_legal_slot returns: a time no earlier than asked, not forbidden.
LEMMA FirstLegalSlotIsLegal ==
  ASSUME RoundsToNearest(Int), NEW R, Timed(R), NEW c \in Int
  PROVE  /\ FirstLegalSlot(c, R) \in Int
         /\ FirstLegalSlot(c, R) >= c
         /\ ~Forbidden(FirstLegalSlot(c, R), R)
         /\ \A m \in LegalCandidates(c, R) : FirstLegalSlot(c, R) <= m
<1>1. LegalCandidates(c, R) \in SUBSET Candidates(c, R)
  BY DEF LegalCandidates
<1>2. IsFiniteSet(LegalCandidates(c, R)) /\ LegalCandidates(c, R) \subseteq Int
  BY <1>1, CandidatesFinite, FS_Subset
<1>3. FirstLegalSlot(c, R) \in LegalCandidates(c, R)
      /\ \A m \in LegalCandidates(c, R) : FirstLegalSlot(c, R) <= m
  BY <1>2, LegalCandidateExists, MinIsLeast DEF FirstLegalSlot
<1> QED BY <1>2, <1>3 DEF LegalCandidates, Candidates

\* Every earlier time is forbidden, not only the earlier candidates.
LEMMA FirstLegalSlotIsEarliest ==
  ASSUME RoundsToNearest(Int), NEW R, Timed(R), NEW c \in Int,
         NEW m \in Int, c <= m, m < FirstLegalSlot(c, R)
  PROVE  Forbidden(m, R)
<1> USE BudgetAssumption
<1> DEFINE B == {x \in Candidates(c, R) : x <= m}
<1>1. IsFiniteSet(B) /\ B \subseteq Int /\ c \in B
  BY CandidatesFinite, FS_Subset
<1>2. PICK n \in B : \A x \in B : x <= n
  BY <1>1, FiniteMax
<1>3. n \in Int /\ n <= m /\ n \in Candidates(c, R) /\ c <= n
  BY <1>1, <1>2
<1>4. Forbidden(n, R)
  <2>1. n \notin LegalCandidates(c, R)
    BY <1>3, FirstLegalSlotIsLegal
  <2> QED BY <2>1, <1>3 DEF LegalCandidates
<1>5. PICK lo \in R, hi \in R :
        /\ lo.at <= hi.at
        /\ lo.at > MinusPer(hi.at)
        /\ Cardinality({r \in R : lo.at <= r.at /\ r.at <= hi.at}) >= MaxRetries
        /\ MinusPer(hi.at) < n /\ n < FirstSlotAfterWindow(lo.at)
  BY <1>4 DEF Forbidden
<1>6. lo.at \in Int /\ hi.at \in Int
  BY DEF Timed
<1>7. m < FirstSlotAfterWindow(lo.at)
  <2>1. FirstSlotAfterWindow(lo.at) \in Int
    BY <1>6, FirstSlotIsLeast
  <2>2. FirstSlotAfterWindow(lo.at) \in Candidates(c, R)
    BY <1>3, <1>5, <2>1, CandidatesFinite
  <2>3. FirstSlotAfterWindow(lo.at) \notin B
    BY <1>2, <1>3, <1>5, <2>1
  <2> QED BY <2>1, <2>2, <2>3
<1>8. MinusPer(hi.at) < m
  BY <1>3, <1>5, <1>6, WindowsInOrder
<1> QED BY <1>5, <1>7, <1>8 DEF Forbidden

\* Granting a slot that is not forbidden keeps the key within its budget.
LEMMA LegalSlotKeepsBudget ==
  ASSUME RoundsToNearest(Int), NEW R, Timed(R), WithinBudget(R),
         NEW x, x.at \in Int, ~Forbidden(x.at, R)
  PROVE  WithinBudget(R \cup {x})
<1> USE BudgetAssumption
<1> DEFINE Q == R \cup {x}
<1> SUFFICES ASSUME NEW e \in Times(Q)
             PROVE  Cardinality(Window(Q, e)) <= MaxRetries
  BY DEF WithinBudget
<1>1. e \in Int /\ \A r \in R : r.at \in Int
  BY DEF Times, Timed
<1>2. IsFiniteSet(Window(R, e)) /\ Cardinality(Window(R, e)) \in Nat
  BY FS_Subset, FS_CardinalityType DEF Window, Timed
<1>3. CASE ~(MinusPer(e) < x.at /\ x.at <= e)
  <2>1. Window(Q, e) = Window(R, e)
    BY <1>3 DEF Window
  <2>2. e \in Times(R)
    BY <1>1, <1>3, WindowsInOrder DEF Times
  <2> QED BY <2>1, <2>2 DEF WithinBudget
<1>4. CASE MinusPer(e) < x.at /\ x.at <= e
  <2>1. Window(Q, e) = Window(R, e) \cup {x}
    BY <1>4 DEF Window
  <2> HIDE DEF Q
  <2>2. /\ Cardinality(Window(Q, e)) \in Nat
        /\ Cardinality(Window(Q, e)) <= Cardinality(Window(R, e)) + 1
    <3> DEFINE W == Window(R, e)
    <3>1. Cardinality(W \cup {x}) = IF x \in W THEN Cardinality(W)
                                    ELSE Cardinality(W) + 1
      BY <1>2, FS_AddElement
    <3> HIDE DEF W
    <3>2. Cardinality(W) \in Nat
      BY <1>2 DEF W
    <3>3. Cardinality(W \cup {x}) \in Nat /\ Cardinality(W \cup {x}) <= Cardinality(W) + 1
      BY <3>1, <3>2
    <3> QED BY <2>1, <3>3 DEF W
  <2>3. ASSUME Cardinality(Window(R, e)) >= MaxRetries PROVE FALSE
    <3> DEFINE W == Window(R, e)
    <3>1. W # {}
      BY <1>2, <2>3, FS_EmptySet
    <3>2. Timed(W)
      BY <1>1, <1>2 DEF Timed, Window
    <3>3. Times(W) # {}
      BY <3>1 DEF Times
    <3>4. PICK a \in Times(W) : \A t \in Times(W) : a <= t
      BY <3>2, <3>3, TimesFinite, FiniteMin
    <3>5. PICK b \in Times(W) : \A t \in Times(W) : t <= b
      BY <3>2, <3>3, TimesFinite, FiniteMax
    <3>6. PICK lo \in W, hi \in W : lo.at = a /\ hi.at = b
      BY <3>4, <3>5 DEF Times
    <3>7. /\ lo \in R /\ hi \in R /\ lo.at \in Int /\ hi.at \in Int
          /\ MinusPer(e) < lo.at /\ hi.at <= e /\ lo.at <= hi.at
      BY <1>1, <3>4, <3>5, <3>6 DEF Window, Times
    <3> DEFINE Block == {r \in R : lo.at <= r.at /\ r.at <= hi.at}
    <3>8. W \in SUBSET Block
      BY <3>4, <3>5, <3>6 DEF Window, Times
    <3>9. Cardinality(Block) >= MaxRetries
      <4>1. IsFiniteSet(Block) /\ Cardinality(Block) \in Nat
        BY FS_Subset, FS_CardinalityType DEF Timed
      <4>2. Cardinality(W) <= Cardinality(Block)
        BY <3>8, <4>1, FS_Subset
      <4> QED BY <1>2, <2>3, <4>1, <4>2
    <3>10. MinusPer(hi.at) <= MinusPer(e) /\ MinusPer(x.at) <= MinusPer(e)
           /\ MinusPer(e) \in Int /\ MinusPer(hi.at) \in Int /\ MinusPer(x.at) \in Int
      BY <1>1, <1>4, <3>7, WindowsInOrder
    <3>11. lo.at > MinusPer(hi.at) /\ MinusPer(hi.at) < x.at /\ MinusPer(x.at) < lo.at
      BY <1>1, <1>4, <3>7, <3>10
    <3>12. x.at < FirstSlotAfterWindow(lo.at)
      BY <3>7, <3>11, FirstSlotIsLeast
    <3> QED BY <3>7, <3>9, <3>11, <3>12 DEF Forbidden
  <2> QED BY <1>2, <2>2, <2>3
<1> QED BY <1>3, <1>4

\* A forbidden time is rightly refused: granting it would overfill a window.
LEMMA ForbiddenOverfills ==
  ASSUME RoundsToNearest(Int), NEW R, Timed(R), NEW x, x \notin R, x.at \in Int,
         Forbidden(x.at, R)
  PROVE  ~WithinBudget(R \cup {x})
<1> USE BudgetAssumption
<1> DEFINE Q == R \cup {x}
<1>1. PICK lo \in R, hi \in R :
        /\ lo.at <= hi.at
        /\ lo.at > MinusPer(hi.at)
        /\ Cardinality({r \in R : lo.at <= r.at /\ r.at <= hi.at}) >= MaxRetries
        /\ MinusPer(hi.at) < x.at /\ x.at < FirstSlotAfterWindow(lo.at)
  BY DEF Forbidden
<1> DEFINE Block == {r \in R : lo.at <= r.at /\ r.at <= hi.at}
           e == IF x.at >= hi.at THEN x.at ELSE hi.at
<1>2. lo.at \in Int /\ hi.at \in Int /\ \A r \in R : r.at \in Int
  BY DEF Timed
<1>3. e \in Times(Q)
  BY DEF Times
<1>4. Block \cup {x} \in SUBSET Window(Q, e)
  <2>1. MinusPer(x.at) < lo.at
    BY <1>1, <1>2, FirstSlotIsLeast
  <2>2. MinusPer(x.at) < x.at /\ MinusPer(x.at) \in Int /\ MinusPer(hi.at) \in Int
    BY <1>2, WindowsInOrder
  <2> QED BY <1>1, <1>2, <2>1, <2>2 DEF Window
<1>5. IsFiniteSet(Block) /\ Cardinality(Block) \in Nat
  BY FS_Subset, FS_CardinalityType DEF Timed
<1>6. Cardinality(Block \cup {x}) = Cardinality(Block) + 1
  BY <1>5, FS_AddElement
<1>7. IsFiniteSet(Window(Q, e)) /\ Cardinality(Window(Q, e)) \in Nat
  BY FS_AddElement, FS_Subset, FS_CardinalityType DEF Timed, Window
<1>8. Cardinality(Block \cup {x}) <= Cardinality(Window(Q, e))
  BY <1>4, <1>7, FS_Subset
<1>9. Cardinality(Window(Q, e)) > MaxRetries
  BY <1>1, <1>5, <1>6, <1>7, <1>8
<1> QED BY <1>3, <1>7, <1>9 DEF WithinBudget

\* Forgetting reservations cannot break the budget.
LEMMA SubsetKeepsBudget ==
  ASSUME NEW R, Timed(R), WithinBudget(R), NEW Q \in SUBSET R
  PROVE  Timed(Q) /\ WithinBudget(Q)
<1>1. Timed(Q)
  BY FS_Subset DEF Timed
<1> SUFFICES ASSUME NEW e \in Times(Q)
             PROVE  Cardinality(Window(Q, e)) <= MaxRetries
  BY <1>1 DEF WithinBudget
<1>2. e \in Times(R)
  BY DEF Times
<1>3. Window(Q, e) \in SUBSET Window(R, e)
  BY DEF Window
<1>4. IsFiniteSet(Window(R, e)) /\ Cardinality(Window(R, e)) \in Nat
  BY FS_Subset, FS_CardinalityType DEF Window, Timed
<1>5. Cardinality(Window(Q, e)) \in Nat
  BY <1>3, <1>4, FS_Subset, FS_CardinalityType
<1>6. Cardinality(Window(Q, e)) <= Cardinality(Window(R, e))
  BY <1>3, <1>4, FS_Subset
<1> QED BY BudgetAssumption, <1>2, <1>4, <1>5, <1>6 DEF WithinBudget

-----------------------------------------------------------------------------
\* The snapshot: how often a slot at c can be granted.

\* Rounding misjudges no reservation of R: the later ones that precede c + per are
\* those whose window, which begins at the rounded difference, contains c.
Judged(c, R) == \A t \in Times(R) : t > c => (t < PlusPer(c) <=> MinusPer(t) < c)

\* The tokens of a key are positive.
Numbered(R) == \A r \in R : r.token \in Nat \ {0}

\* Without rounding every reservation is judged rightly.
LEMMA ExactJudges ==
  ASSUME NEW per \in Nat \ {0},
         \A t \in Int : MinusPer(t) = t - per /\ PlusPer(t) = t + per,
         NEW R, Timed(R), NEW c \in Int
  PROVE  Judged(c, R)
<1>1. Times(R) \subseteq Int
  BY TimesFinite
<1> QED BY <1>1 DEF Judged

LEMMA WindowFinite ==
  ASSUME NEW R, Timed(R), NEW e
  PROVE  IsFiniteSet(Window(R, e)) /\ Cardinality(Window(R, e)) \in Nat
BY FS_Subset, FS_CardinalityType DEF Window, Timed

\* _is_legal_slot is right: a slot it accepts leaves every window within the budget,
\* and one it refuses does not.
LEMMA LegalMeansRoom ==
  ASSUME RoundsToNearest(Int), NEW R, Timed(R), WithinBudget(R), NEW c \in Int, Judged(c, R),
         NEW x, x \notin R, x.at = c
  PROVE  IsLegalSlot(c, R) <=> WithinBudget(R \cup {x})
<1> USE BudgetAssumption
<1> DEFINE Q == R \cup {x}
<1>1. Times(Q) = Times(R) \cup {c} /\ Times(R) \subseteq Int
  BY TimesFinite DEF Times
<1>2. ASSUME NEW e \in Int, MinusPer(e) < c, c <= e
      PROVE  Cardinality(Window(Q, e)) = Cardinality(Window(R, e)) + 1
  <2>1. Window(Q, e) = Window(R, e) \cup {x}
    BY <1>2 DEF Window
  <2>2. x \notin Window(R, e)
    BY DEF Window
  <2> QED BY <2>1, <2>2, WindowFinite, FS_AddElement
<1>3. ASSUME NEW e \in Int, ~(MinusPer(e) < c /\ c <= e)
      PROVE  Window(Q, e) = Window(R, e)
  BY <1>3 DEF Window
<1>4. MinusPer(c) < c
  BY WindowsInOrder
<1>5. \A e \in Int : Cardinality(Window(R, e)) \in Nat
  BY WindowFinite
<1> HIDE DEF Q
<1>6. ASSUME IsLegalSlot(c, R), NEW e \in Times(Q)
      PROVE  Cardinality(Window(Q, e)) <= MaxRetries
  <2>1. e \in Int
    BY <1>1
  <2>2. CASE MinusPer(e) < c /\ c <= e
    <3>1. e \in {c} \cup {t \in Times(R) : c < t /\ t < PlusPer(c)}
      BY <1>1, <2>1, <2>2 DEF Judged
    <3>2. Cardinality(Window(R, e)) < MaxRetries
      BY <1>6, <3>1 DEF IsLegalSlot
    <3> QED BY <1>2, <1>5, <2>1, <2>2, <3>2
  <2>3. CASE ~(MinusPer(e) < c /\ c <= e)
    <3>1. e \in Times(R)
      BY <1>1, <1>4, <2>3
    <3> QED BY <1>3, <2>1, <2>3, <3>1 DEF WithinBudget
  <2> QED BY <2>2, <2>3
<1>7. ASSUME WithinBudget(Q),
             NEW e \in {c} \cup {t \in Times(R) : c < t /\ t < PlusPer(c)}
      PROVE  Cardinality(Window(R, e)) < MaxRetries
  <2>1. e \in Int /\ e \in Times(Q) /\ MinusPer(e) < c /\ c <= e
    BY <1>1, <1>4 DEF Judged
  <2>2. Cardinality(Window(Q, e)) <= MaxRetries
    BY <1>7, <2>1 DEF WithinBudget
  <2> QED BY <1>2, <1>5, <2>1, <2>2
<1> QED BY <1>6, <1>7 DEF IsLegalSlot, WithinBudget, Q

LEMMA CopiesGrow ==
  ASSUME NEW R, Numbered(R), NEW c, NEW i \in Nat
  PROVE  LET x == [token |-> 0 - (i + 1), at |-> c]
         IN /\ WithCopies(R, c, 0) = R
            /\ WithCopies(R, c, i + 1) = WithCopies(R, c, i) \cup {x}
            /\ x \notin WithCopies(R, c, i) /\ x.at = c
<1> DEFINE f(n) == [token |-> 0 - n, at |-> c]
           C(n) == {f(m) : m \in 1..n}
           x == f(i + 1)
<1>1. \A n \in Nat : WithCopies(R, c, n) = R \cup C(n)
  BY DEF WithCopies
<1>2. 1..0 = {} /\ 1..(i + 1) = (1..i) \cup {i + 1}
  OBVIOUS
<1>3. C(0) = {} /\ C(i + 1) = C(i) \cup {x}
  BY <1>2
<1>4. x \notin C(i)
  <2> SUFFICES ASSUME NEW m \in 1..i, x = f(m) PROVE FALSE
    OBVIOUS
  <2>1. x.token = f(m).token
    OBVIOUS
  <2>2. 0 - (i + 1) = 0 - m
    BY <2>1
  <2> QED BY <2>2
<1>5. x \notin R
  <2>1. x.token = 0 - (i + 1)
    OBVIOUS
  <2>2. x.token \notin Nat
    BY <2>1
  <2> QED BY <2>2 DEF Numbered
<1>6. WithCopies(R, c, 0) = R /\ WithCopies(R, c, i + 1) = WithCopies(R, c, i) \cup {x}
  <2>1. /\ WithCopies(R, c, 0) = R \cup C(0)
        /\ WithCopies(R, c, i) = R \cup C(i)
        /\ WithCopies(R, c, i + 1) = R \cup C(i + 1)
    BY DEF WithCopies
  <2> HIDE DEF C, x
  <2> QED BY <2>1, <1>3
<1>7. x \notin WithCopies(R, c, i) /\ x.at = c
  BY <1>1, <1>4, <1>5
<1> QED BY <1>6, <1>7

\* Copies of a slot at c are timed, and rounding judges them no worse than R.
LEMMA CopiesTimed ==
  ASSUME NEW R, Timed(R), NEW c \in Int, NEW i \in Nat
  PROVE  /\ Timed(WithCopies(R, c, i))
         /\ Judged(c, R) => Judged(c, WithCopies(R, c, i))
         /\ Cardinality({[token |-> 0 - n, at |-> c] : n \in 1..i}) = i
<1> DEFINE f == [n \in 1..i |-> [token |-> 0 - n, at |-> c]]
           C == {[token |-> 0 - n, at |-> c] : n \in 1..i}
<1>1. f \in Surjection(1..i, C) /\ f \in Injection(1..i, C)
  BY DEF Surjection, Injection, IsInjective
<1>2. IsFiniteSet(1..i) /\ Cardinality(1..i) = i
  <2>1. 1 \in Int /\ i \in Int
    OBVIOUS
  <2>2. IsFiniteSet(1..i) /\ Cardinality(1..i) = IF 1 > i THEN 0 ELSE i - 1 + 1
    BY <2>1, FS_Interval
  <2> QED BY <2>2
<1>3. IsFiniteSet(C) /\ Cardinality(C) = i
  BY <1>1, <1>2, FS_Surjection
<1>4. WithCopies(R, c, i) = R \cup C
  BY DEF WithCopies
<1>5. \A r \in C : r.at = c
  OBVIOUS
<1> HIDE DEF C
<1>6. Timed(WithCopies(R, c, i))
  BY <1>3, <1>4, <1>5, FS_Union DEF Timed
<1>7. \A t \in Times(WithCopies(R, c, i)) : t \in Times(R) \/ t = c
  BY <1>4, <1>5 DEF Times
<1>8. Judged(c, R) => Judged(c, WithCopies(R, c, i))
  BY <1>7 DEF Judged
<1> QED BY <1>3, <1>6, <1>8 DEF C

\* MaxRetries copies fill the window that ends at c.
LEMMA CopiesFillWindow ==
  ASSUME RoundsToNearest(Int), NEW R, Timed(R), NEW c \in Int
  PROVE  ~IsLegalSlot(c, WithCopies(R, c, MaxRetries))
<1> USE BudgetAssumption
<1> DEFINE Q == WithCopies(R, c, MaxRetries)
           C == {[token |-> 0 - n, at |-> c] : n \in 1..MaxRetries}
<1>1. C \in SUBSET Window(Q, c)
  <2> SUFFICES ASSUME NEW x \in C PROVE x \in Window(Q, c)
    OBVIOUS
  <2>1. x \in Q /\ x.at = c
    BY DEF WithCopies
  <2>2. MinusPer(c) < c /\ c <= c
    BY WindowsInOrder
  <2> QED BY <2>1, <2>2 DEF Window
<1>2. Timed(Q) /\ Cardinality(C) = MaxRetries
  BY CopiesTimed
<1>3. IsFiniteSet(Window(Q, c)) /\ Cardinality(Window(Q, c)) \in Nat
  BY <1>2, WindowFinite
<1> HIDE DEF C, Q
<1>4. Cardinality(C) <= Cardinality(Window(Q, c))
  BY <1>1, <1>3, FS_Subset
<1>5. ~(Cardinality(Window(Q, c)) < MaxRetries)
  BY <1>2, <1>3, <1>4
<1> QED BY <1>5 DEF IsLegalSlot, Q

\* RetryBudget.snapshot tells how many retries can be granted at once: as many fit
\* into the windows as it says, and not one more.  (The two algorithms of budget.py
\* that decide it, _available_at and _first_legal_slot, share no code.)
THEOREM AvailableIsWhatFits ==
  ASSUME RoundsToNearest(Int), NEW R, Timed(R), WithinBudget(R), Numbered(R),
         NEW c \in Int, Judged(c, R)
  PROVE  LET n == AvailableAt(c, R)
         IN /\ n \in 0..MaxRetries
            /\ \A i \in 0..(n - 1) : ~Forbidden(c, WithCopies(R, c, i))
            /\ Forbidden(c, WithCopies(R, c, n))
            /\ \A i \in 0..n : WithinBudget(WithCopies(R, c, i))
<1> USE BudgetAssumption
<1> DEFINE W(i) == WithCopies(R, c, i)
           Illegal == {i \in 0..MaxRetries : ~IsLegalSlot(c, W(i))}
           n == AvailableAt(c, R)
<1>1. n \in Illegal /\ \A i \in Illegal : n <= i
  <2>1. MaxRetries \in Illegal
    BY CopiesFillWindow
  <2>2. Illegal \subseteq 0..MaxRetries /\ IsFiniteSet(0..MaxRetries)
    BY FS_Interval
  <2>3. IsFiniteSet(Illegal) /\ Illegal # {} /\ Illegal \subseteq Int
    BY <2>1, <2>2, FS_Subset
  <2>4. n = Min(Illegal)
    BY DEF AvailableAt
  <2> HIDE DEF Illegal, n
  <2> QED BY <2>3, <2>4, MinIsLeast
<1>2. n \in 0..MaxRetries /\ ~IsLegalSlot(c, W(n)) /\ \A i \in 0..(n - 1) : IsLegalSlot(c, W(i))
  BY <1>1
<1> HIDE DEF n, Illegal
<1>3. \A i \in Nat : /\ Timed(W(i)) /\ Judged(c, W(i))
                     /\ \E x : /\ W(i + 1) = W(i) \cup {x} /\ x \notin W(i) /\ x.at = c
  BY CopiesTimed, CopiesGrow
<1>4. \A i \in 0..n : WithinBudget(W(i))
  <2> DEFINE Bad == {i \in 0..n : ~WithinBudget(W(i))}
  <2> SUFFICES ASSUME Bad # {} PROVE FALSE
    OBVIOUS
  <2>1. IsFiniteSet(Bad) /\ Bad \subseteq Int
    <3>1. 0 \in Int /\ n \in Int
      BY <1>2
    <3>2. IsFiniteSet(0..n)
      BY <3>1, FS_Interval
    <3>3. Bad \in SUBSET (0..n)
      OBVIOUS
    <3>4. IsFiniteSet(Bad)
      BY <3>2, <3>3, FS_Subset
    <3> QED BY <3>4
  <2>2. PICK m \in Bad : \A i \in Bad : m <= i
    BY <2>1, FiniteMin
  <2>3. m # 0
    <3>1. W(0) = R
      BY CopiesGrow
    <3> QED BY <2>2, <3>1
  <2>4. m - 1 \in 0..(n - 1) /\ m - 1 \in Nat /\ (m - 1) + 1 = m /\ m - 1 \notin Bad
    BY <1>2, <2>2, <2>3
  <2>5. WithinBudget(W(m - 1)) /\ IsLegalSlot(c, W(m - 1))
    BY <1>2, <2>4
  <2>6. PICK x : W(m) = W(m - 1) \cup {x} /\ x \notin W(m - 1) /\ x.at = c
    BY <1>3, <2>4
  <2>7. WithinBudget(W(m))
    BY <1>3, <2>4, <2>5, <2>6, LegalMeansRoom
  <2> QED BY <2>2, <2>7
<1>5. ASSUME NEW i \in 0..n PROVE IsLegalSlot(c, W(i)) <=> ~Forbidden(c, W(i))
  <2>1. i \in Nat /\ WithinBudget(W(i)) /\ Timed(W(i)) /\ Judged(c, W(i))
    BY <1>2, <1>3, <1>4
  <2>2. PICK x : x \notin W(i) /\ x.at = c
    BY <1>3, <2>1
  <2>3. IsLegalSlot(c, W(i)) <=> WithinBudget(W(i) \cup {x})
    BY <2>1, <2>2, LegalMeansRoom
  <2>4. WithinBudget(W(i) \cup {x}) <=> ~Forbidden(c, W(i))
    BY <2>1, <2>2, LegalSlotKeepsBudget, ForbiddenOverfills
  <2> QED BY <2>3, <2>4
<1> QED BY <1>2, <1>4, <1>5 DEF n

=============================================================================
