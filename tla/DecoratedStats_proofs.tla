------------------------- MODULE DecoratedStats_proofs -------------------------
(***************************************************************************)
(* The statistics of a decorated function, for any number of threads,      *)
(* results and calls.                                                      *)
(***************************************************************************)
EXTENDS DecoratedStats, FiniteSetTheorems, TLAPS

\* Where a thread is inside a method of RetryStats, and where its call has a result.
Holding   == {"counting", "judging", "releasing", "reading", "clearing"}
HasResult == {"record", "counting", "judging", "releasing", "resolve"}

Counters ==
  [calls : Nat, attempts : Nat, successes : Nat, failures : Nat, exhausted : Nat]

\* Finite however long the list: the attempts of a call come after those of the
\* calls before it, so that finiteness is kept by every step.
AttemptsFinite == IsFiniteSet(Attempts)

TypeOK ==
  /\ pc \in [Threads -> {"idle", "running"} \cup Holding \cup HasResult]
  /\ result \in [Threads -> Results \cup {NoResult}]
  /\ counters \in Counters /\ snap \in [Threads -> Counters]
  /\ recorded \in Seq(Results)
  /\ resets \in Nat /\ ended \in Nat
  /\ \A t \in Threads : pc[t] \in HasResult => result[t] \in Results
  /\ AttemptsFinite

\* The lock is held by the thread inside a method, and there is at most one.
Exclusion == \A t \in Threads : lock = t <=> pc[t] \in Holding

\* The two steps of record(), as functions of the counters and the result.
AddCall(c, r) == [c EXCEPT !.calls = @ + 1, !.attempts = @ + r.attempt_count]
AddOutcome(c, r) ==
  [c EXCEPT !.successes = @ + (IF r.succeeded THEN 1 ELSE 0),
            !.failures = @ + (IF r.succeeded THEN 0 ELSE 1),
            !.exhausted = @ + (IF r.exhausted THEN 1 ELSE 0)]

\* How far the counters have left the tally: by as much as the thread inside has
\* done, and not at all when there is none.
LagOf(t) ==
  /\ pc[t] \in {"counting", "reading"} => counters = Tally
  /\ pc[t] = "judging" => counters = AddCall(Tally, result[t])
  /\ pc[t] = "releasing" => counters = AddOutcome(AddCall(Tally, result[t]), result[t])
  /\ pc[t] = "clearing" => counters.calls = 0
  /\ pc[t] = "reading" => snap[t].calls = Tally.calls

CountersLag == (lock = NoThread => counters = Tally) /\ \A t \in Threads : LagOf(t)

AddsUp(c) ==
  c.calls = c.successes + c.failures /\ c.exhausted <= c.failures /\ c.attempts >= c.calls

TallyAddsUp == AddsUp(Tally)

\* Calls that are recorded and have not ended.
Resolving == {t \in Threads : pc[t] = "resolve"}
EveryResultOnce == Len(recorded) + resets = ended + Cardinality(Resolving)

IInv == /\ TypeOK /\ Exclusion /\ CountersLag /\ TallyAddsUp
        /\ EveryResultOnce /\ SnapshotsAddUp

-----------------------------------------------------------------------------
\* The tally of the recorded results.

LEMMA ResultTypes ==
  ASSUME NEW r \in Results
  PROVE  /\ r.succeeded \in BOOLEAN /\ r.exhausted \in BOOLEAN
         /\ r.attempt_count \in Nat \ {0}
         /\ ~(r.succeeded /\ r.exhausted)
BY StatsAssumption DEF ResultKinds

LEMMA SelectionFinite ==
  ASSUME NEW n \in Nat, NEW A \in SUBSET (1..n)
  PROVE  /\ IsFiniteSet(A) /\ Cardinality(A) \in Nat
         /\ Cardinality(A \cup {n + 1}) = Cardinality(A) + 1
<1>1. IsFiniteSet(A)
  <2>1. IsFiniteSet(1..n)
    BY FS_Interval
  <2> QED BY <2>1, FS_Subset
<1>2. n + 1 \notin A
  OBVIOUS
<1> QED BY <1>1, <1>2, FS_AddElement, FS_CardinalityType

\* One more call has as many more attempts as its result says.
LEMMA AttemptsGrow ==
  ASSUME NEW r \in Results, recorded \in Seq(Results), recorded' = Append(recorded, r),
         IsFiniteSet(Attempts)
  PROVE  /\ IsFiniteSet(Attempts')
         /\ Cardinality(Attempts') = Cardinality(Attempts) + r.attempt_count
<1> DEFINE n == Len(recorded)
           k == r.attempt_count
           new == {n + 1} \X (1..k)
<1>0. n \in Nat /\ k \in Nat
  BY ResultTypes
<1>1. Attempts' = Attempts \cup new
  <2>1. DOMAIN recorded' = 1..(n + 1) /\ DOMAIN recorded = 1..n
    OBVIOUS
  <2>2. recorded'[n + 1] = r /\ \A i \in 1..n : recorded'[i] = recorded[i]
    OBVIOUS
  <2>3. Attempts' = UNION {{i} \X (1..recorded'[i].attempt_count) : i \in 1..(n + 1)}
    BY <2>1 DEF Attempts
  <2>4. 1..(n + 1) = (1..n) \cup {n + 1}
    BY <1>0
  <2> HIDE DEF n
  <2>5. \A a : a \in Attempts' <=>
                 \E i \in (1..n) \cup {n + 1} : a \in {i} \X (1..recorded'[i].attempt_count)
    BY <2>3, <2>4
  <2>6. \A a : a \in Attempts <=>
                 \E i \in 1..n : a \in {i} \X (1..recorded[i].attempt_count)
    BY <2>1 DEF Attempts
  <2>7. \A a : a \in Attempts' <=> a \in Attempts \/ a \in new
    BY <2>2, <2>5, <2>6
  <2> QED BY <2>7
<1>2. IsFiniteSet(new) /\ Cardinality(new) = k
  <2>1. IsFiniteSet({n + 1}) /\ Cardinality({n + 1}) = 1
    BY FS_Singleton
  <2>2. IsFiniteSet(1..k) /\ Cardinality(1..k) = k
    <3> HIDE DEF k
    <3>1. 1 \in Int /\ k \in Int
      BY <1>0
    <3>2. IsFiniteSet(1..k) /\ Cardinality(1..k) = IF 1 > k THEN 0 ELSE k - 1 + 1
      BY <3>1, FS_Interval
    <3> QED BY <3>2, <1>0
  <2>3. IsFiniteSet(new) /\ Cardinality(new) = 1 * k
    BY <2>1, <2>2, FS_Product
  <2> QED BY <2>3, <1>0
<1>3. Attempts \cap new = {}
  <2>1. \A a \in Attempts : a[1] \in 1..n
    BY DEF Attempts
  <2>2. \A a \in new : a[1] = n + 1
    OBVIOUS
  <2> HIDE DEF new, n
  <2> QED BY <2>1, <2>2, <1>0
<1> HIDE DEF new, k
<1>4. /\ IsFiniteSet(Attempts \cup new)
      /\ Cardinality(Attempts \cup new)
           = Cardinality(Attempts) + Cardinality(new) - Cardinality(Attempts \cap new)
  BY <1>2, FS_Union
<1>5. Cardinality(Attempts) \in Nat /\ Cardinality(Attempts \cap new) = 0
  BY <1>3, FS_CardinalityType, FS_EmptySet
<1> QED BY <1>0, <1>1, <1>2, <1>4, <1>5 DEF k

LEMMA SameCounters ==
  ASSUME NEW c \in Counters, NEW d \in Counters,
         c.calls = d.calls, c.attempts = d.attempts, c.successes = d.successes,
         c.failures = d.failures, c.exhausted = d.exhausted
  PROVE  c = d
BY DEF Counters

LEMMA CallAdded ==
  ASSUME NEW c \in Counters, NEW r \in Results
  PROVE  LET d == AddCall(c, r)
         IN /\ d \in Counters
            /\ d.calls = c.calls + 1 /\ d.attempts = c.attempts + r.attempt_count
            /\ d.successes = c.successes /\ d.failures = c.failures
            /\ d.exhausted = c.exhausted
<1>1. ASSUME NEW x \in Nat, NEW y \in Nat
      PROVE  LET d == [c EXCEPT !.calls = x, !.attempts = y]
             IN /\ d \in Counters
                /\ d.calls = x /\ d.attempts = y
                /\ d.successes = c.successes /\ d.failures = c.failures
                /\ d.exhausted = c.exhausted
  BY DEF Counters
<1>2. c.calls + 1 \in Nat /\ c.attempts + r.attempt_count \in Nat
  BY ResultTypes DEF Counters
<1> QED BY <1>1, <1>2 DEF AddCall

LEMMA OutcomeAdded ==
  ASSUME NEW c \in Counters, NEW r \in Results
  PROVE  LET d == AddOutcome(c, r)
         IN /\ d \in Counters
            /\ d.calls = c.calls /\ d.attempts = c.attempts
            /\ d.successes = c.successes + (IF r.succeeded THEN 1 ELSE 0)
            /\ d.failures = c.failures + (IF r.succeeded THEN 0 ELSE 1)
            /\ d.exhausted = c.exhausted + (IF r.exhausted THEN 1 ELSE 0)
<1> DEFINE x == c.successes + (IF r.succeeded THEN 1 ELSE 0)
           y == c.failures + (IF r.succeeded THEN 0 ELSE 1)
           z == c.exhausted + (IF r.exhausted THEN 1 ELSE 0)
<1>1. x \in Nat /\ y \in Nat /\ z \in Nat
  BY DEF Counters
<1>2. AddOutcome(c, r) = [c EXCEPT !.successes = x, !.failures = y, !.exhausted = z]
  BY DEF AddOutcome
<1> HIDE DEF x, y, z
<1> DEFINE e == [c EXCEPT !.successes = x, !.failures = y, !.exhausted = z]
<1>3. /\ e \in Counters
      /\ e.calls = c.calls /\ e.attempts = c.attempts
      /\ e.successes = x /\ e.failures = y /\ e.exhausted = z
  BY <1>1 DEF Counters
<1>4. AddOutcome(c, r) = e
  BY <1>2
<1> HIDE DEF e
<1> QED BY <1>3, <1>4 DEF x, y, z

LEMMA TallyTyped ==
  ASSUME recorded \in Seq(Results), AttemptsFinite
  PROVE  Tally \in Counters
<1> DEFINE n == Len(recorded)
<1>1. n \in Nat /\ DOMAIN recorded = 1..n
  OBVIOUS
<1>2. \A A \in SUBSET (1..n) : Cardinality(A) \in Nat
  BY <1>1, SelectionFinite
<1>3. Cardinality(Attempts) \in Nat
  BY FS_CardinalityType DEF AttemptsFinite
<1> QED BY <1>1, <1>2, <1>3 DEF Tally, Counters

LEMMA TallyGrows ==
  ASSUME NEW r \in Results, recorded \in Seq(Results), AttemptsFinite,
         recorded' = Append(recorded, r)
  PROVE  AttemptsFinite' /\ Tally' = AddOutcome(AddCall(Tally, r), r)
<1> DEFINE n == Len(recorded)
           S == {i \in DOMAIN recorded : recorded[i].succeeded}
           F == {i \in DOMAIN recorded : ~recorded[i].succeeded}
           E == {i \in DOMAIN recorded : recorded[i].exhausted}
<1>0. n \in Nat /\ DOMAIN recorded = 1..n /\ Len(recorded') = n + 1
      /\ DOMAIN recorded' = (1..n) \cup {n + 1}
      /\ recorded'[n + 1] = r /\ \A i \in 1..n : recorded'[i] = recorded[i]
  OBVIOUS
<1>1. IsFiniteSet(Attempts') /\ Cardinality(Attempts') = Cardinality(Attempts) + r.attempt_count
  BY AttemptsGrow DEF AttemptsFinite
<1>2. S \in SUBSET (1..n) /\ F \in SUBSET (1..n) /\ E \in SUBSET (1..n)
  BY <1>0
<1>3. /\ S' = IF r.succeeded THEN S \cup {n + 1} ELSE S
      /\ F' = IF r.succeeded THEN F ELSE F \cup {n + 1}
      /\ E' = IF r.exhausted THEN E \cup {n + 1} ELSE E
  <2> HIDE DEF n
  <2>1. S' = {i \in (1..n) \cup {n + 1} : recorded'[i].succeeded}
    BY <1>0
  <2>2. F' = {i \in (1..n) \cup {n + 1} : ~recorded'[i].succeeded}
    BY <1>0
  <2>3. E' = {i \in (1..n) \cup {n + 1} : recorded'[i].exhausted}
    BY <1>0
  <2>4. \A i : i \in S' <=> i \in S \/ (i = n + 1 /\ r.succeeded)
    BY <2>1, <1>0
  <2>5. \A i : i \in F' <=> i \in F \/ (i = n + 1 /\ ~r.succeeded)
    BY <2>2, <1>0
  <2>6. \A i : i \in E' <=> i \in E \/ (i = n + 1 /\ r.exhausted)
    BY <2>3, <1>0
  <2> QED BY <2>4, <2>5, <2>6
<1>4. /\ Cardinality(S) \in Nat /\ Cardinality(S \cup {n + 1}) = Cardinality(S) + 1
      /\ Cardinality(F) \in Nat /\ Cardinality(F \cup {n + 1}) = Cardinality(F) + 1
      /\ Cardinality(E) \in Nat /\ Cardinality(E \cup {n + 1}) = Cardinality(E) + 1
  BY <1>0, <1>2, SelectionFinite
<1>5. /\ Tally = [calls |-> n, attempts |-> Cardinality(Attempts),
                  successes |-> Cardinality(S), failures |-> Cardinality(F),
                  exhausted |-> Cardinality(E)]
      /\ Tally' = [calls |-> n + 1, attempts |-> Cardinality(Attempts'),
                   successes |-> Cardinality(S'), failures |-> Cardinality(F'),
                   exhausted |-> Cardinality(E')]
  BY <1>0 DEF Tally
<1> HIDE DEF S, F, E, n
<1>6. /\ Cardinality(S') = Cardinality(S) + (IF r.succeeded THEN 1 ELSE 0)
      /\ Cardinality(F') = Cardinality(F) + (IF r.succeeded THEN 0 ELSE 1)
      /\ Cardinality(E') = Cardinality(E) + (IF r.exhausted THEN 1 ELSE 0)
  BY <1>3, <1>4
<1>7. AttemptsFinite'
  BY <1>1 DEF AttemptsFinite
<1>8. Tally' = AddOutcome(AddCall(Tally, r), r)
  <2>1. Tally \in Counters /\ Tally' \in Counters
    <3>1. Tally \in Counters
      BY TallyTyped
    <3>2. Cardinality(Attempts') \in Nat
      BY <1>1, FS_CardinalityType
    <3> QED BY <1>0, <1>4, <1>5, <1>6, <3>1, <3>2 DEF Counters
  <2>2. AddCall(Tally, r) \in Counters
    BY <2>1, CallAdded
  <2> QED BY <1>1, <1>5, <1>6, <2>1, <2>2, CallAdded, OutcomeAdded, SameCounters
<1> QED BY <1>7, <1>8

LEMMA TallyOfNothing ==
  ASSUME recorded = <<>>
  PROVE  AttemptsFinite /\ Tally = Zero
<1>1. Attempts = {}
  BY DEF Attempts
<1>2. DOMAIN recorded = {} /\ Len(recorded) = 0
  OBVIOUS
<1> QED BY <1>1, <1>2, FS_EmptySet DEF Tally, Zero, AttemptsFinite

\* A result is a success or a failure, an exhausted one is a failure, and every one
\* has an attempt, so that the sums still agree.
LEMMA RecordAddsUp ==
  ASSUME NEW c \in Counters, NEW r \in Results, AddsUp(c)
  PROVE  AddsUp(AddOutcome(AddCall(c, r), r))
<1>1. CASE r.succeeded
  BY <1>1, ResultTypes DEF Counters, AddsUp, AddCall, AddOutcome
<1>2. CASE ~r.succeeded
  BY <1>2, ResultTypes DEF Counters, AddsUp, AddCall, AddOutcome
<1> QED BY <1>1, <1>2

-----------------------------------------------------------------------------
LEMMA InitIInv == Init => IInv
<1> SUFFICES ASSUME Init PROVE IInv
  OBVIOUS
<1>1. AttemptsFinite /\ Tally = Zero
  BY TallyOfNothing DEF Init
<1>2. Zero \in Counters /\ AddsUp(Zero)
  BY DEF Zero, Counters, AddsUp
<1>3. TypeOK
  BY <1>1, <1>2 DEF Init, TypeOK, HasResult
<1>4. Exclusion
  BY ThreadAssumption DEF Init, Exclusion, Holding
<1>5. CountersLag /\ TallyAddsUp
  <2>1. \A t \in Threads : LagOf(t)
    BY DEF Init, LagOf
  <2> QED BY <1>1, <1>2, <2>1 DEF Init, CountersLag, TallyAddsUp
<1>6. EveryResultOnce
  <2>1. Resolving = {} /\ Len(recorded) = 0
    BY DEF Init, Resolving
  <2> QED BY <2>1, FS_EmptySet DEF Init, EveryResultOnce
<1>7. SnapshotsAddUp
  BY DEF Init, SnapshotsAddUp, Zero
<1> QED BY <1>3, <1>4, <1>5, <1>6, <1>7 DEF IInv

\* A step that leaves the recorded results alone leaves their tally alone.
LEMMA TallyKept ==
  ASSUME UNCHANGED recorded
  PROVE  Tally' = Tally /\ (AttemptsFinite => AttemptsFinite')
BY DEF Tally, Attempts, AttemptsFinite

\* Whatever the step of thread t, it goes from one place to another, alone.
LEMMA OthersKept ==
  ASSUME TypeOK, NEW t \in Threads, NEW from, NEW to, Goto(t, from, to)
  PROVE  pc[t] = from /\ pc'[t] = to /\ \A u \in Threads \ {t} : pc'[u] = pc[u]
BY DEF TypeOK, Goto

\* The calls that are recorded and have not ended, by the step.
LEMMA ResolvingMoves ==
  ASSUME TypeOK, NEW t \in Threads, NEW from, NEW to, Goto(t, from, to)
  PROVE  /\ Cardinality(Resolving) \in Nat
         /\ from # "resolve" /\ to # "resolve" =>
              Cardinality(Resolving') = Cardinality(Resolving)
         /\ from # "resolve" /\ to = "resolve" =>
              Cardinality(Resolving') = Cardinality(Resolving) + 1
         /\ from = "resolve" /\ to # "resolve" =>
              Cardinality(Resolving') = Cardinality(Resolving) - 1
<1>1. IsFiniteSet(Resolving)
  BY ThreadAssumption, FS_Subset DEF Resolving
<1>2. pc[t] = from /\ pc'[t] = to /\ \A u \in Threads \ {t} : pc'[u] = pc[u]
  BY OthersKept
<1>3. /\ from # "resolve" /\ to # "resolve" => Resolving' = Resolving
      /\ from # "resolve" /\ to = "resolve" =>
           Resolving' = Resolving \cup {t} /\ t \notin Resolving
      /\ from = "resolve" /\ to # "resolve" => Resolving' = Resolving \ {t} /\ t \in Resolving
  BY <1>2 DEF Resolving
<1>4. Cardinality(Resolving) \in Nat
  BY <1>1, FS_CardinalityType
<1>5. from # "resolve" /\ to = "resolve" =>
        Cardinality(Resolving') = Cardinality(Resolving) + 1
  BY <1>1, <1>3, FS_AddElement
<1>6. from = "resolve" /\ to # "resolve" =>
        Cardinality(Resolving') = Cardinality(Resolving) - 1
  BY <1>1, <1>3, FS_RemoveElement
<1> QED BY <1>3, <1>4, <1>5, <1>6

\* A typed step of thread t.
LEMMA StepTyped ==
  ASSUME TypeOK, NEW t \in Threads, NEW from, NEW to, Goto(t, from, to),
         to \in {"idle", "running"} \cup Holding \cup HasResult,
         result' \in [Threads -> Results \cup {NoResult}],
         \A u \in Threads \ {t} : result'[u] = result[u],
         to \in HasResult => result'[t] \in Results,
         counters' \in Counters, snap' \in [Threads -> Counters],
         recorded' \in Seq(Results), AttemptsFinite', resets' \in Nat, ended' \in Nat
  PROVE  TypeOK'
<1>1. pc' \in [Threads -> {"idle", "running"} \cup Holding \cup HasResult]
  BY DEF TypeOK, Goto
<1>2. \A u \in Threads : pc'[u] \in HasResult => result'[u] \in Results
  BY OthersKept DEF TypeOK
<1> QED BY <1>1, <1>2 DEF TypeOK

\* A step of thread t that leaves the lock as it is, takes it or frees it.
LEMMA StepExcludes ==
  ASSUME TypeOK, Exclusion, NEW t \in Threads, NEW from, NEW to, Goto(t, from, to),
         \/ UNCHANGED lock /\ (from \in Holding <=> to \in Holding)
         \/ Take(t) /\ to \in Holding
         \/ Free /\ from \in Holding /\ to \notin Holding
  PROVE  Exclusion'
<1>1. pc[t] = from /\ pc'[t] = to /\ \A u \in Threads \ {t} : pc'[u] = pc[u]
  BY OthersKept
<1>2. CASE UNCHANGED lock /\ (from \in Holding <=> to \in Holding)
  BY <1>1, <1>2 DEF Exclusion
<1>3. CASE Take(t) /\ to \in Holding
  BY <1>1, <1>3, ThreadAssumption DEF Exclusion, Take
<1>4. CASE Free /\ from \in Holding /\ to \notin Holding
  BY <1>1, <1>4, ThreadAssumption DEF Exclusion, Free
<1> QED BY <1>2, <1>3, <1>4

\* Nobody lags but the holder of the lock.
LEMMA OnlyHolderLags ==
  ASSUME NEW t \in Threads, Exclusion', lock' \in {NoThread, t}, LagOf(t)',
         lock' = NoThread => counters' = Tally'
  PROVE  CountersLag'
<1>1. \A u \in Threads \ {t} : pc'[u] \notin Holding
  BY ThreadAssumption DEF Exclusion
<1>2. \A u \in Threads \ {t} : LagOf(u)'
  BY <1>1 DEF LagOf, Holding
<1> QED BY <1>2 DEF CountersLag

\* A step of thread t outside of RetryStats.
LEMMA OutsideKeepsLag ==
  ASSUME TypeOK, CountersLag, NEW t \in Threads, NEW from, NEW to, Goto(t, from, to),
         to \notin Holding, UNCHANGED <<lock, counters, snap, recorded>>,
         \A u \in Threads \ {t} : result'[u] = result[u]
  PROVE  CountersLag'
<1>1. Tally' = Tally
  BY TallyKept
<1>2. pc'[t] = to /\ \A u \in Threads \ {t} : pc'[u] = pc[u]
  BY OthersKept
<1>3. LagOf(t)'
  BY <1>2 DEF LagOf, Holding
<1>4. ASSUME NEW u \in Threads \ {t} PROVE LagOf(u)'
  BY <1>1, <1>2 DEF CountersLag, LagOf
<1> QED BY <1>1, <1>3, <1>4 DEF CountersLag

LEMMA StepIInv == IInv /\ [Next]_vars => IInv'
<1> SUFFICES ASSUME IInv, [Next]_vars PROVE IInv'
  OBVIOUS
<1>0. TypeOK /\ Exclusion /\ CountersLag /\ TallyAddsUp /\ EveryResultOnce /\ SnapshotsAddUp
  BY DEF IInv
<1>00. Tally \in Counters
  BY <1>0, TallyTyped DEF TypeOK
<1>1. ASSUME NEW t \in Threads, NEW from, NEW to, Goto(t, from, to),
             from \notin Holding, to \in {"idle", "running", "record"},
             UNCHANGED <<lock, counters, snap, recorded, resets>>,
             result' \in [Threads -> Results \cup {NoResult}],
             \A u \in Threads \ {t} : result'[u] = result[u],
             to \in HasResult => result'[t] \in Results,
             ended' = IF from = "resolve" THEN ended + 1 ELSE ended
      PROVE  IInv'
  <2>1. Tally' = Tally /\ AttemptsFinite'
    BY <1>0, <1>1, TallyKept DEF TypeOK
  <2>2. ended' \in Nat
    BY <1>0, <1>1 DEF TypeOK
  <2>3. TypeOK'
    <3>1. to \in {"idle", "running"} \cup Holding \cup HasResult
      BY <1>1 DEF HasResult
    <3>2. /\ counters' \in Counters /\ snap' \in [Threads -> Counters]
          /\ recorded' \in Seq(Results) /\ resets' \in Nat
      BY <1>0, <1>1 DEF TypeOK
    <3> QED BY <1>0, <1>1, <2>1, <2>2, <3>1, <3>2, StepTyped
  <2>4. to \notin Holding
    BY <1>1 DEF Holding
  <2>5. Exclusion'
    BY <1>0, <1>1, <2>4, StepExcludes
  <2>6. CountersLag'
    BY <1>0, <1>1, <2>4, OutsideKeepsLag
  <2>7. TallyAddsUp'
    BY <1>0, <2>1 DEF TallyAddsUp
  <2>8. EveryResultOnce'
    <3>1. Len(recorded) \in Nat
      BY <1>0 DEF TypeOK
    <3>2. CASE from = "resolve"
      BY <1>0, <1>1, <3>1, <3>2, ResolvingMoves DEF EveryResultOnce, TypeOK
    <3>3. CASE from # "resolve"
      BY <1>0, <1>1, <3>1, <3>3, ResolvingMoves DEF EveryResultOnce, TypeOK
    <3> QED BY <3>2, <3>3
  <2>9. SnapshotsAddUp'
    <3>1. \A u \in Threads : pc'[u] # "reading" => pc[u] # "reading"
      BY <1>0, <1>1, OthersKept DEF Holding
    <3> QED BY <1>0, <1>1, <3>1 DEF SnapshotsAddUp
  <2> QED BY <2>3, <2>5, <2>6, <2>7, <2>8, <2>9 DEF IInv
<1>2. ASSUME NEW t \in Threads, Call(t) \/ TrackedRaises(t) PROVE IInv'
  <2>1. PICK from, to : /\ Goto(t, from, to) /\ from \in {"idle", "running"}
                        /\ to \in {"idle", "running"}
    BY <1>2 DEF Call, TrackedRaises
  <2>2. UNCHANGED <<result, lock, counters, snap, recorded, resets, ended>>
    BY <1>2 DEF Call, TrackedRaises
  <2> QED BY <1>0, <1>1, <2>1, <2>2 DEF TypeOK, Holding, HasResult
<1>3. ASSUME NEW t \in Threads, TrackedReturns(t) PROVE IInv'
  <2>1. PICK r \in Results : /\ Goto(t, "running", "record")
                             /\ result' = [result EXCEPT ![t] = r]
    BY <1>3 DEF TrackedReturns
  <2>2. UNCHANGED <<lock, counters, snap, recorded, resets, ended>>
    BY <1>3 DEF TrackedReturns
  <2>3. /\ result' \in [Threads -> Results \cup {NoResult}] /\ result'[t] = r
        /\ \A u \in Threads \ {t} : result'[u] = result[u]
    BY <1>0, <2>1 DEF TypeOK
  <2> QED BY <1>1, <2>1, <2>2, <2>3 DEF Holding
<1>4. ASSUME NEW t \in Threads, Resolve(t) PROVE IInv'
  <2>1. /\ Goto(t, "resolve", "idle") /\ result' = [result EXCEPT ![t] = NoResult]
        /\ ended' = ended + 1 /\ UNCHANGED <<lock, counters, snap, recorded, resets>>
    BY <1>4 DEF Resolve
  <2>2. /\ result' \in [Threads -> Results \cup {NoResult}]
        /\ \A u \in Threads \ {t} : result'[u] = result[u]
    BY <1>0, <2>1 DEF TypeOK
  <2> QED BY <1>1, <2>1, <2>2 DEF Holding, HasResult
<1>5. ASSUME NEW t \in Threads, NEW from, NEW to, Goto(t, from, to),
             from # "resolve", to \in Holding \cup {"idle"},
             to \in HasResult => from \in HasResult,
             \/ UNCHANGED lock /\ from \in Holding /\ to \in Holding
             \/ Take(t) /\ to \in Holding
             \/ Free /\ from \in Holding /\ to \notin Holding,
             UNCHANGED <<result, recorded, resets, ended>>,
             counters' \in Counters, snap' \in [Threads -> Counters],
             \A u \in Threads \ {t} : snap'[u] = snap[u],
             LagOf(t)', lock' = NoThread => counters' = Tally',
             to # "reading" =>
               \/ from # "reading" /\ snap'[t] = snap[t]
               \/ AddsUp(snap'[t])
      PROVE  IInv'
  <2>1. Tally' = Tally /\ AttemptsFinite'
    BY <1>0, <1>5, TallyKept DEF TypeOK
  <2>2. pc[t] = from /\ pc'[t] = to /\ \A u \in Threads \ {t} : pc'[u] = pc[u]
    BY <1>0, <1>5, OthersKept
  <2>3. TypeOK'
    <3>1. to \in HasResult => result'[t] \in Results
      BY <1>0, <1>5, <2>2 DEF TypeOK
    <3>2. /\ result' \in [Threads -> Results \cup {NoResult}]
          /\ \A u \in Threads \ {t} : result'[u] = result[u]
          /\ recorded' \in Seq(Results) /\ resets' \in Nat /\ ended' \in Nat
      BY <1>0, <1>5 DEF TypeOK
    <3>3. to \in {"idle", "running"} \cup Holding \cup HasResult
      BY <1>5
    <3> QED BY <1>0, <1>5, <2>1, <3>1, <3>2, <3>3, StepTyped
  <2>4. Exclusion'
    BY <1>0, <1>5, StepExcludes
  <2>5. lock' \in {NoThread, t}
    BY <1>0, <1>5, <2>2 DEF Exclusion, Take, Free
  <2>6. CountersLag'
    BY <1>5, <2>4, <2>5, OnlyHolderLags
  <2>7. TallyAddsUp'
    BY <1>0, <2>1 DEF TallyAddsUp
  <2>8. EveryResultOnce'
    <3>1. to # "resolve"
      BY <1>5 DEF Holding
    <3> QED BY <1>0, <1>5, <3>1, ResolvingMoves DEF EveryResultOnce
  <2>9. SnapshotsAddUp'
    <3>1. \A u \in Threads \ {t} : pc'[u] # "reading" => AddsUp(snap'[u])
      BY <1>0, <1>5, <2>2 DEF SnapshotsAddUp, AddsUp
    <3>2. to # "reading" => AddsUp(snap'[t])
      BY <1>0, <1>5, <2>2 DEF SnapshotsAddUp, AddsUp
    <3> QED BY <2>2, <3>1, <3>2 DEF SnapshotsAddUp, AddsUp
  <2> QED BY <2>3, <2>4, <2>6, <2>7, <2>8, <2>9 DEF IInv
<1>6. ASSUME NEW t \in Threads, BeginRecord(t) PROVE IInv'
  <2>1. /\ Goto(t, "record", "counting") /\ Take(t)
        /\ UNCHANGED <<result, counters, snap, begun, recorded, resets, ended>>
    BY <1>6 DEF BeginRecord
  <2>2. pc'[t] = "counting" /\ Tally' = Tally
    BY <1>0, <2>1, OthersKept, TallyKept
  <2>3. counters = Tally /\ lock' # NoThread
    BY <1>0, <2>1, ThreadAssumption DEF CountersLag, Take
  <2>4. LagOf(t)'
    BY <2>1, <2>2, <2>3 DEF LagOf
  <2> QED BY <1>0, <1>5, <2>1, <2>3, <2>4 DEF TypeOK, Holding, HasResult
<1>7. ASSUME NEW t \in Threads, CountCall(t) PROVE IInv'
  <2>1. /\ Goto(t, "counting", "judging") /\ counters' = AddCall(counters, result[t])
        /\ UNCHANGED <<result, lock, snap, begun, recorded, resets, ended>>
    BY <1>7 DEF CountCall, AddCall
  <2>2. pc[t] = "counting" /\ pc'[t] = "judging" /\ Tally' = Tally
    BY <1>0, <2>1, OthersKept, TallyKept
  <2>3. counters = Tally /\ result[t] \in Results /\ lock = t
    BY <1>0, <2>2 DEF CountersLag, LagOf, TypeOK, HasResult, Exclusion, Holding
  <2>4. counters' \in Counters
    BY <1>00, <2>1, <2>3, CallAdded
  <2>5. LagOf(t)'
    BY <2>1, <2>2, <2>3 DEF LagOf
  <2>6. lock' # NoThread
    BY <2>1, <2>3, ThreadAssumption
  <2> QED BY <1>0, <1>5, <2>1, <2>4, <2>5, <2>6 DEF TypeOK, Holding, HasResult
<1>8. ASSUME NEW t \in Threads, CountOutcome(t) PROVE IInv'
  <2>1. /\ Goto(t, "judging", "releasing") /\ counters' = AddOutcome(counters, result[t])
        /\ UNCHANGED <<result, lock, snap, begun, recorded, resets, ended>>
    BY <1>8 DEF CountOutcome, AddOutcome
  <2>2. pc[t] = "judging" /\ pc'[t] = "releasing" /\ Tally' = Tally
    BY <1>0, <2>1, OthersKept, TallyKept
  <2>3. counters = AddCall(Tally, result[t]) /\ result[t] \in Results /\ lock = t
    BY <1>0, <2>2 DEF CountersLag, LagOf, TypeOK, HasResult, Exclusion, Holding
  <2>4. counters' \in Counters
    BY <1>00, <2>1, <2>3, CallAdded, OutcomeAdded
  <2>5. LagOf(t)'
    BY <2>1, <2>2, <2>3 DEF LagOf
  <2>6. lock' # NoThread
    BY <2>1, <2>3, ThreadAssumption
  <2> QED BY <1>0, <1>5, <2>1, <2>4, <2>5, <2>6 DEF TypeOK, Holding, HasResult
<1>9. ASSUME NEW t \in Threads, EndRecord(t) PROVE IInv'
  <2>1. /\ Goto(t, "releasing", "resolve") /\ Free
        /\ recorded' = Append(recorded, result[t])
        /\ UNCHANGED <<result, counters, snap, begun, resets, ended>>
    BY <1>9 DEF EndRecord
  <2>2. /\ pc[t] = "releasing" /\ pc'[t] = "resolve"
        /\ \A u \in Threads \ {t} : pc'[u] = pc[u]
    BY <1>0, <2>1, OthersKept
  <2>3. PICK r : r = result[t]
    OBVIOUS
  <2>4. /\ r \in Results /\ recorded' = Append(recorded, r)
        /\ counters = AddOutcome(AddCall(Tally, r), r)
    BY <1>0, <2>1, <2>2, <2>3 DEF CountersLag, LagOf, TypeOK, HasResult
  <2>5. AttemptsFinite' /\ Tally' = AddOutcome(AddCall(Tally, r), r)
    BY <1>0, <2>4, TallyGrows DEF TypeOK
  <2>6. counters' = Tally'
    BY <2>1, <2>4, <2>5
  <2>7. TypeOK'
    <3>1. /\ result' \in [Threads -> Results \cup {NoResult}] /\ result'[t] \in Results
          /\ \A u \in Threads \ {t} : result'[u] = result[u]
          /\ counters' \in Counters /\ snap' \in [Threads -> Counters]
          /\ resets' \in Nat /\ ended' \in Nat
      BY <1>0, <2>1, <2>3, <2>4 DEF TypeOK
    <3>2. recorded' \in Seq(Results)
      BY <1>0, <2>4 DEF TypeOK
    <3> QED BY <1>0, <2>1, <2>5, <3>1, <3>2, StepTyped DEF HasResult
  <2>8. Exclusion'
    BY <1>0, <2>1, StepExcludes DEF Holding
  <2>9. CountersLag'
    <3>1. LagOf(t)'
      BY <2>2 DEF LagOf
    <3> QED BY <2>1, <2>6, <2>8, <3>1, OnlyHolderLags DEF Free
  <2>10. TallyAddsUp'
    <3>1. AddsUp(AddOutcome(AddCall(Tally, r), r))
      BY <1>0, <1>00, <2>4, RecordAddsUp DEF TallyAddsUp
    <3> QED BY <2>5, <3>1 DEF TallyAddsUp
  <2>11. EveryResultOnce'
    <3>1. Len(recorded) \in Nat /\ Len(recorded') = Len(recorded) + 1
      BY <1>0, <2>4 DEF TypeOK
    <3>2. Cardinality(Resolving') = Cardinality(Resolving) + 1 /\ Cardinality(Resolving) \in Nat
      BY <1>0, <2>1, ResolvingMoves
    <3>3. /\ resets' = resets /\ ended' = ended /\ resets \in Nat /\ ended \in Nat
          /\ Len(recorded) + resets = ended + Cardinality(Resolving)
      BY <1>0, <2>1 DEF TypeOK, EveryResultOnce
    <3>4. Len(recorded') + resets' = ended' + Cardinality(Resolving')
      BY <3>1, <3>2, <3>3
    <3> QED BY <3>4 DEF EveryResultOnce
  <2>12. SnapshotsAddUp'
    BY <1>0, <2>1, <2>2 DEF SnapshotsAddUp
  <2> QED BY <2>7, <2>8, <2>9, <2>10, <2>11, <2>12 DEF IInv
<1>10. ASSUME NEW t \in Threads, BeginSnapshot(t) PROVE IInv'
  <2>1. /\ Goto(t, "idle", "reading") /\ Take(t)
        /\ snap' = [snap EXCEPT ![t] = [Zero EXCEPT !.calls = counters.calls]]
        /\ UNCHANGED <<result, counters, begun, recorded, resets, ended>>
    BY <1>10 DEF BeginSnapshot
  <2>2. pc'[t] = "reading" /\ Tally' = Tally
    BY <1>0, <2>1, OthersKept, TallyKept
  <2>3. counters = Tally /\ lock' # NoThread
    BY <1>0, <2>1, ThreadAssumption DEF CountersLag, Take
  <2>4. /\ [Zero EXCEPT !.calls = counters.calls] \in Counters
        /\ [Zero EXCEPT !.calls = counters.calls].calls = counters.calls
    BY <1>0 DEF TypeOK, Zero, Counters
  <2>5. /\ snap' \in [Threads -> Counters] /\ snap'[t].calls = counters.calls
        /\ \A u \in Threads \ {t} : snap'[u] = snap[u]
    BY <1>0, <2>1, <2>4 DEF TypeOK
  <2>6. LagOf(t)'
    BY <2>1, <2>2, <2>3, <2>5 DEF LagOf
  <2> QED BY <1>0, <1>5, <2>1, <2>3, <2>5, <2>6 DEF TypeOK, Holding, HasResult
<1>11. ASSUME NEW t \in Threads, EndSnapshot(t) PROVE IInv'
  <2>1. /\ Goto(t, "reading", "idle") /\ Free
        /\ snap' = [snap EXCEPT ![t] = [counters EXCEPT !.calls = snap[t].calls]]
        /\ UNCHANGED <<result, counters, begun, recorded, resets, ended>>
    BY <1>11 DEF EndSnapshot
  <2>2. pc[t] = "reading" /\ pc'[t] = "idle" /\ Tally' = Tally
    BY <1>0, <2>1, OthersKept, TallyKept
  <2>3. counters = Tally /\ snap[t].calls = Tally.calls
    BY <1>0, <2>2 DEF CountersLag, LagOf
  <2>4. [counters EXCEPT !.calls = snap[t].calls] = Tally
    BY <1>00, <2>3 DEF Counters
  <2>5. /\ snap' \in [Threads -> Counters] /\ snap'[t] = Tally
        /\ \A u \in Threads \ {t} : snap'[u] = snap[u]
    BY <1>0, <1>00, <2>1, <2>4 DEF TypeOK
  <2>6. AddsUp(snap'[t])
    BY <1>0, <2>5 DEF TallyAddsUp
  <2>7. LagOf(t)'
    BY <2>2 DEF LagOf
  <2>8. counters' = Tally'
    BY <2>1, <2>2, <2>3
  <2> QED BY <1>0, <1>5, <2>1, <2>5, <2>6, <2>7, <2>8 DEF TypeOK, Holding, HasResult
<1>12. ASSUME NEW t \in Threads, BeginReset(t) PROVE IInv'
  <2>1. /\ Goto(t, "idle", "clearing") /\ Take(t)
        /\ counters' = [counters EXCEPT !.calls = 0]
        /\ UNCHANGED <<result, snap, begun, recorded, resets, ended>>
    BY <1>12 DEF BeginReset, Cleared, Zero
  <2>2. pc'[t] = "clearing" /\ lock' # NoThread
    BY <1>0, <2>1, OthersKept, ThreadAssumption DEF Take
  <2>3. counters' \in Counters /\ counters'.calls = 0
    BY <1>0, <2>1 DEF TypeOK, Counters
  <2>4. LagOf(t)'
    BY <2>2, <2>3 DEF LagOf
  <2> QED BY <1>0, <1>5, <2>1, <2>2, <2>3, <2>4 DEF TypeOK, Holding, HasResult
<1>13. ASSUME NEW t \in Threads, EndReset(t) PROVE IInv'
  <2>1. /\ Goto(t, "clearing", "idle") /\ Free
        /\ counters' = [Zero EXCEPT !.calls = counters.calls]
        /\ resets' = resets + Len(recorded) /\ recorded' = <<>>
        /\ UNCHANGED <<result, snap, begun, ended>>
    BY <1>13 DEF EndReset, Cleared
  <2>2. /\ pc[t] = "clearing" /\ pc'[t] = "idle"
        /\ \A u \in Threads \ {t} : pc'[u] = pc[u]
    BY <1>0, <2>1, OthersKept
  <2>3. counters' = Zero /\ Zero \in Counters
    BY <1>0, <2>1, <2>2 DEF CountersLag, LagOf, Zero, Counters
  <2>4. AttemptsFinite' /\ Tally' = Zero
    <3>1. Attempts' = {}
      BY <2>1 DEF Attempts
    <3>2. DOMAIN recorded' = {} /\ Len(recorded') = 0
      BY <2>1
    <3> QED BY <3>1, <3>2, FS_EmptySet DEF Tally, Zero, AttemptsFinite
  <2>5. Len(recorded) \in Nat /\ Len(recorded') = 0 /\ recorded' \in Seq(Results)
    BY <1>0, <2>1 DEF TypeOK
  <2>6. TypeOK'
    <3>1. /\ result' \in [Threads -> Results \cup {NoResult}]
          /\ \A u \in Threads \ {t} : result'[u] = result[u]
          /\ snap' \in [Threads -> Counters]
          /\ resets' \in Nat /\ ended' \in Nat
      BY <1>0, <2>1, <2>5 DEF TypeOK
    <3> QED BY <1>0, <2>1, <2>3, <2>4, <2>5, <3>1, StepTyped DEF HasResult
  <2>7. Exclusion'
    BY <1>0, <2>1, StepExcludes DEF Holding
  <2>8. CountersLag'
    <3>1. LagOf(t)'
      BY <2>2 DEF LagOf
    <3> QED BY <2>1, <2>3, <2>4, <2>7, <3>1, OnlyHolderLags DEF Free
  <2>9. TallyAddsUp'
    BY <2>4 DEF TallyAddsUp, AddsUp, Zero
  <2>10. EveryResultOnce'
    <3>1. Cardinality(Resolving') = Cardinality(Resolving) /\ Cardinality(Resolving) \in Nat
      BY <1>0, <2>1, ResolvingMoves
    <3>2. resets' = resets + Len(recorded) /\ ended' = ended
      BY <2>1
    <3>3. resets \in Nat /\ ended \in Nat
      BY <1>0 DEF TypeOK
    <3>4. Len(recorded) + resets = ended + Cardinality(Resolving)
      BY <1>0 DEF EveryResultOnce
    <3>5. Len(recorded') + resets' = ended' + Cardinality(Resolving')
      BY <2>5, <3>1, <3>2, <3>3, <3>4
    <3> QED BY <3>5 DEF EveryResultOnce
  <2>11. SnapshotsAddUp'
    BY <1>0, <2>1, <2>2 DEF SnapshotsAddUp
  <2> QED BY <2>6, <2>7, <2>8, <2>9, <2>10, <2>11 DEF IInv
<1>14. CASE UNCHANGED vars
  <2>1. Tally' = Tally /\ AttemptsFinite' /\ Resolving' = Resolving
    BY <1>0, <1>14, TallyKept DEF vars, TypeOK, Resolving
  <2> QED BY <1>0, <1>14, <2>1
          DEF vars, IInv, TypeOK, Exclusion, CountersLag, LagOf, TallyAddsUp, EveryResultOnce,
              SnapshotsAddUp
<1> QED
  BY <1>2, <1>3, <1>4, <1>6, <1>7, <1>8, <1>9, <1>10, <1>11, <1>12, <1>13, <1>14 DEF Next

LEMMA InductiveInvariant == Spec => []IInv
BY InitIInv, StepIInv, PTL DEF Spec

-----------------------------------------------------------------------------
\* However the threads interleave, the counters are the tally of the recorded
\* results whenever the lock is free, and each result is recorded once
\* (RetryStats.record, the finally of the decorated wrapper).
THEOREM NoUpdateIsLost == Spec => []CountersAreTally
<1>1. IInv => CountersAreTally
  BY DEF IInv, CountersLag, EveryResultOnce, Resolving, CountersAreTally
<1> QED BY <1>1, InductiveInvariant, PTL

\* No snapshot shows a half-recorded call or a half-done reset (RetryStats.snapshot).
THEOREM SnapshotsAreConsistent == Spec => []SnapshotsAddUp
<1>1. IInv => SnapshotsAddUp
  BY DEF IInv
<1> QED BY <1>1, InductiveInvariant, PTL
=============================================================================
