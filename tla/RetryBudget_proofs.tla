--------------------------- MODULE RetryBudget_proofs ---------------------------
(***************************************************************************)
(* Theorems about RetryBudget for every number of threads, keys, capacity, *)
(* cleanup interval and delays, and every clock that rounds to nearest.    *)
(***************************************************************************)
EXTENDS RetryBudget, BudgetSlots_proofs

\* What is known of a pending call, by its operation.
LEMMA CallFields ==
  ASSUME NEW c \in Call
  PROVE  /\ c.op = "reserve" => c.key \in Keys /\ c.current \in Nat
                                /\ c.not_before \in Nat
         /\ c.op = "release" => c.item \in Reservation /\ c.current \in Nat
         /\ c.op = "snapshot" => c.key \in Keys /\ c.current \in Nat
         /\ c.op = "cleanup" => c.current \in Nat
BY DEF Call, NoCall

\* A table in the large: some keys, each with a set of reservations.
IsTable(T) == DOMAIN T \subseteq Keys /\ \A k \in DOMAIN T : T[k] \subseteq Reservation

\* CleanupExpiredKeys and MaybeCleanup only remove keys whose slots expired.
LEMMA CleanupKeepsLive ==
  ASSUME NEW T, IsTable(T), NEW now
  PROVE  /\ IsTable(CleanupExpiredKeys(T, now))
         /\ \A k : /\ Slots(CleanupExpiredKeys(T, now), k) \subseteq Slots(T, k)
                   /\ Prune(Slots(T, k), now) \subseteq Slots(CleanupExpiredKeys(T, now), k)
<1> DEFINE K == {k \in DOMAIN T : Prune(T[k], now) # {}}
           C == CleanupExpiredKeys(T, now)
<1>1. DOMAIN C = K /\ \A k \in K : C[k] = T[k]
  BY DEF CleanupExpiredKeys, Restrict
<1> HIDE DEF C
<1>2. IsTable(C)
  BY <1>1 DEF IsTable
<1>3. ASSUME NEW k PROVE /\ Slots(C, k) \subseteq Slots(T, k)
                         /\ Prune(Slots(T, k), now) \subseteq Slots(C, k)
  <2>1. CASE k \in K
    BY <1>1, <2>1 DEF Slots, Prune
  <2>2. CASE k \notin K
    BY <1>1, <2>2 DEF Slots, Prune
  <2> QED BY <2>1, <2>2
<1> QED BY <1>2, <1>3 DEF C

LEMMA MaybeCleanupKeepsLive ==
  ASSUME IsTable(table), NEW now
  PROVE  /\ IsTable(MaybeCleanup(now))
         /\ \A k : /\ Slots(MaybeCleanup(now), k) \subseteq Slots(table, k)
                   /\ Prune(Slots(table, k), now) \subseteq Slots(MaybeCleanup(now), k)
BY CleanupKeepsLive DEF MaybeCleanup, Prune

\* The effect of the two updates of one key.
LEMMA PutSlots ==
  ASSUME NEW T, IsTable(T), NEW k \in Keys, NEW R \in SUBSET Reservation
  PROVE  /\ IsTable(Put(T, k, R))
         /\ \A j : Slots(Put(T, k, R), j) = IF j = k THEN R ELSE Slots(T, j)
BY DEF Put, Slots, IsTable

LEMMA DropSlots ==
  ASSUME NEW T, IsTable(T), NEW k
  PROVE  /\ IsTable(Drop(T, k))
         /\ \A j : Slots(Drop(T, k), j) = IF j = k THEN {} ELSE Slots(T, j)
BY DEF Drop, Slots, IsTable, Restrict

LEMMA SlotsTyped ==
  ASSUME NEW T, IsTable(T), NEW k
  PROVE  Slots(T, k) \subseteq Reservation
BY DEF Slots, IsTable

-----------------------------------------------------------------------------
\* The inductive invariant.

\* A pending call read its clock in the past, and may only release what was
\* issued.
PendingCalls ==
  \A t \in Threads :
     /\ call[t].op # "none" => call[t].current <= clock
     /\ call[t].op = "reserve" => call[t].current <= call[t].not_before
     /\ call[t].op = "release" => call[t].item \in issued

\* Tokens name reservations: each was drawn once, from below nextToken.
TokensUnique ==
  /\ IsFiniteSet(issued)
  /\ \A r \in issued : r.token < nextToken
  /\ \A r, s \in issued : r.token = s.token => r = s

IInv == TypeOK /\ PendingCalls /\ TokensUnique /\ TableExact /\ TableWithinBudget

LEMMA InitIInv == Init => IInv
<1> SUFFICES ASSUME Init PROVE IInv
  OBVIOUS
<1>1. TypeOK
  BY CallerAssumption DEF Init, TypeOK, Call
<1>2. PendingCalls
  BY DEF Init, PendingCalls, NoCall
<1>3. TokensUnique
  BY FS_EmptySet DEF Init, TokensUnique
<1>4. TableExact
  BY DEF Init, TableExact, Slots, Granted, Prune
<1>5. TableWithinBudget
  BY DEF Init, TableWithinBudget
<1> QED BY <1>1, <1>2, <1>3, <1>4, <1>5 DEF IInv

-----------------------------------------------------------------------------
\* The table under the lock.

LEMMA TableTyped ==
  ASSUME TypeOK
  PROVE  IsTable(table) /\ \A k \in Keys : Slots(table, k) \subseteq Reservation
BY SlotsTyped DEF TypeOK, IsTable

\* The slots of a key are a finite, timed set that is within budget.
LEMMA SlotsWithinBudget ==
  ASSUME IInv, NEW k \in Keys
  PROVE  Timed(Slots(table, k)) /\ WithinBudget(Slots(table, k))
<1>1. Slots(table, k) \in SUBSET issued
  BY DEF IInv, TableExact, Granted
<1>2. Timed(Slots(table, k))
  BY <1>1, FS_Subset DEF IInv, TypeOK, TokensUnique, Timed, Reservation
<1>3. WithinBudget(Slots(table, k))
  BY DEF IInv, TableWithinBudget, Slots, WithinBudget, Times
<1> QED BY <1>2, <1>3

\* The table only shrinks: it loses the reservations in `gone', and of the
\* others only some that have expired at `now'.
Shrinks(now, gone) ==
  /\ IsTable(table')
  /\ \A k \in Keys :
        /\ Slots(table', k) \subseteq Slots(table, k) \ gone
        /\ Prune(Slots(table, k), now) \ gone \subseteq Slots(table', k)

\* A shrinking step keeps the table exact and within budget.
LEMMA ShrinkKeepsTable ==
  ASSUME RoundsToNearest(Int), IInv, NEW now \in Nat, now <= clock, NEW gone \in SUBSET issued,
         Shrinks(now, gone), clock' = clock, issued' = issued,
         released' = released \cup gone
  PROVE  TableExact' /\ TableWithinBudget'
<1>1. ASSUME NEW k \in Keys
      PROVE  /\ Prune(Granted(k), clock)' \subseteq Slots(table', k)
             /\ Slots(table', k) \subseteq Granted(k)'
  <2>1. Granted(k)' = Granted(k) \ gone
    BY DEF Granted
  <2>2. \A r \in Granted(k) : r.at > MinusPer(clock) => r.at > MinusPer(now)
    BY WindowsInOrder DEF IInv, TypeOK, Granted, Reservation
  <2>3. Prune(Granted(k), clock) \subseteq Prune(Slots(table, k), now)
    BY <2>2 DEF IInv, TableExact, Prune
  <2>4. Prune(Granted(k) \ gone, clock) \subseteq Prune(Slots(table, k), now) \ gone
    BY <2>3 DEF Prune
  <2>5. Prune(Granted(k), clock)' = Prune(Granted(k) \ gone, clock)
    BY <2>1 DEF Prune
  <2> QED BY <2>1, <2>4, <2>5 DEF Shrinks, IInv, TableExact
<1>2. ASSUME NEW k \in DOMAIN table' PROVE WithinBudget(table'[k])
  <2>1. k \in Keys /\ table'[k] = Slots(table', k)
    BY DEF Shrinks, IsTable, Slots
  <2>2. Slots(table', k) \in SUBSET Slots(table, k)
    BY <2>1 DEF Shrinks
  <2> QED BY <2>1, <2>2, SlotsWithinBudget, SubsetKeepsBudget
<1>3. TableExact'
  BY <1>1 DEF TableExact
<1>4. TableWithinBudget'
  BY <1>2 DEF TableWithinBudget, WithinBudget, Times, Window
<1> QED BY <1>3, <1>4

LEMMA CleanupShrinks ==
  ASSUME IInv, NEW t \in Threads, Cleanup(t)
  PROVE  Shrinks(call[t].current, {})
BY CleanupKeepsLive, TableTyped DEF IInv, Cleanup, Shrinks

LEMMA SnapshotShrinks ==
  ASSUME IInv, NEW t \in Threads, Snapshot(t)
  PROVE  Shrinks(call[t].current, {})
<1> DEFINE k == call[t].key
           now == call[t].current
           T == MaybeCleanup(now)
<1>1. IsTable(T) /\ \A j : /\ Slots(T, j) \subseteq Slots(table, j)
                           /\ Prune(Slots(table, j), now) \subseteq Slots(T, j)
  BY MaybeCleanupKeepsLive, TableTyped DEF IInv
<1>2. k \in Keys
  BY CallFields DEF Snapshot, Locked, IInv, TypeOK
<1>3. table' = IF k \in DOMAIN T THEN Put(T, k, Prune(T[k], now)) ELSE T
  BY DEF Snapshot
<1> HIDE DEF T, k, now
<1>4. CASE k \notin DOMAIN T
  BY <1>1, <1>3, <1>4 DEF Shrinks, now
<1>5. CASE k \in DOMAIN T
  <2>1. table' = Put(T, k, Prune(Slots(T, k), now))
    BY <1>3, <1>5 DEF Slots
  <2>2. Prune(Slots(T, k), now) \in SUBSET Reservation
    BY <1>1, SlotsTyped DEF Prune
  <2>3. IsTable(table') /\ \A j : Slots(table', j) =
          IF j = k THEN Prune(Slots(T, k), now) ELSE Slots(T, j)
    BY <1>1, <1>2, <2>1, <2>2, PutSlots
  <2>4. Prune(Slots(table, k), now) \subseteq Prune(Slots(T, k), now)
        /\ Prune(Slots(T, k), now) \subseteq Slots(table, k)
    BY <1>1 DEF Prune
  <2> QED BY <1>1, <2>3, <2>4 DEF Shrinks, now
<1> QED BY <1>4, <1>5

\* Tokens being unique, deleting by token deletes this one reservation.
LEMMA ReleaseShrinks ==
  ASSUME IInv, NEW t \in Threads, Release(t)
  PROVE  Shrinks(call[t].current, {call[t].item})
<1> DEFINE item == call[t].item
           k == item.key
           now == call[t].current
           T == MaybeCleanup(now)
           left == WithoutToken(Slots(T, k), item)
<1>1. IsTable(T) /\ \A j : /\ Slots(T, j) \subseteq Slots(table, j)
                           /\ Prune(Slots(table, j), now) \subseteq Slots(T, j)
  BY MaybeCleanupKeepsLive, TableTyped DEF IInv
<1>2. item \in issued /\ item \in Reservation /\ k \in Keys
  BY DEF Release, Locked, IInv, PendingCalls, TypeOK, Reservation
<1>3. table' = IF Slots(T, k) = {} THEN T
               ELSE IF left = {} THEN Drop(T, k) ELSE Put(T, k, left)
  BY DEF Release
<1>4. \A j \in Keys : Slots(table, j) \subseteq {r \in issued : r.key = j}
  BY DEF IInv, TableExact, Granted
<1>5. left = Slots(T, k) \ {item}
  BY <1>1, <1>2, <1>4 DEF WithoutToken, IInv, TokensUnique
<1>6. \A j \in Keys : j # k => item \notin Slots(T, j)
  BY <1>1, <1>4
<1> HIDE DEF T, left, item, now
<1>7. IsTable(table') /\ \A j \in Keys : Slots(table', j) = Slots(T, j) \ {item}
  <2>1. CASE Slots(T, k) = {}
    BY <1>1, <1>3, <1>6, <2>1
  <2>2. CASE Slots(T, k) # {} /\ left = {}
    BY <1>1, <1>3, <1>5, <1>6, <2>2, DropSlots
  <2>3. CASE Slots(T, k) # {} /\ left # {}
    <3>1. left \in SUBSET Reservation
      BY <1>1, <1>5, SlotsTyped
    <3>2. table' = Put(T, k, left)
      BY <1>3, <2>3
    <3> QED BY <1>1, <1>2, <1>5, <1>6, <3>1, <3>2, PutSlots
  <2> QED BY <2>1, <2>2, <2>3
<1> QED BY <1>1, <1>7 DEF Shrinks, item, now

-----------------------------------------------------------------------------
\* What _reserve does to the table: of the key's slots it keeps those that
\* have not expired at its clock reading, and adds one in the first legal slot.
LEMMA ReserveEffect ==
  ASSUME RoundsToNearest(Int), IInv, NEW t \in Threads, Reserve(t)
  PROVE  LET c    == call[t]
             kept == Prune(Slots(table, c.key), c.current)
             at   == FirstLegalSlot(c.not_before, kept)
             r    == [token |-> nextToken, key |-> c.key, at |-> at]
         IN /\ c.key \in Keys /\ c.current \in Nat /\ c.not_before \in Nat
            /\ c.current <= c.not_before /\ c.current <= clock
            /\ kept \in SUBSET issued /\ Timed(kept) /\ WithinBudget(kept)
            /\ at \in Nat /\ at >= c.not_before /\ ~Forbidden(at, kept)
            /\ r \in Reservation /\ r \notin issued
            /\ issued' = issued \cup {r} /\ released' = released
            /\ nextToken' = nextToken + 1 /\ clock' = clock
            /\ IsTable(table')
            /\ Slots(table', c.key) = kept \cup {r}
            /\ \A k \in Keys \ {c.key} :
                  /\ Slots(table', k) \subseteq Slots(table, k)
                  /\ Prune(Slots(table, k), c.current) \subseteq Slots(table', k)
<1> DEFINE c == call[t]
           kept == Prune(Slots(table, c.key), c.current)
           at == FirstLegalSlot(c.not_before, kept)
           r == [token |-> nextToken, key |-> c.key, at |-> at]
           T == MaybeCleanup(c.current)
<1>1. /\ c.key \in Keys /\ c.current \in Nat /\ c.not_before \in Nat
      /\ c.current <= c.not_before /\ c.current <= clock
  BY CallFields DEF Reserve, Locked, IInv, TypeOK, PendingCalls
<1>2. IsTable(T) /\ \A j : /\ Slots(T, j) \subseteq Slots(table, j)
                           /\ Prune(Slots(table, j), c.current) \subseteq Slots(T, j)
  BY MaybeCleanupKeepsLive, TableTyped DEF IInv
<1>3. Prune(Slots(T, c.key), c.current) = kept
  BY <1>2 DEF Prune
<1>4. Max({c.current, c.not_before}) = c.not_before
  BY <1>1 DEF Max
<1>5. kept \in SUBSET Slots(table, c.key)
  BY DEF Prune
<1>6. kept \in SUBSET issued /\ kept \in SUBSET Reservation
  BY <1>1, <1>5, TableTyped DEF IInv, TableExact, Granted
<1>7. Timed(kept) /\ WithinBudget(kept)
  BY <1>1, <1>5, SlotsWithinBudget, SubsetKeepsBudget
<1>8. at \in Int /\ at >= c.not_before /\ ~Forbidden(at, kept)
  BY <1>1, <1>7, FirstLegalSlotIsLegal
<1>9. at \in Nat
  BY <1>1, <1>8
<1>10. r \in Reservation
  BY <1>1, <1>9 DEF IInv, TypeOK, Reservation
<1>11. r \notin issued
  BY DEF IInv, TokensUnique, TypeOK
<1>12. /\ table' = Put(T, c.key, kept \cup {r}) /\ issued' = issued \cup {r}
       /\ released' = released /\ nextToken' = nextToken + 1 /\ clock' = clock
  BY <1>3, <1>4 DEF Reserve, Locked
<1>13. kept \cup {r} \in SUBSET Reservation
  BY <1>6, <1>10
<1> HIDE DEF T, kept, at, r
<1>14. IsTable(table') /\ \A j : Slots(table', j) =
          IF j = c.key THEN kept \cup {r} ELSE Slots(T, j)
  BY <1>1, <1>2, <1>12, <1>13, PutSlots
<1>15. /\ Slots(table', c.key) = kept \cup {r}
       /\ \A k \in Keys \ {c.key} :
             /\ Slots(table', k) \subseteq Slots(table, k)
             /\ Prune(Slots(table, k), c.current) \subseteq Slots(table', k)
  BY <1>2, <1>14
<1> QED
  BY <1>1, <1>6, <1>7, <1>8, <1>9, <1>10, <1>11, <1>12, <1>14, <1>15 DEF kept, at, r

LEMMA ReserveKeepsTable ==
  ASSUME RoundsToNearest(Int), IInv, NEW t \in Threads, Reserve(t)
  PROVE  TableExact' /\ TableWithinBudget'
<1> DEFINE c == call[t]
           kept == Prune(Slots(table, c.key), c.current)
           at == FirstLegalSlot(c.not_before, kept)
           r == [token |-> nextToken, key |-> c.key, at |-> at]
<1>1. /\ c.key \in Keys /\ c.current \in Nat /\ c.current <= clock
      /\ kept \in SUBSET issued /\ Timed(kept) /\ WithinBudget(kept)
      /\ at \in Nat /\ ~Forbidden(at, kept)
      /\ r \in Reservation /\ r \notin issued
      /\ issued' = issued \cup {r} /\ released' = released /\ clock' = clock
      /\ IsTable(table') /\ Slots(table', c.key) = kept \cup {r}
      /\ \A k \in Keys \ {c.key} :
            /\ Slots(table', k) \subseteq Slots(table, k)
            /\ Prune(Slots(table, k), c.current) \subseteq Slots(table', k)
  BY ReserveEffect
<1>2. r.at = at /\ r.key = c.key
  OBVIOUS
<1>3. kept \subseteq Slots(table, c.key)
  BY DEF Prune
<1>4. released \subseteq issued /\ \A q \in issued : q.at \in Nat
  BY DEF IInv, TypeOK, Reservation
<1>5. clock \in Nat /\ \A q \in issued : q.at > MinusPer(clock) => q.at > MinusPer(c.current)
  BY <1>1, <1>4, WindowsInOrder DEF IInv, TypeOK
<1>6. \A q \in Slots(table, c.key) : q.at > MinusPer(c.current) => q \in kept
  BY DEF Prune
<1> HIDE DEF c, kept, at, r
<1>7. ASSUME NEW k \in Keys
      PROVE  /\ Prune(Granted(k), clock)' \subseteq Slots(table', k)
             /\ Slots(table', k) \subseteq Granted(k)'
  <2>1. /\ \A q \in Granted(k) : q.at > MinusPer(clock) => q \in Slots(table, k)
        /\ Slots(table, k) \subseteq Granted(k)
    BY DEF IInv, TableExact, Prune
  <2>2. Granted(k) \subseteq issued
    BY DEF Granted
  <2>3. CASE k = c.key
    <3>1. Granted(k)' = Granted(k) \cup {r}
      BY <1>1, <1>2, <1>4, <2>3 DEF Granted
    <3>2. ASSUME NEW q \in Granted(k)', q.at > MinusPer(clock) PROVE q \in kept \cup {r}
      BY <1>5, <1>6, <2>1, <2>2, <2>3, <3>1, <3>2
    <3>3. kept \cup {r} \subseteq Granted(k)'
      BY <1>3, <2>1, <2>3, <3>1
    <3> QED BY <1>1, <2>3, <3>2, <3>3 DEF Prune
  <2>4. CASE k # c.key
    <3>1. Granted(k)' = Granted(k)
      BY <1>1, <1>2, <2>4 DEF Granted
    <3>2. ASSUME NEW q \in Granted(k), q.at > MinusPer(clock) PROVE q \in Slots(table', k)
      BY <1>1, <1>5, <2>1, <2>2, <2>4, <3>2 DEF Prune
    <3> QED BY <1>1, <2>1, <2>4, <3>1, <3>2 DEF Prune
  <2> QED BY <2>3, <2>4
<1>8. ASSUME NEW k \in DOMAIN table' PROVE WithinBudget(table'[k])
  <2>1. k \in Keys /\ table'[k] = Slots(table', k)
    BY <1>1 DEF IsTable, Slots
  <2>2. CASE k = c.key
    <3>1. WithinBudget(kept \cup {r})
      BY <1>1, <1>2, LegalSlotKeepsBudget
    <3> QED BY <1>1, <2>1, <2>2, <3>1
  <2>3. CASE k # c.key
    <3>1. Slots(table', k) \in SUBSET Slots(table, k)
      BY <1>1, <2>1, <2>3
    <3> QED BY <2>1, <3>1, SlotsWithinBudget, SubsetKeepsBudget
  <2> QED BY <2>2, <2>3
<1>9. TableExact'
  BY <1>7 DEF TableExact
<1>10. TableWithinBudget'
  BY <1>8 DEF TableWithinBudget, WithinBudget, Times, Window
<1> QED BY <1>9, <1>10

-----------------------------------------------------------------------------
\* Every step keeps the inductive invariant.

LEMMA CountOpTyped ==
  ASSUME TypeOK, CountOp
  PROVE  opCount' \in 0..(CleanupInterval - 1)
BY CallerAssumption DEF TypeOK, CountOp, Due

\* Reading the clock records a call and touches nothing else.
LEMMA BeginKeepsIInv ==
  ASSUME IInv, NEW t \in Threads, NEW c \in Call, Begin(t, c),
         c.current <= clock,
         c.op = "reserve" => c.current <= c.not_before,
         c.op = "release" => c.item \in issued
  PROVE  IInv'
<1>1. UNCHANGED <<clock, table, nextToken, opCount, issued, released>>
      /\ call' = [call EXCEPT ![t] = c]
  BY DEF Begin
<1>2. TypeOK'
  BY <1>1 DEF IInv, TypeOK
<1>3. PendingCalls'
  BY <1>1 DEF IInv, TypeOK, PendingCalls
<1>4. TokensUnique' /\ TableExact' /\ TableWithinBudget'
  BY <1>1 DEF IInv, TokensUnique, TableExact, TableWithinBudget, Granted,
              WithinBudget, Times, Window, Prune, Slots
<1> QED BY <1>2, <1>3, <1>4 DEF IInv

\* An operation that shrinks the table and releases what it removed.
LEMMA ShrinkKeepsIInv ==
  ASSUME RoundsToNearest(Int), IInv, NEW t \in Threads, NEW gone \in SUBSET issued,
         call[t].op # "none", call[t].current \in Nat,
         Shrinks(call[t].current, gone),
         call' = [call EXCEPT ![t] = NoCall], clock' = clock,
         issued' = issued, released' = released \cup gone,
         nextToken' = nextToken, opCount' \in 0..(CleanupInterval - 1)
  PROVE  IInv'
<1>1. call[t].current <= clock
  BY DEF IInv, PendingCalls
<1>2. TypeOK'
  BY DEF IInv, TypeOK, Shrinks, IsTable, Call
<1>3. PendingCalls'
  BY DEF IInv, TypeOK, PendingCalls, NoCall
<1>4. TokensUnique'
  BY DEF IInv, TokensUnique
<1>5. TableExact' /\ TableWithinBudget'
  BY <1>1, ShrinkKeepsTable
<1> QED BY <1>2, <1>3, <1>4, <1>5 DEF IInv

LEMMA StepKeepsIInv ==
  ASSUME RoundsToNearest(Int)
  PROVE  IInv /\ [Next]_vars => IInv'
<1> SUFFICES ASSUME IInv, [Next]_vars PROVE IInv'
  OBVIOUS
<1> USE DEF Locked
<1>1. CASE UNCHANGED vars
  BY <1>1 DEF vars, IInv, TypeOK, PendingCalls, TokensUnique, TableExact,
              TableWithinBudget, Granted, WithinBudget, Times, Window, Prune, Slots
<1>2. CASE Tick
  <2>1. TypeOK'
    BY <1>2 DEF Tick, IInv, TypeOK
  <2>2. PendingCalls'
    <3>1. ASSUME NEW t \in Threads, call[t].op # "none" PROVE call[t].current \in Nat
      BY <3>1, CallFields DEF IInv, TypeOK, Call, NoCall
    <3> QED BY <1>2, <3>1 DEF Tick, IInv, TypeOK, PendingCalls
  <2>3. TokensUnique' /\ TableWithinBudget'
    BY <1>2 DEF Tick, IInv, TokensUnique, TableWithinBudget, WithinBudget, Times, Window
  <2>4. TableExact'
    <3> SUFFICES ASSUME NEW k \in Keys
                 PROVE  /\ Prune(Granted(k), clock)' \subseteq Slots(table', k)
                        /\ Slots(table', k) \subseteq Granted(k)'
      BY DEF TableExact
    <3>1. Granted(k)' = Granted(k) /\ Slots(table', k) = Slots(table, k)
      BY <1>2 DEF Tick, Granted, Slots
    <3>2. Prune(Granted(k), clock)' \subseteq Prune(Granted(k), clock)
      <4>1. clock' = clock + 1 /\ clock \in Nat /\ \A r \in Granted(k) : r.at \in Nat
        BY <1>2 DEF Tick, IInv, TypeOK, Granted, Reservation
      <4>2. MinusPer(clock) \in Int /\ MinusPer(clock + 1) \in Int
            /\ MinusPer(clock) <= MinusPer(clock + 1)
        BY <4>1, WindowsInOrder
      <4> QED BY <3>1, <4>1, <4>2 DEF Prune
    <3> QED BY <3>1, <3>2 DEF IInv, TableExact
  <2> QED BY <2>1, <2>2, <2>3, <2>4 DEF IInv
<1>3. ASSUME NEW t \in Threads, BeginReserve(t) PROVE IInv'
  <2>1. PICK k \in Keys, d \in Delays :
          Begin(t, [op |-> "reserve", key |-> k, current |-> clock,
                    not_before |-> clock + d])
    BY <1>3 DEF BeginReserve
  <2>2. clock \in Nat /\ d \in Nat
    BY CallerAssumption DEF IInv, TypeOK
  <2> DEFINE c == [op |-> "reserve", key |-> k, current |-> clock,
                   not_before |-> clock + d]
  <2>3. c \in Call
    BY <2>2 DEF Call
  <2> QED BY <2>1, <2>2, <2>3, BeginKeepsIInv
<1>4. ASSUME NEW t \in Threads, BeginRelease(t) PROVE IInv'
  <2>1. PICK r \in issued : Begin(t, [op |-> "release", item |-> r, current |-> clock])
    BY <1>4 DEF BeginRelease
  <2>2. clock \in Nat /\ r \in Reservation
    BY DEF IInv, TypeOK
  <2>3. [op |-> "release", item |-> r, current |-> clock] \in Call
    BY <2>2 DEF Call
  <2> QED BY <2>1, <2>2, <2>3, BeginKeepsIInv
<1>5. ASSUME NEW t \in Threads, BeginSnapshot(t) PROVE IInv'
  <2>1. PICK k \in Keys : Begin(t, [op |-> "snapshot", key |-> k, current |-> clock])
    BY <1>5 DEF BeginSnapshot
  <2>2. clock \in Nat
    BY DEF IInv, TypeOK
  <2>3. [op |-> "snapshot", key |-> k, current |-> clock] \in Call
    BY <2>2 DEF Call
  <2> QED BY <2>1, <2>2, <2>3, BeginKeepsIInv
<1>6. ASSUME NEW t \in Threads, BeginCleanup(t) PROVE IInv'
  <2>1. clock \in Nat
    BY DEF IInv, TypeOK
  <2>2. [op |-> "cleanup", current |-> clock] \in Call
    BY <2>1 DEF Call
  <2> QED BY <1>6, <2>1, <2>2, BeginKeepsIInv DEF BeginCleanup
<1>7. ASSUME NEW t \in Threads, Reserve(t) PROVE IInv'
  <2> DEFINE r == [token |-> nextToken, key |-> call[t].key,
                   at |-> FirstLegalSlot(call[t].not_before,
                            Prune(Slots(table, call[t].key), call[t].current))]
  <2>1. /\ r \in Reservation /\ issued' = issued \cup {r} /\ released' = released
        /\ nextToken' = nextToken + 1 /\ clock' = clock /\ IsTable(table')
    BY <1>7, ReserveEffect
  <2>2. call' = [call EXCEPT ![t] = NoCall]
    BY <1>7 DEF Reserve
  <2>3. opCount' \in 0..(CleanupInterval - 1)
    BY <1>7, CountOpTyped DEF Reserve, IInv
  <2>4. r.token = nextToken
    OBVIOUS
  <2> HIDE DEF r
  <2>5. TypeOK'
    BY <2>1, <2>2, <2>3 DEF IInv, TypeOK, IsTable, Call
  <2>6. PendingCalls'
    BY <2>1, <2>2 DEF IInv, TypeOK, PendingCalls, NoCall
  <2>7. TokensUnique'
    <3>1. IsFiniteSet(issued \cup {r})
      BY FS_AddElement DEF IInv, TokensUnique
    <3>2. nextToken \in Nat /\ \A q \in issued : q.token \in Nat
      BY DEF IInv, TypeOK, Reservation
    <3> QED BY <2>1, <2>4, <3>1, <3>2 DEF IInv, TokensUnique
  <2> QED BY <1>7, <2>5, <2>6, <2>7, ReserveKeepsTable DEF IInv
<1>8. ASSUME NEW t \in Threads, Release(t) PROVE IInv'
  <2>1. Shrinks(call[t].current, {call[t].item})
    BY <1>8, ReleaseShrinks
  <2>2. {call[t].item} \in SUBSET issued
    BY <1>8 DEF Release, IInv, PendingCalls
  <2>3. call[t].current \in Nat /\ call[t].op # "none"
    BY <1>8, CallFields DEF Release, IInv, TypeOK
  <2>4. opCount' \in 0..(CleanupInterval - 1)
    BY <1>8, CountOpTyped DEF Release, IInv
  <2> QED BY <1>8, <2>1, <2>2, <2>3, <2>4, ShrinkKeepsIInv DEF Release
<1>9. ASSUME NEW t \in Threads, Snapshot(t) PROVE IInv'
  <2>1. Shrinks(call[t].current, {})
    BY <1>9, SnapshotShrinks
  <2>2. call[t].current \in Nat /\ call[t].op # "none"
    BY <1>9, CallFields DEF Snapshot, IInv, TypeOK
  <2>3. opCount' \in 0..(CleanupInterval - 1)
    BY <1>9, CountOpTyped DEF Snapshot, IInv
  <2>4. /\ {} \in SUBSET issued /\ released' = released \cup {}
        /\ call' = [call EXCEPT ![t] = NoCall]
        /\ UNCHANGED <<clock, issued, nextToken>>
    BY <1>9 DEF Snapshot
  <2> QED BY <2>1, <2>2, <2>3, <2>4, ShrinkKeepsIInv
<1>10. ASSUME NEW t \in Threads, Cleanup(t) PROVE IInv'
  <2>1. Shrinks(call[t].current, {})
    BY <1>10, CleanupShrinks
  <2>2. call[t].current \in Nat /\ call[t].op # "none"
    BY <1>10, CallFields DEF Cleanup, IInv, TypeOK
  <2>3. opCount' \in 0..(CleanupInterval - 1)
    BY <1>10 DEF Cleanup, IInv, TypeOK
  <2>4. /\ {} \in SUBSET issued /\ released' = released \cup {}
        /\ call' = [call EXCEPT ![t] = NoCall]
        /\ UNCHANGED <<clock, issued, nextToken>>
    BY <1>10 DEF Cleanup
  <2> QED BY <2>1, <2>2, <2>3, <2>4, ShrinkKeepsIInv
<1> QED
  BY <1>1, <1>2, <1>3, <1>4, <1>5, <1>6, <1>7, <1>8, <1>9, <1>10
     DEF Next, ThreadStep

LEMMA InductiveInvariant ==
  ASSUME RoundsToNearest(Int)
  PROVE  Spec => []IInv
BY InitIInv, StepKeepsIInv, PTL DEF Spec

\* The variables keep their types: in particular the operation counter always
\* stays below the cleanup interval.
THEOREM TypeCorrect ==
  ASSUME RoundsToNearest(Int)
  PROVE  Spec => []TypeOK
BY InductiveInvariant, PTL DEF IInv

\* No key of the table ever holds more than max_retries reservations in one
\* rolling window, whatever the threads do between reading the clock and
\* taking the lock.
THEOREM TableAlwaysWithinBudget ==
  ASSUME RoundsToNearest(Int)
  PROVE  Spec => []TableWithinBudget
BY InductiveInvariant, PTL DEF IInv

\* The table holds every unexpired granted reservation and none given back.
THEOREM TableIsExact ==
  ASSUME RoundsToNearest(Int)
  PROVE  Spec => []TableExact
BY InductiveInvariant, PTL DEF IInv

\* Windows that end now or later never hold more than max_retries of all the
\* granted reservations, even when threads act on stale clock readings.
THEOREM OpenWindowsWithinBudget ==
  ASSUME RoundsToNearest(Int)
  PROVE  Spec => []OpenWindowCapacity
<1>1. IInv => OpenWindowCapacity
  <2> SUFFICES ASSUME IInv, NEW k \in Keys, NEW e \in Times(Granted(k)), e >= clock
               PROVE  Cardinality(Window(Granted(k), e)) <= MaxRetries
    BY DEF OpenWindowCapacity
  <2> DEFINE S == Slots(table, k)
  <2>1. Timed(S) /\ WithinBudget(S)
    BY SlotsWithinBudget
  <2>2. e \in Int /\ clock \in Int /\ \A r \in Granted(k) : r.at \in Int
    BY DEF IInv, TypeOK, Granted, Reservation, Times
  <2>3. \A r \in Granted(k) : r.at > MinusPer(clock) => r \in S
    BY DEF IInv, TableExact, Prune
  <2>4. S \subseteq Granted(k)
    BY DEF IInv, TableExact
  <2> HIDE DEF S
  <2>5. e \in Times(S)
    BY <2>2, <2>3, WindowsInOrder DEF Times
  <2>6. Window(Granted(k), e) = Window(S, e)
    BY <2>2, <2>3, <2>4, WindowsInOrder DEF Window
  <2> QED BY <2>1, <2>5, <2>6 DEF WithinBudget
<1> QED BY <1>1, InductiveInvariant, PTL

\* The budget implements the ledger: every step of the threads is a step of it,
\* or changes nothing there.
THEOREM LedgerIsImplemented ==
  ASSUME RoundsToNearest(Int)
  PROVE  Spec => ImplementsLedger
<1> DEFINE out == issued \ released
<1>1. Init => Ledger!Init
  BY DEF Init, Ledger!Init
<1>2. ASSUME IInv, IInv', OpenWindowCapacity', [Next]_vars
      PROVE  [Ledger!Next]_(Ledger!vars)
  <2>1. CASE Tick
    BY <2>1 DEF Tick, Ledger!Next, Ledger!Tick
  <2>2. CASE clock' = clock /\ issued' = issued /\ released' = released
    BY <2>2 DEF Ledger!vars
  <2>3. ASSUME NEW t \in Threads, Release(t) PROVE [Ledger!Next]_(Ledger!vars)
    <3> DEFINE r == call[t].item
    <3>1. out' = out \ {r} /\ clock' = clock
      BY <2>3 DEF Release, Locked
    <3>2. CASE r \in out
      <4>1. Ledger!Return(r)
        BY <3>1 DEF Ledger!Return
      <4> QED BY <3>2, <4>1 DEF Ledger!Next
    <3>3. CASE r \notin out
      BY <3>1, <3>3 DEF Ledger!vars
    <3> QED BY <3>2, <3>3
  <2>4. ASSUME NEW t \in Threads, Reserve(t) PROVE Ledger!Next
    <3> DEFINE r == [token |-> nextToken, key |-> call[t].key,
                     at |-> FirstLegalSlot(call[t].not_before,
                              Prune(Slots(table, call[t].key), call[t].current))]
    <3>1. /\ call[t].key \in Keys /\ r \in Reservation /\ r \notin issued
          /\ issued' = issued \cup {r} /\ released' = released /\ clock' = clock
      BY <1>2, <2>4, ReserveEffect
    <3>2. r.key \in Keys /\ r.token = nextToken
      BY <3>1
    <3> HIDE DEF r
    <3>3. released \subseteq issued /\ nextToken \in Nat /\ clock \in Nat
          /\ \A s \in issued : s.token < nextToken /\ s.token \in Nat
      BY <1>2 DEF IInv, TypeOK, TokensUnique, Reservation
    <3>4. out' = out \cup {r}
      BY <3>1, <3>3
    <3>5. \A s \in out : s.token # r.token
      BY <3>2, <3>3
    <3> DEFINE R == {s \in out \cup {r} : s.key = r.key}
    <3>6. \A e \in Times(R) : e >= clock => Cardinality(Window(R, e)) <= MaxRetries
      <4>1. PICK k \in Keys : k = r.key
        BY <3>2
      <4>2. Granted(k)' = R
        BY <3>4, <4>1 DEF Granted
      <4>3. \A e \in Times(Granted(k)') :
               e >= clock' => Cardinality(Window(Granted(k)', e)) <= MaxRetries
        BY <1>2 DEF OpenWindowCapacity, Times, Window
      <4> QED BY <3>1, <4>2, <4>3
    <3>7. Ledger!Grant(r)
      <4>1. \A S : Ledger!Cardinality(S) = Cardinality(S)
        BY DEF Ledger!Cardinality, Cardinality
      <4>2. \A e \in Ledger!Times(R) :
               e >= clock => Ledger!Cardinality(Ledger!Window(R, e)) <= MaxRetries
        BY <3>6, <4>1 DEF Ledger!Times, Ledger!Window, Times, Window
      <4> QED BY <3>1, <3>2, <3>4, <3>5, <4>2 DEF Ledger!Grant
    <3>8. r \in out'
      BY <3>4
    <3> QED BY <3>7, <3>8 DEF Ledger!Next
  <2>5. ASSUME NEW t \in Threads, Snapshot(t) \/ Cleanup(t)
        PROVE  clock' = clock /\ issued' = issued /\ released' = released
    BY <2>5 DEF Snapshot, Cleanup, Locked
  <2> QED
    BY <1>2, <2>1, <2>2, <2>3, <2>4, <2>5
       DEF Next, ThreadStep, vars, Begin, BeginReserve, BeginRelease,
           BeginSnapshot, BeginCleanup
<1> QED
  BY <1>1, <1>2, InductiveInvariant, OpenWindowsWithinBudget, PTL
     DEF Spec, ImplementsLedger, Ledger!Spec

\* A step never takes a slot from the table but by its own release or expiry.
THEOREM OnlyOwnReleaseHolds ==
  ASSUME RoundsToNearest(Int)
  PROVE  Spec => OnlyOwnRelease
<1> DEFINE Lost(k) == \A r \in table[k] \ Slots(table', k) :
              \/ r.at <= MinusPer(clock)
              \/ \E t \in Threads : call[t].op = "release" /\ call[t].item = r
                                    /\ call'[t] = NoCall
           OwnOnly == \A k \in DOMAIN table : Lost(k)
<1>1. ASSUME IInv, NEW now \in Nat, now <= clock, NEW gone, Shrinks(now, gone),
             NEW k \in Keys, NEW r \in Slots(table, k), r \notin Slots(table', k)
      PROVE  r \in gone \/ r.at <= MinusPer(clock)
  <2>1. r.at \in Nat /\ clock \in Nat
    BY <1>1, TableTyped DEF IInv, TypeOK, Reservation
  <2>2. CASE r.at > MinusPer(now)
    BY <1>1, <2>2 DEF Shrinks, Prune
  <2> QED BY <1>1, <2>1, <2>2, WindowsInOrder
<1>2. ASSUME IInv, [Next]_vars PROVE OwnOnly
  <2> SUFFICES ASSUME NEW k \in DOMAIN table, NEW r \in table[k] \ Slots(table', k)
               PROVE  \/ r.at <= MinusPer(clock)
                      \/ \E t \in Threads : call[t].op = "release" /\ call[t].item = r
                                            /\ call'[t] = NoCall
    OBVIOUS
  <2>1. k \in Keys /\ r \in Slots(table, k) /\ r \notin Slots(table', k)
    BY <1>2 DEF IInv, TypeOK, Slots
  <2>2. CASE UNCHANGED table
    BY <2>1, <2>2 DEF Slots
  <2>3. ASSUME NEW t \in Threads, Reserve(t) PROVE r.at <= MinusPer(clock)
    <3>1. /\ call[t].current \in Nat /\ call[t].current <= clock
          /\ Prune(Slots(table, k), call[t].current) \subseteq Slots(table', k)
      <4>1. CASE k = call[t].key
        BY <1>2, <2>3, <4>1, ReserveEffect
      <4>2. CASE k # call[t].key
        BY <1>2, <2>1, <2>3, <4>2, ReserveEffect
      <4> QED BY <4>1, <4>2
    <3>2. r.at \in Nat /\ clock \in Nat
      BY <1>2, <2>1, TableTyped DEF IInv, TypeOK, Reservation
    <3>3. ~(r.at > MinusPer(call[t].current))
      BY <2>1, <3>1 DEF Prune
    <3> QED BY <3>1, <3>2, <3>3, WindowsInOrder
  <2>4. ASSUME NEW t \in Threads, Release(t)
        PROVE  r.at <= MinusPer(clock) \/ (call[t].op = "release" /\ call[t].item = r
                                       /\ call'[t] = NoCall)
    <3>1. call[t].op = "release" /\ call'[t] = NoCall
      BY <1>2, <2>4 DEF Release, Locked, IInv, TypeOK
    <3>2. call[t].current \in Nat /\ call[t].current <= clock
      BY <1>2, <3>1, CallFields DEF IInv, TypeOK, PendingCalls
    <3> QED BY <1>1, <1>2, <2>1, <2>4, <3>1, <3>2, ReleaseShrinks
  <2>5. ASSUME NEW t \in Threads, Snapshot(t) \/ Cleanup(t) PROVE r.at <= MinusPer(clock)
    <3>1. call[t].current \in Nat /\ call[t].current <= clock
      BY <1>2, <2>5, CallFields DEF Snapshot, Cleanup, Locked, IInv, TypeOK, PendingCalls
    <3>2. Shrinks(call[t].current, {})
      BY <1>2, <2>5, SnapshotShrinks, CleanupShrinks
    <3> QED BY <1>1, <1>2, <2>1, <3>1, <3>2
  <2> QED
    BY <1>2, <2>2, <2>3, <2>4, <2>5
       DEF Next, ThreadStep, vars, Tick, Begin, BeginReserve, BeginRelease,
           BeginSnapshot, BeginCleanup
<1> QED BY <1>2, InductiveInvariant, PTL DEF Spec, OnlyOwnRelease

\* _reserve never makes a caller wait longer than the budget requires: every
\* time between the one asked for and the one granted would overfill a window.
THEOREM SlotsAreEarliest ==
  ASSUME RoundsToNearest(Int)
  PROVE  Spec => EarliestSlot
<1> DEFINE Earliest(t) ==
      \A r \in issued' \ issued :
         /\ r.at >= call[t].not_before
         /\ \A m \in call[t].not_before..(r.at - 1) :
               ~WithinBudget(Prune(Slots(table, r.key), call[t].current)
                             \cup {[r EXCEPT !.at = m]})
<1>1. ASSUME IInv, NEW t \in Threads, Reserve(t) PROVE Earliest(t)
  <2> DEFINE kept == Prune(Slots(table, call[t].key), call[t].current)
             at == FirstLegalSlot(call[t].not_before, kept)
             s == [token |-> nextToken, key |-> call[t].key, at |-> at]
  <2> SUFFICES ASSUME NEW r \in issued' \ issued
               PROVE  /\ r.at >= call[t].not_before
                      /\ \A m \in call[t].not_before..(r.at - 1) :
                            ~WithinBudget(Prune(Slots(table, r.key), call[t].current)
                                          \cup {[r EXCEPT !.at = m]})
    OBVIOUS
  <2>1. /\ call[t].not_before \in Nat /\ kept \in SUBSET issued /\ Timed(kept)
        /\ at \in Nat /\ at >= call[t].not_before /\ issued' = issued \cup {s}
    BY <1>1, ReserveEffect
  <2>2. r = s
    BY <2>1
  <2>3. ASSUME NEW m \in call[t].not_before..(at - 1)
        PROVE  ~WithinBudget(kept \cup {[s EXCEPT !.at = m]})
    <3>1. m \in Int /\ call[t].not_before <= m /\ m < at
      BY <2>1
    <3>2. Forbidden(m, kept)
      BY <2>1, <3>1, FirstLegalSlotIsEarliest
    <3> DEFINE x == [s EXCEPT !.at = m]
    <3>3. x.at = m /\ x.token = nextToken
      OBVIOUS
    <3>4. x \notin kept
      BY <1>1, <2>1, <3>3 DEF IInv, TokensUnique, TypeOK
    <3> HIDE DEF x
    <3>5. ~WithinBudget(kept \cup {x})
      BY <2>1, <3>1, <3>2, <3>3, <3>4, ForbiddenOverfills
    <3> QED BY <3>5 DEF x
  <2> QED BY <2>1, <2>2, <2>3
<1>2. ASSUME IInv, [Next]_vars, NEW t \in Threads,
             call[t].op = "reserve", call'[t] = NoCall
      PROVE  Earliest(t)
  <2>1. call[t] # NoCall
    BY <1>2 DEF NoCall
  <2>2. ASSUME NEW u \in Threads, u # t, call' = [call EXCEPT ![u] = call'[u]]
        PROVE  FALSE
    BY <1>2, <2>1, <2>2 DEF IInv, TypeOK
  <2>3. CASE UNCHANGED call
    BY <1>2, <2>1, <2>3
  <2>4. ASSUME NEW u \in Threads, NEW c, Begin(u, c) PROVE FALSE
    BY <1>2, <2>1, <2>4 DEF Begin, IInv, TypeOK
  <2>5. ASSUME NEW u \in Threads, Reserve(u) PROVE Earliest(t)
    <3>1. u = t
      BY <1>2, <2>1, <2>5 DEF Reserve, Locked, IInv, TypeOK
    <3> QED BY <1>1, <1>2, <2>5, <3>1
  <2>6. ASSUME NEW u \in Threads, Release(u) \/ Snapshot(u) \/ Cleanup(u) PROVE FALSE
    BY <1>2, <2>1, <2>6 DEF Release, Snapshot, Cleanup, Locked, IInv, TypeOK
  <2> QED
    BY <1>2, <2>3, <2>4, <2>5, <2>6
       DEF Next, ThreadStep, vars, Tick, BeginReserve, BeginRelease,
           BeginSnapshot, BeginCleanup
<1>3. ASSUME IInv, [Next]_vars
      PROVE  \A t \in Threads : call[t].op = "reserve" /\ call'[t] = NoCall => Earliest(t)
  BY <1>2, <1>3
<1> QED BY <1>3, InductiveInvariant, PTL DEF Spec, EarliestSlot

-----------------------------------------------------------------------------
\* With one caller at a time (one thread, or one event loop) nothing can run
\* between a clock reading and the lock, and the budget keeps its promise in
\* full.

\* What the table has dropped is out of reach of every window a pending call
\* could still add to.
DroppedIsPast(t) ==
  call[t].op # "none" =>
     \A k \in Keys : \A r \in Granted(k) \ Slots(table, k) :
        r.at <= MinusPer(call[t].current)

LEMMA SoleCallerInv ==
  ASSUME RoundsToNearest(Int), NEW t, Threads = {t}
  PROVE  Spec => [](IInv /\ DroppedIsPast(t) /\ RollingCapacity)
<1> DEFINE Inv == IInv /\ DroppedIsPast(t) /\ RollingCapacity
<1>1. Init => DroppedIsPast(t) /\ RollingCapacity
  BY DEF Init, DroppedIsPast, RollingCapacity, Granted, WithinBudget, Times, NoCall
<1>2. ASSUME Inv, UNCHANGED <<table, call, issued, released>>
      PROVE  DroppedIsPast(t)' /\ RollingCapacity'
  BY <1>2 DEF DroppedIsPast, RollingCapacity, Granted, Slots, WithinBudget, Times, Window
<1>3. ASSUME Inv, NEW c, Begin(t, c), c.current = clock
      PROVE  DroppedIsPast(t)' /\ RollingCapacity'
  <2>1. UNCHANGED <<clock, table, issued, released>> /\ call'[t] = c
    BY <1>3 DEF Begin, IInv, TypeOK
  <2>2. RollingCapacity'
    BY <1>3, <2>1 DEF RollingCapacity, Granted, WithinBudget, Times, Window
  <2>3. ASSUME NEW k \in Keys, NEW r \in Granted(k) \ Slots(table, k)
        PROVE  r.at <= MinusPer(clock)
    <3>1. ~(r.at > MinusPer(clock))
      BY <1>3 DEF IInv, TableExact, Prune
    <3>2. r.at \in Nat /\ clock \in Nat
      BY <1>3 DEF IInv, TypeOK, Granted, Reservation
    <3> QED BY <3>1, <3>2, WindowsInOrder
  <2> QED BY <1>3, <2>1, <2>2, <2>3 DEF DroppedIsPast, Granted, Slots
<1>4. ASSUME Inv, Locked(t, "release") \/ Locked(t, "snapshot") \/ Locked(t, "cleanup"),
             issued' = issued, released \subseteq released'
      PROVE  DroppedIsPast(t)' /\ RollingCapacity'
  <2>1. call'[t].op = "none"
    BY <1>4 DEF Locked, IInv, TypeOK, NoCall
  <2>2. ASSUME NEW k \in Keys PROVE WithinBudget(Granted(k)')
    <3>1. Granted(k)' \in SUBSET Granted(k)
      BY <1>4 DEF Granted
    <3>2. Timed(Granted(k)) /\ WithinBudget(Granted(k))
      <4>1. Granted(k) \in SUBSET issued
        BY DEF Granted
      <4>2. Timed(Granted(k))
        BY <1>4, <4>1, FS_Subset DEF IInv, TokensUnique, TypeOK, Reservation, Timed
      <4> QED BY <1>4, <4>2 DEF RollingCapacity
    <3> QED BY <3>1, <3>2, SubsetKeepsBudget
  <2>3. RollingCapacity'
    BY <2>2 DEF RollingCapacity, WithinBudget, Times, Window
  <2> QED BY <2>1, <2>3 DEF DroppedIsPast
<1>5. ASSUME Inv, Reserve(t) PROVE DroppedIsPast(t)' /\ RollingCapacity'
  <2> DEFINE c == call[t]
             kept == Prune(Slots(table, c.key), c.current)
             at == FirstLegalSlot(c.not_before, kept)
             r == [token |-> nextToken, key |-> c.key, at |-> at]
  <2>1. /\ c.key \in Keys /\ c.current \in Nat /\ c.not_before \in Nat
        /\ c.current <= c.not_before
        /\ kept \in SUBSET issued /\ Timed(kept) /\ WithinBudget(kept)
        /\ at \in Nat /\ at >= c.not_before /\ ~Forbidden(at, kept)
        /\ r \notin issued /\ issued' = issued \cup {r} /\ released' = released
    BY <1>5, ReserveEffect
  <2>2. r.at = at /\ r.key = c.key /\ c.op # "none"
    BY <1>5 DEF Reserve, Locked
  <2>3. call'[t].op = "none"
    BY <1>5 DEF Reserve, Locked, IInv, TypeOK, NoCall
  <2>4. \A q \in Granted(c.key) : q.at > MinusPer(c.current) => q \in kept
    <3>1. \A q \in Granted(c.key) \ Slots(table, c.key) : q.at <= MinusPer(c.current)
      BY <1>5, <2>1, <2>2 DEF DroppedIsPast
    <3>2. \A q \in Granted(c.key) : q.at \in Nat
      BY <1>5 DEF IInv, TypeOK, Granted, Reservation
    <3> QED BY <2>1, <3>1, <3>2, WindowsInOrder DEF Prune
  <2>5. kept \subseteq Granted(c.key)
    BY <1>5, <2>1 DEF IInv, TableExact, Prune
  <2>6. WithinBudget(kept \cup {r})
    BY <2>1, <2>2, LegalSlotKeepsBudget
  <2>7. r \notin released /\ \A q \in issued : q.at \in Nat
    BY <1>5, <2>1 DEF IInv, TypeOK, Reservation
  <2> HIDE DEF c, kept, at, r
  <2>rigid. PICK key \in Keys : key = c.key  \* a name that does not change with call
    BY <2>1
  <2>8. ASSUME NEW k \in Keys, k # key PROVE WithinBudget(Granted(k)')
    <3>1. Granted(k)' = Granted(k)
      BY <2>1, <2>2, <2>rigid, <2>8 DEF Granted
    <3> QED BY <1>5, <3>1 DEF RollingCapacity
  <2>9. WithinBudget(Granted(key)')
    <3> DEFINE G == Granted(key)
    <3>1. Granted(key)' = G \cup {r}
      BY <2>1, <2>2, <2>7, <2>rigid DEF Granted
    <3>2. \A q \in G : q.at \in Nat
      BY <2>7 DEF Granted
    <3>3. WithinBudget(G)
      BY <1>5, <2>rigid DEF RollingCapacity
    <3> HIDE DEF G
    <3> SUFFICES ASSUME NEW e \in Times(G \cup {r})
                 PROVE  Cardinality(Window(G \cup {r}, e)) <= MaxRetries
      BY <3>1 DEF WithinBudget
    <3>4. e \in Nat
      BY <2>1, <2>2, <3>2 DEF Times
    <3>5. CASE MinusPer(e) < r.at /\ r.at <= e
      <4>1. MinusPer(e) >= MinusPer(c.current) /\ e > MinusPer(c.current)
        BY <2>1, <2>2, <3>4, <3>5, WindowsInOrder
      <4>2. Window(G \cup {r}, e) = Window(kept \cup {r}, e)
        BY <2>1, <2>4, <2>5, <2>rigid, <3>2, <3>4, <4>1, WindowsInOrder DEF Window, G
      <4>3. e \in Times(kept \cup {r})
        BY <2>4, <2>rigid, <4>1 DEF Times, G
      <4> QED BY <2>6, <4>2, <4>3 DEF WithinBudget
    <3>6. CASE ~(MinusPer(e) < r.at /\ r.at <= e)
      <4>1. Window(G \cup {r}, e) = Window(G, e)
        BY <3>6 DEF Window
      <4>2. e \in Times(G)
        BY <3>4, <3>6, WindowsInOrder DEF Times
      <4> QED BY <3>3, <4>1, <4>2 DEF WithinBudget
    <3> QED BY <3>5, <3>6
  <2>10. RollingCapacity'
    <3>1. \A k \in Keys : WithinBudget(Granted(k)')
      BY <2>8, <2>9
    <3> QED BY <3>1 DEF RollingCapacity, WithinBudget, Times, Window
  <2> QED BY <2>3, <2>10 DEF DroppedIsPast
<1>6. ASSUME Inv, [Next]_vars PROVE DroppedIsPast(t)' /\ RollingCapacity'
  <2>1. CASE UNCHANGED vars
    BY <1>2, <1>6, <2>1 DEF vars
  <2>2. CASE Tick
    BY <1>2, <1>6, <2>2 DEF Tick
  <2>3. CASE BeginReserve(t) \/ BeginRelease(t) \/ BeginSnapshot(t) \/ BeginCleanup(t)
    BY <1>3, <1>6, <2>3 DEF BeginReserve, BeginRelease, BeginSnapshot, BeginCleanup
  <2>4. CASE Reserve(t)
    BY <1>5, <1>6, <2>4
  <2>5. CASE Release(t) \/ Snapshot(t) \/ Cleanup(t)
    BY <1>4, <1>6, <2>5 DEF Release, Snapshot, Cleanup
  <2> QED BY <1>6, <2>1, <2>2, <2>3, <2>4, <2>5 DEF Next, ThreadStep
<1> QED
  <2>1. Inv /\ [Next]_vars => Inv'
    BY <1>6, StepKeepsIInv
  <2>2. Init => Inv
    BY <1>1, InitIInv
  <2> QED BY <2>1, <2>2, PTL DEF Spec

\* The promise of the budget for a single caller: of all reservations ever
\* granted and not released, no rolling window holds more than max_retries.
THEOREM SoleCallerCapacity ==
  ASSUME RoundsToNearest(Int), NEW t, Threads = {t}
  PROVE  Spec => []RollingCapacity
BY SoleCallerInv, PTL

=============================================================================
