--------------------------- MODULE RetrySystem_proofs ---------------------------
(***************************************************************************)
(* Theorems about executions that share a budget, for every number of      *)
(* them, every stop strategy attempts(n) | max_time(t), all delays and     *)
(* every clock that rounds to nearest.  What is known of the budget comes  *)
(* from its own theorems: the executions are shown to use it as it may be  *)
(* used, and its invariant is an invariant of the system.                  *)
(***************************************************************************)
EXTENDS RetrySystem, TLAPS

BudgetProofs == INSTANCE RetryBudget_proofs

-----------------------------------------------------------------------------
\* The budget of this module and the one of the theorems are the same.

LEMMA SameSlots ==
  /\ \A c, R : Budget!FirstLegalSlot(c, R) = BudgetProofs!FirstLegalSlot(c, R)
  /\ \A R, now : Budget!Prune(R, now) = BudgetProofs!Prune(R, now)
<1>1. /\ \A f : Budget!FirstSlotAfterWindow(f) = BudgetProofs!FirstSlotAfterWindow(f)
      /\ \A S : Budget!Cardinality(S) = BudgetProofs!Cardinality(S)
      /\ \A S : Budget!Min(S) = BudgetProofs!Min(S)
  BY DEF Budget!FirstSlotAfterWindow, BudgetProofs!FirstSlotAfterWindow, Budget!Min,
         BudgetProofs!Min, Budget!Cardinality, BudgetProofs!Cardinality
<1>2. \A c, R : Budget!Forbidden(c, R) <=> BudgetProofs!Forbidden(c, R)
  BY <1>1 DEF Budget!Forbidden, BudgetProofs!Forbidden
<1>3. \A c, R : Budget!LegalCandidates(c, R) = BudgetProofs!LegalCandidates(c, R)
  BY <1>1, <1>2 DEF Budget!LegalCandidates, BudgetProofs!LegalCandidates,
                    Budget!Candidates, BudgetProofs!Candidates
<1> QED BY <1>1, <1>3 DEF Budget!FirstLegalSlot, BudgetProofs!FirstLegalSlot,
                          Budget!Prune, BudgetProofs!Prune

LEMMA SameTable ==
  /\ \A T, k : Budget!Slots(T, k) = BudgetProofs!Slots(T, k)
  /\ \A T, k, R : Budget!Put(T, k, R) = BudgetProofs!Put(T, k, R)
  /\ \A T, k : Budget!Drop(T, k) = BudgetProofs!Drop(T, k)
  /\ \A T, now : Budget!CleanupExpiredKeys(T, now) = BudgetProofs!CleanupExpiredKeys(T, now)
  /\ \A now : Budget!MaybeCleanup(now) = BudgetProofs!MaybeCleanup(now)
  /\ Budget!CountOp <=> BudgetProofs!CountOp
  /\ \A t, op : Budget!Locked(t, op) <=> BudgetProofs!Locked(t, op)
<1>1. \A f, S : Budget!Restrict(f, S) = BudgetProofs!Restrict(f, S)
  BY DEF Budget!Restrict, BudgetProofs!Restrict
<1>2. \A T, now : Budget!CleanupExpiredKeys(T, now) = BudgetProofs!CleanupExpiredKeys(T, now)
  BY <1>1, SameSlots DEF Budget!CleanupExpiredKeys, BudgetProofs!CleanupExpiredKeys
<1> QED
  BY <1>1, <1>2
     DEF Budget!Slots, BudgetProofs!Slots, Budget!Put, BudgetProofs!Put, Budget!Drop,
         BudgetProofs!Drop, Budget!MaybeCleanup, BudgetProofs!MaybeCleanup, Budget!Due,
         BudgetProofs!Due, Budget!CountOp, BudgetProofs!CountOp, Budget!Locked,
         BudgetProofs!Locked, Budget!NoCall, BudgetProofs!NoCall

LEMMA SameBudget ==
  /\ Budget!Init => BudgetProofs!Init
  /\ [Budget!Next]_(Budget!vars) => [BudgetProofs!Next]_(BudgetProofs!vars)
  /\ Budget!Reservation = BudgetProofs!Reservation
<1>1. \A t, c : Budget!Begin(t, c) <=> BudgetProofs!Begin(t, c)
  BY DEF Budget!Begin, BudgetProofs!Begin, Budget!NoCall, BudgetProofs!NoCall
<1>2. ASSUME NEW t PROVE Budget!ThreadStep(t) => BudgetProofs!ThreadStep(t)
  <2>1. Budget!Reserve(t) => BudgetProofs!Reserve(t)
    <3>1. \A S : Budget!Max(S) = BudgetProofs!Max(S)
      BY DEF Budget!Max, BudgetProofs!Max
    <3> QED BY <3>1, SameSlots, SameTable DEF Budget!Reserve, BudgetProofs!Reserve
  <2>2. Budget!Release(t) => BudgetProofs!Release(t)
    <3>1. \A R, item : Budget!WithoutToken(R, item) = BudgetProofs!WithoutToken(R, item)
      BY DEF Budget!WithoutToken, BudgetProofs!WithoutToken
    <3> QED BY <3>1, SameTable DEF Budget!Release, BudgetProofs!Release
  <2>3. Budget!Snapshot(t) => BudgetProofs!Snapshot(t)
    BY SameSlots, SameTable DEF Budget!Snapshot, BudgetProofs!Snapshot
  <2>4. Budget!Cleanup(t) => BudgetProofs!Cleanup(t)
    BY SameSlots, SameTable DEF Budget!Cleanup, BudgetProofs!Cleanup
  <2> QED
    BY <1>1, <2>1, <2>2, <2>3, <2>4
       DEF Budget!ThreadStep, BudgetProofs!ThreadStep, Budget!BeginReserve,
           BudgetProofs!BeginReserve, Budget!BeginRelease, BudgetProofs!BeginRelease,
           Budget!BeginSnapshot, BudgetProofs!BeginSnapshot, Budget!BeginCleanup,
           BudgetProofs!BeginCleanup
<1>3. Budget!Tick => BudgetProofs!Tick
  BY DEF Budget!Tick, BudgetProofs!Tick
<1>4. Budget!Init => BudgetProofs!Init
  BY DEF Budget!Init, BudgetProofs!Init, Budget!NoCall, BudgetProofs!NoCall
<1> QED
  BY <1>2, <1>3, <1>4
     DEF Budget!Next, BudgetProofs!Next, Budget!vars, BudgetProofs!vars,
         Budget!Reservation, BudgetProofs!Reservation

-----------------------------------------------------------------------------
\* The inductive invariant.

PCs == {"new", "attempt", "calling", "planning", "reserving", "checking", "emitting",
        "sleeping", "releasing"} \cup Outcomes

Flow == [pc : PCs, attempt : Nat, startedAt : Nat, plan : {NoPlan} \cup Budget!Reservation,
         total : Int, wake : Int, next : {"exhausted", "raised"}]

FlowTypeOK == flow \in [Threads -> Flow] /\ used \subseteq issued

\* What is true of an execution whose record in flow is x.  It owns the reservation
\* of its plan from the grant until the attempt it pays for begins, or it is given
\* back.
Owns(x) ==
  \/ x.pc \in {"checking", "emitting", "sleeping", "releasing"}
  \/ x.pc = "attempt" /\ x.attempt > 0

\* A reservation that is owned is neither used nor given back.  An execution that
\* owns none has no plan, unless a stop strategy raised.
PlanOwned(x) ==
  IF Owns(x) THEN x.plan \in issued \ (released \cup used)
  ELSE \/ x.plan = NoPlan
       \/ x.pc = "raised" /\ StrategyMayRaise /\ x.plan \in issued

\* An execution that waits, or has waited, will not be early ...
WaitsLongEnough(x) ==
  /\ x.pc \in {"checking", "emitting"} => clock + x.total >= x.plan.at
  /\ x.pc = "sleeping" => x.wake >= x.plan.at
  /\ x.pc = "attempt" /\ x.attempt > 0 => clock >= x.plan.at

\* ... nor sleep for too long.
WaitsInTime(x) == x.pc = "sleeping" => ~ShouldStop(x.attempt, x.wake - x.startedAt)

\* A retry was granted only while attempts were left.
AttemptsLeft(x) ==
  /\ x.pc = "new" => x.attempt = 0
  /\ x.pc \in {"new", "attempt", "planning", "reserving", "checking", "emitting", "sleeping"}
       => x.attempt < MaxAttempts
  /\ x.pc \notin {"new", "attempt"} => x.attempt > 0

\* What is being released is the plan.
ReleasesPlan(x, c) == c.op = "release" => x.pc = "releasing" /\ c.item = x.plan

ExecutionInv(x, c) ==
  PlanOwned(x) /\ WaitsLongEnough(x) /\ WaitsInTime(x) /\ AttemptsLeft(x) /\ ReleasesPlan(x, c)

\* No reservation has two owners, and all that are out have one.
PlansDiffer ==
  \A e, f \in Threads : flow[e].plan = flow[f].plan /\ e # f => flow[e].plan = NoPlan
IssuedIsPlanned ==
  \A r \in issued \ (released \cup used) : \E e \in Threads : flow[e].plan = r

SysInv ==
  /\ FlowTypeOK /\ PlansDiffer /\ IssuedIsPlanned
  /\ \A e \in Threads : ExecutionInv(flow[e], call[e])

IInv == SysInv /\ BudgetProofs!IInv

\* What the proofs below use of the invariant of the budget.
LEMMA BudgetFacts ==
  ASSUME BudgetProofs!IInv
  PROVE  /\ clock \in Nat
         /\ issued \subseteq Budget!Reservation /\ released \subseteq issued
         /\ \A e \in Threads :
              call[e].op = "reserve" => call[e].current \in Nat /\ call[e].current <= clock
         /\ DOMAIN call = Threads
<1>1. /\ clock \in Nat /\ call \in [Threads -> BudgetProofs!Call]
      /\ issued \subseteq Budget!Reservation /\ released \subseteq issued
  BY SameBudget DEF BudgetProofs!IInv, BudgetProofs!TypeOK
<1>2. ASSUME NEW e \in Threads, call[e].op = "reserve"
      PROVE  call[e].current \in Nat /\ call[e].current <= clock
  <2>1. call[e] \in BudgetProofs!Call
    BY <1>1
  <2>2. call[e].current \in Nat
    BY <1>2, <2>1 DEF BudgetProofs!Call, BudgetProofs!NoCall
  <2> QED BY <1>2, <2>2 DEF BudgetProofs!IInv, BudgetProofs!PendingCalls
<1> QED BY <1>1, <1>2

\* No plan is the reservation of nothing.
LEMMA NoPlanIsNone == NoPlan \notin Budget!Reservation
BY DEF NoPlan, Budget!Reservation

LEMMA InitSysInv == Init => SysInv
<1> SUFFICES ASSUME Init PROVE SysInv
  OBVIOUS
<1>1. FlowTypeOK /\ PlansDiffer /\ IssuedIsPlanned
  BY DEF Init, Budget!Init, FlowTypeOK, Flow, PlansDiffer, IssuedIsPlanned, PCs
<1>2. ASSUME NEW e \in Threads PROVE ExecutionInv(flow[e], call[e])
  BY SystemAssumption
     DEF Init, Budget!Init, Budget!NoCall, ExecutionInv, PlanOwned, Owns, WaitsLongEnough,
         WaitsInTime, ReleasesPlan, AttemptsLeft
<1> QED BY <1>1, <1>2 DEF SysInv

-----------------------------------------------------------------------------
\* A step of the system is a step of the budget, or leaves it alone: an execution
\* releases only what was issued to it.
LEMMA StepUsesBudget ==
  ASSUME SysInv, BudgetProofs!IInv, [Next]_vars
  PROVE  [Budget!Next]_(Budget!vars)
<1>1. CASE UNCHANGED vars
  BY <1>1 DEF vars, budgetVars, Budget!vars
<1>2. CASE Tick
  BY <1>2 DEF Tick, Budget!Next
<1>3. ASSUME NEW e \in Threads, UNCHANGED budgetVars PROVE UNCHANGED Budget!vars
  BY <1>3 DEF budgetVars, Budget!vars
<1>4. ASSUME NEW e \in Threads, Plan(e) PROVE Budget!Next
  <2>1. KeyOf[e] \in Keys
    BY SystemAssumption
  <2>2. Budget!BeginReserve(e)
    BY <1>4, <2>1 DEF Plan, Budget!BeginReserve
  <2> QED BY <2>2 DEF Budget!Next, Budget!ThreadStep
<1>5. ASSUME NEW e \in Threads, BeginRelease(e) PROVE Budget!Next
  <2>1. flow[e].plan \in issued
    BY <1>5 DEF BeginRelease, SysInv, ExecutionInv, PlanOwned, Owns
  <2>2. Budget!BeginRelease(e)
    BY <1>5, <2>1 DEF BeginRelease, Budget!BeginRelease
  <2> QED BY <2>2 DEF Budget!Next, Budget!ThreadStep
<1>6. ASSUME NEW e \in Threads, Grant(e) \/ Release(e) PROVE Budget!Next
  BY <1>6 DEF Grant, Release, Budget!Next, Budget!ThreadStep
<1>7. ASSUME NEW e \in Threads, Step(e) PROVE [Budget!Next]_(Budget!vars)
  BY <1>3, <1>4, <1>5, <1>6, <1>7
     DEF Step, Work, Disturb, Start, BeginAttempt, EndAttempt, CheckSleep, Sleep, Wake,
         PlanRaises, BeforeSleepRaises, InterruptSleep
<1> QED BY <1>1, <1>2, <1>7 DEF Next, Terminated

-----------------------------------------------------------------------------
\* An execution keeps its part of the invariant while others work, as long as they
\* leave it its reservation.
LEMMA OthersKeepInv ==
  ASSUME BudgetProofs!IInv, NEW x \in Flow, NEW c, ExecutionInv(x, c),
         clock' \in Nat, clock' >= clock, issued \subseteq issued',
         Owns(x) => x.plan \in issued' \ (released' \cup used')
  PROVE  ExecutionInv(x, c)'
<1>1. clock \in Nat /\ (Owns(x) => x.plan \in Budget!Reservation)
  BY BudgetFacts DEF ExecutionInv, PlanOwned
<1>2. WaitsLongEnough(x)'
  BY <1>1 DEF ExecutionInv, WaitsLongEnough, Owns, Flow, Budget!Reservation
<1> QED BY <1>2 DEF ExecutionInv, PlanOwned, WaitsInTime, AttemptsLeft, ReleasesPlan

\* A step of execution e alone, without the budget: the invariant holds again if it
\* holds of e, which keeps its plan.
LEMMA QuietStep ==
  ASSUME SysInv, BudgetProofs!IInv, NEW e \in Threads, NEW g \in Flow,
         UNCHANGED <<budgetVars, used>>, flow' = [flow EXCEPT ![e] = g],
         g.plan = flow[e].plan, ExecutionInv(g, call[e])
  PROVE  SysInv'
<1>1. FlowTypeOK' /\ \A f \in Threads : flow'[f].plan = flow[f].plan
  BY DEF SysInv, FlowTypeOK, budgetVars
<1>2. PlansDiffer' /\ IssuedIsPlanned'
  BY <1>1 DEF SysInv, PlansDiffer, IssuedIsPlanned, budgetVars
<1>3. ASSUME NEW f \in Threads PROVE ExecutionInv(flow[f], call[f])'
  <2>1. flow'[f] \in Flow /\ ExecutionInv(flow'[f], call[f])
    BY DEF SysInv, FlowTypeOK
  <2> QED BY <2>1 DEF ExecutionInv, PlanOwned, WaitsLongEnough, WaitsInTime, AttemptsLeft,
                      ReleasesPlan, budgetVars
<1> QED BY <1>1, <1>2, <1>3 DEF SysInv

\* The steps of an execution that do not touch the budget.
LEMMA OwnStepKeepsInv ==
  ASSUME SysInv, BudgetProofs!IInv, NEW e \in Threads,
         \/ Start(e) \/ EndAttempt(e) \/ CheckSleep(e) \/ Sleep(e) \/ Wake(e)
         \/ PlanRaises(e) \/ BeforeSleepRaises(e) \/ InterruptSleep(e)
  PROVE  SysInv'
<1> DEFINE x == flow[e]
           After(g) == g \in Flow /\ g.plan = x.plan /\ ExecutionInv(g, call[e])
           Moved(pc) == [x EXCEPT !.pc = pc]
           Releasing(o) == [x EXCEPT !.pc = "releasing", !.next = o]
<1>1. /\ x \in Flow /\ ExecutionInv(x, call[e]) /\ clock \in Nat
      /\ Owns(x) => x.plan \in Budget!Reservation
  BY BudgetFacts DEF SysInv, FlowTypeOK, ExecutionInv, PlanOwned
<1> SUFFICES \E g : After(g) /\ flow' = [flow EXCEPT ![e] = g]
  BY QuietStep DEF Start, EndAttempt, CheckSleep, Sleep, Wake, PlanRaises,
                   BeforeSleepRaises, InterruptSleep
<1>2. ASSUME NEW pc \in PCs
      PROVE  /\ Moved(pc) \in Flow /\ Moved(pc).pc = pc /\ Moved(pc).plan = x.plan
             /\ Moved(pc).attempt = x.attempt /\ Moved(pc).total = x.total
             /\ Moved(pc).wake = x.wake /\ Moved(pc).startedAt = x.startedAt
  BY <1>1 DEF Flow
<1>3. ASSUME NEW o \in {"exhausted", "raised"}
      PROVE  /\ Releasing(o) \in Flow /\ Releasing(o).pc = "releasing"
             /\ Releasing(o).plan = x.plan /\ Releasing(o).attempt = x.attempt
  BY <1>1 DEF Flow, PCs
<1> USE DEF ExecutionInv, PlanOwned, Owns, WaitsLongEnough, WaitsInTime, AttemptsLeft,
            ReleasesPlan
<1>4. CASE Start(e)
  <2> DEFINE g == [x EXCEPT !.pc = "attempt", !.startedAt = clock]
  <2>1. /\ g \in Flow /\ g.pc = "attempt" /\ g.plan = x.plan /\ g.attempt = x.attempt
        /\ flow' = [flow EXCEPT ![e] = g]
    BY <1>1, <1>4 DEF Start, Flow, PCs
  <2> HIDE DEF g
  <2>2. After(g)
    BY <1>1, <1>4, <2>1 DEF Start
  <2> QED BY <2>1, <2>2
<1>5. CASE EndAttempt(e)
  <2>1. ASSUME NEW pc \in PCs, Goto(e, pc),
               \/ pc \in Outcomes
               \/ pc = "planning" /\ ~ShouldStop(x.attempt, Elapsed(e))
        PROVE  After(Moved(pc)) /\ flow' = [flow EXCEPT ![e] = Moved(pc)]
    <3>1. After(Moved(pc))
      BY <1>1, <1>2, <1>5, <2>1, SystemAssumption DEF EndAttempt, Outcomes, ShouldStop, Flow
    <3> QED BY <2>1, <3>1 DEF Goto
  <2>2. PICK pc \in Outcomes \cup {"planning"} :
          Goto(e, pc) /\ (pc = "planning" => ~ShouldStop(x.attempt, Elapsed(e)))
    BY <1>5 DEF EndAttempt, Outcomes
  <2> QED BY <2>1, <2>2 DEF PCs
<1>6. ASSUME NEW o \in {"exhausted", "raised"}, ReleaseThen(e, o),
             x.pc \in {"checking", "emitting", "sleeping"}
      PROVE  \E g : After(g) /\ flow' = [flow EXCEPT ![e] = g]
  <2>1. After(Releasing(o))
    BY <1>1, <1>3, <1>6
  <2> QED BY <1>6, <2>1 DEF ReleaseThen
<1>7. ASSUME NEW pc \in PCs, Goto(e, pc), After(Moved(pc))
      PROVE  \E g : After(g) /\ flow' = [flow EXCEPT ![e] = g]
  BY <1>7 DEF Goto
<1>8. CASE x.pc \in {"checking", "emitting"} /\ StrategyMayRaise /\ Goto(e, "raised")
  <2>1. "raised" \in PCs /\ After(Moved("raised"))
    BY <1>1, <1>2, <1>8 DEF PCs, Outcomes
  <2> QED BY <1>7, <1>8, <2>1
<1>9. CASE CheckSleep(e)
  <2>1. CASE ~SleepWouldStop(e) /\ Goto(e, "emitting")
    <3>1. "emitting" \in PCs /\ After(Moved("emitting"))
      BY <1>1, <1>2, <1>9 DEF CheckSleep, PCs
    <3> QED BY <1>7, <2>1, <3>1
  <2> QED BY <1>6, <1>8, <1>9, <2>1 DEF CheckSleep
<1>10. CASE Sleep(e)
  <2>1. CASE /\ ~SleepWouldStop(e)
             /\ flow' = [flow EXCEPT ![e].pc = "sleeping", ![e].wake = clock + flow[e].total]
    <3> DEFINE g == [x EXCEPT !.pc = "sleeping", !.wake = clock + flow[e].total]
    <3>a. flow' = [flow EXCEPT ![e] = g]
      BY <2>1
    <3>b. clock + x.total \in Int /\ "sleeping" \in PCs
      BY <1>1 DEF Flow, PCs
    <3>c. g \in Flow
      BY <1>1, <3>b DEF Flow
    <3>1. /\ g \in Flow /\ g.pc = "sleeping" /\ g.plan = x.plan /\ g.attempt = x.attempt
          /\ g.wake = clock + x.total /\ g.startedAt = x.startedAt
          /\ flow' = [flow EXCEPT ![e] = g]
      BY <1>1, <3>a, <3>c DEF Flow
    <3> HIDE DEF g
    <3>2. WaitsInTime(g)
      <4>1. g.wake - g.startedAt = Elapsed(e) + x.total
        BY <1>1, <3>1 DEF Elapsed, Flow
      <4> QED BY <2>1, <3>1, <4>1 DEF SleepWouldStop
    <3>3. WaitsLongEnough(g) /\ PlanOwned(g)
      BY <1>1, <1>10, <3>1 DEF Sleep
    <3>4. AttemptsLeft(g) /\ ReleasesPlan(g, call[e])
      BY <1>1, <1>10, <3>1 DEF Sleep
    <3> QED BY <3>1, <3>2, <3>3, <3>4
  <2> QED BY <1>6, <1>8, <1>10, <2>1 DEF Sleep
<1>11. CASE Wake(e)
  <2>1. x.plan.at \in Nat /\ x.wake \in Int
    BY <1>1, <1>11 DEF Wake, Budget!Reservation, Flow
  <2>2. "attempt" \in PCs /\ After(Moved("attempt"))
    BY <1>1, <1>2, <1>11, <2>1 DEF Wake, PCs
  <2> QED BY <1>7, <1>11, <2>2 DEF Wake
<1>12. CASE PlanRaises(e)
  <2>1. "raised" \in PCs /\ After(Moved("raised"))
    BY <1>1, <1>2, <1>12 DEF PlanRaises, PCs, Outcomes
  <2> QED BY <1>7, <1>12, <2>1 DEF PlanRaises
<1>13. CASE BeforeSleepRaises(e) \/ InterruptSleep(e)
  BY <1>6, <1>13 DEF BeforeSleepRaises, InterruptSleep
<1> QED BY <1>4, <1>5, <1>9, <1>10, <1>11, <1>12, <1>13

\* A step of execution e, of the budget too: the others keep their part if nobody
\* else's reservation is taken from them.
LEMMA BudgetStep ==
  ASSUME SysInv, BudgetProofs!IInv, BudgetProofs!IInv', NEW e \in Threads, NEW g \in Flow,
         NEW c, flow' = [flow EXCEPT ![e] = g], call'[e] = c, clock' = clock,
         \A f \in Threads \ {e} : call'[f] = call[f],
         issued \subseteq issued', used' \subseteq issued',
         (released' \cup used') \ (released \cup used) \subseteq {flow[e].plan},
         ExecutionInv(g, c)'
  PROVE  FlowTypeOK' /\ \A f \in Threads : ExecutionInv(flow[f], call[f])'
<1>1. FlowTypeOK'
  BY DEF SysInv, FlowTypeOK
<1>2. ASSUME NEW f \in Threads, f # e PROVE ExecutionInv(flow[f], call[f])'
  <2>1. flow'[f] = flow[f] /\ call'[f] = call[f] /\ flow[f] \in Flow /\ clock \in Nat
    BY <1>2, BudgetFacts DEF SysInv, FlowTypeOK
  <2>2. ExecutionInv(flow[f], call[f])
    BY DEF SysInv
  <2>3. Owns(flow[f]) => flow[f].plan # flow[e].plan
    <3>1. Owns(flow[f]) => flow[f].plan \in Budget!Reservation
      BY <2>2, BudgetFacts DEF ExecutionInv, PlanOwned
    <3> QED BY <1>2, <3>1, NoPlanIsNone DEF SysInv, PlansDiffer
  <2>4. Owns(flow[f]) => flow[f].plan \in issued' \ (released' \cup used')
    BY <2>2, <2>3 DEF ExecutionInv, PlanOwned
  <2>5. PICK x, d : x \in Flow /\ x = flow[f] /\ d = call[f]
    BY <2>1
  <2>6. ExecutionInv(x, d)'
    BY <2>1, <2>2, <2>4, <2>5, OthersKeepInv
  <2> QED BY <2>1, <2>5, <2>6 DEF ExecutionInv, PlanOwned, WaitsLongEnough, WaitsInTime,
                                  AttemptsLeft, ReleasesPlan
<1>3. ExecutionInv(flow[e], call[e])'
  <2>1. flow'[e] = g /\ call'[e] = c
    BY DEF SysInv, FlowTypeOK
  <2> QED BY <2>1 DEF ExecutionInv, PlanOwned, WaitsLongEnough, WaitsInTime,
                      AttemptsLeft, ReleasesPlan
<1> QED BY <1>1, <1>2, <1>3

LEMMA TickKeepsInv ==
  ASSUME SysInv, BudgetProofs!IInv, BudgetProofs!IInv', Tick
  PROVE  SysInv'
<1>1. clock \in Nat /\ clock' = clock + 1 /\ UNCHANGED <<flow, used, call, issued, released>>
  BY BudgetFacts DEF Tick, Budget!Tick
<1>2. FlowTypeOK' /\ PlansDiffer' /\ IssuedIsPlanned'
  BY <1>1 DEF SysInv, FlowTypeOK, PlansDiffer, IssuedIsPlanned
<1>3. ASSUME NEW f \in Threads PROVE ExecutionInv(flow[f], call[f])'
  <2>1. PICK x, c : x \in Flow /\ x = flow[f] /\ c = call[f]
    BY DEF SysInv, FlowTypeOK
  <2>2. ExecutionInv(x, c) /\ (Owns(x) => x.plan \in issued \ (released \cup used))
    BY <2>1 DEF SysInv, ExecutionInv, PlanOwned
  <2>3. ExecutionInv(x, c)'
    BY <1>1, <2>1, <2>2, OthersKeepInv
  <2> QED BY <1>1, <2>1, <2>3 DEF ExecutionInv, PlanOwned, WaitsLongEnough, WaitsInTime,
                                  AttemptsLeft, ReleasesPlan
<1> QED BY <1>2, <1>3 DEF SysInv

\* The attempt that a reservation paid for begins.
LEMMA BeginAttemptKeepsInv ==
  ASSUME SysInv, BudgetProofs!IInv, BudgetProofs!IInv', NEW e \in Threads, BeginAttempt(e)
  PROVE  SysInv'
<1> DEFINE x == flow[e]
<1>1. PICK pc \in {"calling", "raised"} :
        flow' = [flow EXCEPT ![e].pc = pc, ![e].attempt = @ + 1, ![e].plan = NoPlan]
  BY DEF BeginAttempt
<1>2. /\ x \in Flow /\ ExecutionInv(x, call[e]) /\ x.pc = "attempt"
      /\ UNCHANGED <<clock, call, issued, released>> /\ used' = used \cup ({x.plan} \ {NoPlan})
  BY DEF BeginAttempt, budgetVars, SysInv, FlowTypeOK
<1>3. PICK g, c :
        /\ g \in Flow /\ g.pc = pc /\ g.attempt = x.attempt + 1 /\ g.plan = NoPlan /\ x.attempt \in Nat
        /\ flow' = [flow EXCEPT ![e] = g] /\ c = call[e]
  <2> DEFINE h == [x EXCEPT !.pc = pc, !.attempt = @ + 1, !.plan = NoPlan]
  <2>1. x.attempt \in Nat /\ x.attempt + 1 \in Nat /\ pc \in PCs
    BY <1>2 DEF Flow, PCs, Outcomes
  <2>2. h \in Flow /\ h.pc = pc /\ h.attempt = x.attempt + 1 /\ h.plan = NoPlan
    BY <1>2, <2>1 DEF Flow
  <2>3. flow' = [flow EXCEPT ![e] = h]
    BY <1>1
  <2> HIDE DEF h
  <2> QED BY <2>1, <2>2, <2>3
<1>4. x.plan = NoPlan \/ x.plan \in issued \ (released \cup used)
  BY <1>2 DEF ExecutionInv, PlanOwned, Owns
<1>5. ExecutionInv(g, c)'
  BY <1>2, <1>3 DEF ExecutionInv, PlanOwned, Owns, WaitsLongEnough, WaitsInTime, AttemptsLeft,
                    ReleasesPlan
<1>6. FlowTypeOK' /\ \A f \in Threads : ExecutionInv(flow[f], call[f])'
  <2>1. used' \subseteq issued'
    BY <1>2, <1>4 DEF SysInv, FlowTypeOK
  <2> QED BY <1>2, <1>3, <1>5, <2>1, BudgetStep
<1>7. \A f \in Threads : flow'[f] = IF f = e THEN g ELSE flow[f]
  BY <1>3 DEF SysInv, FlowTypeOK
<1>8. PlansDiffer'
  BY <1>3, <1>7 DEF SysInv, PlansDiffer
<1>9. IssuedIsPlanned'
  <2> SUFFICES ASSUME NEW r \in issued \ (released \cup used'), r # x.plan
               PROVE  \E f \in Threads : flow'[f].plan = r
    BY <1>2, NoPlanIsNone, BudgetFacts DEF IssuedIsPlanned
  <2>1. PICK f \in Threads : flow[f].plan = r
    BY <1>2 DEF SysInv, IssuedIsPlanned
  <2> QED BY <1>7, <2>1
<1> QED BY <1>6, <1>8, <1>9 DEF SysInv

\* A step that begins a call of the budget: nothing is planned or given back yet.
LEMMA CallStep ==
  ASSUME SysInv, BudgetProofs!IInv, BudgetProofs!IInv', NEW e \in Threads, NEW g \in Flow,
         NEW c, Budget!Begin(e, c), UNCHANGED used, flow' = [flow EXCEPT ![e] = g],
         g.plan = flow[e].plan, ExecutionInv(g, c)
  PROVE  SysInv'
<1>1. /\ UNCHANGED <<clock, issued, released, used>> /\ call' = [call EXCEPT ![e] = c]
      /\ DOMAIN call = Threads
  BY BudgetFacts DEF Budget!Begin
<1>2. ExecutionInv(g, c)'
  BY <1>1 DEF ExecutionInv, PlanOwned, Owns, WaitsLongEnough, WaitsInTime, AttemptsLeft,
              ReleasesPlan
<1>3. FlowTypeOK' /\ \A f \in Threads : ExecutionInv(flow[f], call[f])'
  BY <1>1, <1>2, BudgetStep DEF SysInv, FlowTypeOK
<1>4. PlansDiffer' /\ IssuedIsPlanned'
  BY <1>1 DEF SysInv, FlowTypeOK, PlansDiffer, IssuedIsPlanned
<1> QED BY <1>3, <1>4 DEF SysInv

LEMMA PlanKeepsInv ==
  ASSUME SysInv, BudgetProofs!IInv, BudgetProofs!IInv', NEW e \in Threads, Plan(e)
  PROVE  SysInv'
<1> DEFINE x == flow[e]
           g == [x EXCEPT !.pc = "reserving"]
<1>1. PICK c : c.op = "reserve" /\ Budget!Begin(e, c)
  BY DEF Plan
<1>2. x \in Flow /\ ExecutionInv(x, call[e]) /\ x.pc = "planning" /\ UNCHANGED used
  BY DEF Plan, SysInv, FlowTypeOK
<1>3. /\ g \in Flow /\ g.pc = "reserving" /\ g.plan = x.plan /\ g.attempt = x.attempt
      /\ flow' = [flow EXCEPT ![e] = g]
  BY <1>2 DEF Plan, Goto, Flow, PCs
<1> HIDE DEF g
<1>4. ExecutionInv(g, c)
  BY <1>1, <1>2, <1>3 DEF ExecutionInv, PlanOwned, Owns, WaitsLongEnough, WaitsInTime,
                          AttemptsLeft, ReleasesPlan
<1> QED BY <1>1, <1>2, <1>3, <1>4, CallStep

LEMMA BeginReleaseKeepsInv ==
  ASSUME SysInv, BudgetProofs!IInv, BudgetProofs!IInv', NEW e \in Threads, BeginRelease(e)
  PROVE  SysInv'
<1> DEFINE x == flow[e]
           c == [op |-> "release", item |-> x.plan, current |-> clock]
<1>1. /\ x \in Flow /\ ExecutionInv(x, call[e]) /\ x.pc = "releasing" /\ Budget!Begin(e, c)
      /\ flow' = [flow EXCEPT ![e] = x] /\ UNCHANGED used
  BY DEF BeginRelease, SysInv, FlowTypeOK
<1>2. ExecutionInv(x, c)
  BY <1>1 DEF ExecutionInv, ReleasesPlan
<1> HIDE DEF x, c
<1> QED BY <1>1, <1>2, CallStep DEF x

\* The budget has granted a reservation, a fresh one: it becomes the plan.
LEMMA GrantKeepsInv ==
  ASSUME SysInv, BudgetProofs!IInv, BudgetProofs!IInv', NEW e \in Threads, Grant(e)
  PROVE  SysInv'
<1> DEFINE x == flow[e]
<1>1. PICK r \in issued' \ issued :
        flow' = [flow EXCEPT ![e].plan = r, ![e].total = r.at - call[e].current,
                             ![e].pc = IF r.at - call[e].current > MaxSleep
                                       THEN "releasing" ELSE "checking",
                             ![e].next = "exhausted"]
  BY DEF Grant
<1>2. /\ x \in Flow /\ ExecutionInv(x, call[e]) /\ x.pc = "reserving" /\ DOMAIN call = Threads
      /\ clock \in Nat /\ call[e].current \in Nat /\ call[e].current <= clock
  BY BudgetFacts DEF Grant, Budget!Reserve, Budget!Locked, SysInv, FlowTypeOK
<1>3. PICK s : issued' = issued \cup {s}
  BY DEF Grant, Budget!Reserve
<1>4. /\ issued' = issued \cup {r} /\ UNCHANGED <<clock, released, used>>
      /\ call' = [call EXCEPT ![e] = Budget!NoCall]
  BY <1>3 DEF Grant, Budget!Reserve, Budget!Locked
<1>5. r \in Budget!Reservation /\ r.at \in Nat
  <2>1. BudgetProofs!IInv' => issued' \subseteq BudgetProofs!Reservation
    BY DEF BudgetProofs!IInv, BudgetProofs!TypeOK, BudgetProofs!Reservation
  <2> QED BY <2>1, SameBudget DEF Budget!Reservation
<1> DEFINE total == r.at - call[e].current
           g == [x EXCEPT !.plan = r, !.total = total, !.next = "exhausted",
                          !.pc = IF total > MaxSleep THEN "releasing" ELSE "checking"]
<1>6. total \in Int /\ clock + total >= r.at
  BY <1>2, <1>5
<1>7. PICK h, c :
        /\ h \in Flow /\ h.pc \in {"releasing", "checking"} /\ h.plan = r /\ clock + h.total >= r.at
        /\ h.attempt = x.attempt /\ flow' = [flow EXCEPT ![e] = h] /\ c = Budget!NoCall
  <2>1. /\ g \in Flow /\ g.pc \in {"releasing", "checking"} /\ g.plan = r /\ g.total = total
        /\ g.attempt = x.attempt
    BY <1>2, <1>5, <1>6 DEF Flow, PCs
  <2>2. flow' = [flow EXCEPT ![e] = g]
    BY <1>1
  <2> HIDE DEF g, total
  <2> QED BY <1>6, <2>1, <2>2
<1>8. /\ call'[e] = c /\ \A f \in Threads \ {e} : call'[f] = call[f]
  BY <1>2, <1>4, <1>7
<1>9. r \notin issued' \ {r} /\ r \notin released \cup used
  BY <1>1, BudgetFacts DEF SysInv, FlowTypeOK
<1>10. ExecutionInv(h, c)'
  <2>1. PlanOwned(h)'
    BY <1>4, <1>7, <1>9 DEF PlanOwned, Owns
  <2>2. WaitsLongEnough(h)' /\ WaitsInTime(h)'
    BY <1>4, <1>7 DEF WaitsLongEnough, WaitsInTime
  <2>3. AttemptsLeft(h)'
    BY <1>2, <1>7 DEF ExecutionInv, AttemptsLeft
  <2>4. ReleasesPlan(h, c)'
    BY <1>7 DEF ReleasesPlan, Budget!NoCall
  <2> QED BY <2>1, <2>2, <2>3, <2>4 DEF ExecutionInv
<1>11. FlowTypeOK' /\ \A f \in Threads : ExecutionInv(flow[f], call[f])'
  <2>1. /\ issued \subseteq issued' /\ used' \subseteq issued'
        /\ (released' \cup used') \ (released \cup used) \subseteq {flow[e].plan}
    BY <1>4 DEF SysInv, FlowTypeOK
  <2> QED BY <1>4, <1>7, <1>8, <1>10, <2>1, BudgetStep
<1>12. \A f \in Threads : flow'[f] = IF f = e THEN h ELSE flow[f]
  BY <1>7 DEF SysInv, FlowTypeOK
<1>13. x.plan = NoPlan
  BY <1>2 DEF ExecutionInv, PlanOwned, Owns
<1>14. \A f \in Threads : flow[f].plan # r
  <2> SUFFICES ASSUME NEW f \in Threads, flow[f].plan = r PROVE FALSE
    OBVIOUS
  <2>1. r = NoPlan
    BY <1>1 DEF SysInv, ExecutionInv, PlanOwned
  <2> QED BY <1>5, <2>1, NoPlanIsNone
<1>15. PlansDiffer'
  BY <1>7, <1>12, <1>14 DEF SysInv, PlansDiffer
<1>16. IssuedIsPlanned'
  <2> SUFFICES ASSUME NEW q \in issued' \ (released \cup used)
               PROVE  \E f \in Threads : flow'[f].plan = q
    BY <1>4 DEF IssuedIsPlanned
  <2>1. CASE q = r
    BY <1>7, <1>12, <2>1
  <2>2. CASE q # r
    <3>1. PICK f \in Threads : flow[f].plan = q
      BY <1>4, <2>2 DEF SysInv, IssuedIsPlanned
    <3>2. q # NoPlan
      BY <1>4, <2>2, NoPlanIsNone, BudgetFacts
    <3> QED BY <1>12, <1>13, <3>1, <3>2
  <2> QED BY <2>1, <2>2
<1> QED BY <1>11, <1>15, <1>16 DEF SysInv

\* The reservation is given back: nobody owns it any more.
LEMMA ReleaseKeepsInv ==
  ASSUME SysInv, BudgetProofs!IInv, BudgetProofs!IInv', NEW e \in Threads, Release(e)
  PROVE  SysInv'
<1> DEFINE x == flow[e]
<1>1. /\ x \in Flow /\ ExecutionInv(x, call[e]) /\ DOMAIN call = Threads
      /\ call[e].op = "release" /\ x.pc = "releasing"
      /\ flow' = [flow EXCEPT ![e].pc = x.next, ![e].plan = NoPlan]
  BY BudgetFacts DEF Release, Budget!Release, Budget!Locked, SysInv, FlowTypeOK
<1>2. /\ x.plan \in issued \ (released \cup used) /\ call[e].item = x.plan /\ x.attempt > 0
  BY <1>1 DEF ExecutionInv, PlanOwned, Owns, ReleasesPlan, AttemptsLeft
<1>3. /\ UNCHANGED <<clock, issued, used>> /\ released' = released \cup {x.plan}
      /\ call' = [call EXCEPT ![e] = Budget!NoCall]
  BY <1>2 DEF Release, Budget!Release, Budget!Locked
<1>4. PICK g, c :
        /\ g \in Flow /\ g.pc \in {"exhausted", "raised"} /\ g.plan = NoPlan /\ g.attempt > 0
        /\ flow' = [flow EXCEPT ![e] = g] /\ c = Budget!NoCall
  <2> DEFINE h == [x EXCEPT !.pc = x.next, !.plan = NoPlan]
  <2>1. x.next \in {"exhausted", "raised"} /\ x.next \in PCs
    BY <1>1 DEF Flow, PCs, Outcomes
  <2>2. h \in Flow /\ h.pc = x.next /\ h.plan = NoPlan /\ h.attempt = x.attempt
    BY <1>1, <2>1 DEF Flow
  <2>3. flow' = [flow EXCEPT ![e] = h]
    BY <1>1
  <2> HIDE DEF h
  <2> QED BY <1>2, <2>1, <2>2, <2>3
<1>5. ExecutionInv(g, c)'
  BY <1>4 DEF ExecutionInv, PlanOwned, Owns, WaitsLongEnough, WaitsInTime, AttemptsLeft,
              ReleasesPlan, Budget!NoCall
<1>6. FlowTypeOK' /\ \A f \in Threads : ExecutionInv(flow[f], call[f])'
  <2>1. /\ call'[e] = c /\ \A f \in Threads \ {e} : call'[f] = call[f]
        /\ issued \subseteq issued' /\ used' \subseteq issued'
        /\ (released' \cup used') \ (released \cup used) \subseteq {flow[e].plan}
    BY <1>1, <1>3, <1>4 DEF SysInv, FlowTypeOK
  <2> QED BY <1>3, <1>4, <1>5, <2>1, BudgetStep
<1>7. \A f \in Threads : flow'[f] = IF f = e THEN g ELSE flow[f]
  BY <1>4 DEF SysInv, FlowTypeOK
<1>8. PlansDiffer'
  BY <1>4, <1>7 DEF SysInv, PlansDiffer
<1>9. IssuedIsPlanned'
  <2> SUFFICES ASSUME NEW r \in issued \ (released' \cup used), r # x.plan
               PROVE  \E f \in Threads : flow'[f].plan = r
    BY <1>3 DEF IssuedIsPlanned
  <2>1. PICK f \in Threads : flow[f].plan = r
    BY <1>3 DEF SysInv, IssuedIsPlanned
  <2> QED BY <1>7, <2>1
<1> QED BY <1>6, <1>8, <1>9 DEF SysInv

-----------------------------------------------------------------------------
\* The invariant is inductive: the step of the budget keeps the budget's part, and
\* with that every step of the system keeps the executions' part.
LEMMA StepKeepsIInv ==
  ASSUME BudgetProofs!RoundsToNearest(Int)
  PROVE  IInv /\ [Next]_vars => IInv'
<1> SUFFICES ASSUME SysInv, BudgetProofs!IInv, [Next]_vars PROVE SysInv' /\ BudgetProofs!IInv'
  BY DEF IInv
<1>1. BudgetProofs!IInv'
  BY StepUsesBudget, SameBudget, BudgetProofs!StepKeepsIInv, SystemAssumption
<1>2. CASE UNCHANGED vars
  BY <1>1, <1>2 DEF vars, budgetVars, SysInv, FlowTypeOK, PlansDiffer, IssuedIsPlanned,
              ExecutionInv, PlanOwned, WaitsLongEnough, WaitsInTime, AttemptsLeft, ReleasesPlan
<1>3. CASE Tick
  BY <1>1, <1>3, TickKeepsInv
<1>4. ASSUME NEW e \in Threads, Step(e) PROVE SysInv'
  <2>1. CASE BeginAttempt(e)
    BY <1>1, <2>1, BeginAttemptKeepsInv
  <2>2. CASE Plan(e)
    BY <1>1, <2>2, PlanKeepsInv
  <2>3. CASE Grant(e)
    BY <1>1, <2>3, GrantKeepsInv
  <2>4. CASE BeginRelease(e)
    BY <1>1, <2>4, BeginReleaseKeepsInv
  <2>5. CASE Release(e)
    BY <1>1, <2>5, ReleaseKeepsInv
  <2>6. CASE \/ Start(e) \/ EndAttempt(e) \/ CheckSleep(e) \/ Sleep(e) \/ Wake(e)
             \/ PlanRaises(e) \/ BeforeSleepRaises(e) \/ InterruptSleep(e)
    BY <2>6, OwnStepKeepsInv
  <2> QED BY <1>4, <2>1, <2>2, <2>3, <2>4, <2>5, <2>6 DEF Step, Work, Disturb
<1> QED BY <1>1, <1>2, <1>3, <1>4 DEF Next, Terminated

LEMMA InductiveInvariant ==
  ASSUME BudgetProofs!RoundsToNearest(Int)
  PROVE  Spec => []IInv
<1>1. Init => IInv
  BY InitSysInv, SameBudget, BudgetProofs!InitIInv, SystemAssumption DEF Init, IInv
<1> QED BY <1>1, StepKeepsIInv, PTL DEF Spec

-----------------------------------------------------------------------------
\* Every variable of the executions keeps its type; an attempt begins only with a
\* reservation that was issued.
THEOREM TypeCorrect ==
  ASSUME BudgetProofs!RoundsToNearest(Int)
  PROVE  Spec => []FlowTypeOK
BY InductiveInvariant, PTL DEF IInv, SysInv

\* A reservation that is neither used nor given back belongs to an execution that
\* still runs, or to one whose stop strategy raised between the grant and the sleep.
LEMMA OnlyRaisersLeak ==
  ASSUME IInv, NEW r \in issued \ (released \cup used)
  PROVE  \E e \in Threads :
            /\ flow[e].plan = r
            /\ Running(e) \/ (flow[e].pc = "raised" /\ StrategyMayRaise)
<1>1. PICK e \in Threads : flow[e].plan = r
  BY DEF IInv, SysInv, IssuedIsPlanned
<1>2. r # NoPlan
  BY NoPlanIsNone, BudgetFacts DEF IInv
<1>3. PlanOwned(flow[e])
  BY DEF IInv, SysInv, ExecutionInv
<1>4. Owns(flow[e]) => Running(e)
  BY DEF Owns, Running, Outcomes
<1>5. Owns(flow[e]) \/ (flow[e].pc = "raised" /\ StrategyMayRaise)
  BY <1>1, <1>2, <1>3 DEF PlanOwned
<1> QED BY <1>1, <1>4, <1>5

\* Unused reservations are released (architecture.md:113), however the executions,
\* their handlers, their interrupted sleeps and the clock interleave, provided that
\* no stop strategy raises.  The run system_strategy_raises shows why that is needed.
THEOREM NothingEverLeaks ==
  ASSUME BudgetProofs!RoundsToNearest(Int), ~StrategyMayRaise
  PROVE  Spec => []NothingLeaks
<1>1. IInv => NothingLeaks
  BY OnlyRaisersLeak DEF NothingLeaks
<1> QED BY <1>1, InductiveInvariant, PTL

\* No execution sleeps past the time its stop strategy allows, though handlers of
\* any duration run between the first check and the sleep.
THEOREM NoSleepPastMaxTime ==
  ASSUME BudgetProofs!RoundsToNearest(Int)
  PROVE  Spec => []SleepsWithinMaxTime
<1>1. IInv => SleepsWithinMaxTime
  BY DEF IInv, SysInv, ExecutionInv, WaitsInTime, SleepsWithinMaxTime
<1> QED BY <1>1, InductiveInvariant, PTL

\* Every further attempt is paid with one reservation that was issued, and that
\* nobody used or gave back before; it begins no earlier than the slot it reserves.
THEOREM EveryRetryIsPaid ==
  ASSUME BudgetProofs!RoundsToNearest(Int)
  PROVE  Spec => RetriesArePaidAndOnTime
<1> DEFINE Paid(e) ==
      flow'[e].attempt # flow[e].attempt =>
        IF flow[e].attempt = 0 THEN used' = used
        ELSE \E r \in issued \ (released \cup used) :
                used' = used \cup {r} /\ clock >= r.at
<1>1. ASSUME SysInv, BudgetProofs!IInv, [Next]_vars, NEW e \in Threads
      PROVE  Paid(e)
  <2>1. flow[e] \in Flow /\ ExecutionInv(flow[e], call[e]) /\ flow \in [Threads -> Flow]
    BY <1>1 DEF SysInv, FlowTypeOK
  <2>2. CASE BeginAttempt(e)
    <3>1. CASE flow[e].attempt = 0
      BY <2>1, <2>2, <3>1 DEF BeginAttempt, ExecutionInv, PlanOwned, Owns
    <3>2. CASE flow[e].attempt > 0
      <4>1. /\ flow[e].plan \in issued \ (released \cup used) /\ clock >= flow[e].plan.at
            /\ used' = used \cup ({flow[e].plan} \ {NoPlan})
        BY <2>1, <2>2, <3>2 DEF BeginAttempt, ExecutionInv, PlanOwned, Owns, WaitsLongEnough
      <4>2. flow[e].plan # NoPlan
        BY <1>1, <4>1, NoPlanIsNone, BudgetFacts
      <4>3. used' = used \cup {flow[e].plan}
        BY <4>1, <4>2
      <4> QED BY <3>2, <4>1, <4>3
    <3> QED BY <2>1, <3>1, <3>2 DEF Flow
  <2>3. CASE UNCHANGED vars \/ Tick
    BY <2>3 DEF vars, Tick
  <2>4. ASSUME NEW f \in Threads, Step(f), f # e \/ ~BeginAttempt(f)
        PROVE  flow'[e].attempt = flow[e].attempt
    <3>1. CASE BeginAttempt(f)
      BY <2>1, <2>4, <3>1 DEF BeginAttempt
    <3>2. ASSUME NEW pc, Goto(f, pc) PROVE flow'[e].attempt = flow[e].attempt
      BY <2>1, <3>2 DEF Goto
    <3>3. ASSUME NEW o, ReleaseThen(f, o) PROVE flow'[e].attempt = flow[e].attempt
      BY <2>1, <3>3 DEF ReleaseThen
    <3>4. CASE Start(f)
      BY <2>1, <3>4 DEF Start
    <3>5. CASE Grant(f)
      <4>1. PICK r : flow' = [flow EXCEPT ![f].plan = r, ![f].total = r.at - call[f].current,
                          ![f].pc = IF r.at - call[f].current > MaxSleep
                                    THEN "releasing" ELSE "checking",
                          ![f].next = "exhausted"]
        BY <3>5 DEF Grant
      <4> QED BY <2>1, <4>1
    <3>6. CASE Sleep(f)
      <4>1. ASSUME NEW w, flow' = [flow EXCEPT ![f].pc = "sleeping", ![f].wake = w]
            PROVE  flow'[e].attempt = flow[e].attempt
        BY <2>1, <4>1
      <4> QED BY <3>2, <3>3, <3>6, <4>1 DEF Sleep
    <3>7. CASE BeginRelease(f) \/ Release(f)
      <4>1. CASE BeginRelease(f)
        BY <4>1 DEF BeginRelease
      <4>2. ASSUME NEW o, flow' = [flow EXCEPT ![f].pc = o, ![f].plan = NoPlan]
            PROVE  flow'[e].attempt = flow[e].attempt
        BY <2>1, <4>2
      <4> QED BY <3>7, <4>1, <4>2 DEF Release
    <3>8. CASE EndAttempt(f) \/ Plan(f) \/ CheckSleep(f) \/ Wake(f) \/ Disturb(f)
      BY <3>2, <3>3, <3>8 DEF EndAttempt, Plan, CheckSleep, Wake, Disturb, PlanRaises,
                              BeforeSleepRaises, InterruptSleep
    <3> QED BY <2>4, <3>1, <3>4, <3>5, <3>6, <3>7, <3>8 DEF Step, Work
  <2> QED BY <1>1, <2>2, <2>3, <2>4 DEF Next, Terminated
<1>2. SysInv /\ BudgetProofs!IInv /\ [Next]_vars => \A e \in Threads : Paid(e)
  BY <1>1
<1> HIDE DEF Paid
<1>3. SysInv /\ BudgetProofs!IInv /\ [Next]_vars => [\A e \in Threads : Paid(e)]_vars
  BY <1>2
<1> QED BY <1>3, InductiveInvariant, PTL DEF Spec, IInv, RetriesArePaidAndOnTime, Paid

\* The executions use the budget as it may be used: all that is proved of the
\* budget holds of it here.
THEOREM BudgetIsImplemented ==
  ASSUME BudgetProofs!RoundsToNearest(Int)
  PROVE  Spec => ImplementsBudget
<1>1. Init => Budget!Init
  BY DEF Init
<1>2. IInv /\ [Next]_vars => [Budget!Next]_(Budget!vars)
  BY StepUsesBudget DEF IInv
<1> QED BY <1>1, <1>2, InductiveInvariant, PTL DEF Spec, ImplementsBudget, Budget!Spec

-----------------------------------------------------------------------------
\* What a step of execution e does to the lifecycle of e.

\* The step goes to pc with the attempts given, and keeps what a release leads to.
Goes(e, pc, n) == flow'[e].pc = pc /\ flow'[e].attempt = n /\ flow'[e].next = flow[e].next

LEMMA GotoGoes ==
  ASSUME FlowTypeOK, NEW e \in Threads, NEW pc, Goto(e, pc)
  PROVE  Goes(e, pc, flow[e].attempt)
BY DEF FlowTypeOK, Flow, Goto, Goes

LEMMA ReleaseThenGoes ==
  ASSUME FlowTypeOK, NEW e \in Threads, NEW o, ReleaseThen(e, o)
  PROVE  /\ flow'[e].pc = "releasing" /\ flow'[e].next = o
         /\ flow'[e].attempt = flow[e].attempt
BY DEF FlowTypeOK, Flow, ReleaseThen

\* A step that ends execution e with an outcome concludes it, one that raises
\* breaks it.
LEMMA Ending ==
  ASSUME NEW e \in Threads, flow[e].pc \in {"calling", "planning", "emitting", "checking"},
         flow'[e].attempt = flow[e].attempt,
         \/ flow'[e].pc \in {"accepted", "rejected", "exhausted", "raised"}
         \/ flow'[e].pc = "releasing" /\ flow'[e].next \in {"exhausted", "raised"}
  PROVE  [Lifecycle(e)!Next]_(Lifecycle(e)!vars)
<1>1. Phase(e) = "trying" /\ Outcome(e) = "undecided"
  BY DEF Phase, Outcome
<1>2. CASE flow'[e].pc \in {"accepted", "rejected", "exhausted"}
  <2>1. Phase(e)' = "over" /\ Outcome(e)' \in {"accept", "reject", "exhaust"}
    BY <1>2 DEF Phase, Outcome
  <2>2. Lifecycle(e)!Conclude(Outcome(e)')
    BY <1>1, <2>1 DEF Lifecycle!Conclude
  <2> QED BY <2>1, <2>2 DEF Lifecycle!Next
<1>3. CASE \/ flow'[e].pc = "raised"
           \/ flow'[e].pc = "releasing" /\ flow'[e].next = "raised"
  <2>1. Phase(e)' = "broken" /\ Outcome(e)' = "undecided"
    BY <1>3 DEF Phase, Outcome
  <2> QED BY <1>1, <2>1 DEF Lifecycle!Next, Lifecycle!Break
<1>4. CASE flow'[e].pc = "releasing" /\ flow'[e].next = "exhausted"
  <2>1. Phase(e)' = "trying" /\ Outcome(e)' = "undecided"
    BY <1>4 DEF Phase, Outcome
  <2> QED BY <1>1, <2>1 DEF Lifecycle!vars
<1> QED BY <1>2, <1>3, <1>4

LEMMA OwnStepHasLifecycle ==
  ASSUME SysInv, BudgetProofs!IInv, NEW e \in Threads, Step(e)
  PROVE  [Lifecycle(e)!Next]_(Lifecycle(e)!vars)
<1>1. /\ FlowTypeOK /\ flow[e] \in Flow /\ flow[e].attempt \in Nat /\ AttemptsLeft(flow[e])
  BY DEF SysInv, FlowTypeOK, Flow, ExecutionInv
<1>2. ASSUME Phase(e)' = Phase(e), Outcome(e)' = Outcome(e), flow'[e].attempt = flow[e].attempt
      PROVE  UNCHANGED Lifecycle(e)!vars
  BY <1>2 DEF Lifecycle!vars
<1>3. CASE Start(e)
  <2>1. flow'[e].pc = "attempt" /\ flow'[e].attempt = flow[e].attempt /\ flow[e].pc = "new"
    BY <1>1, <1>3 DEF Start, FlowTypeOK
  <2> QED BY <1>2, <2>1 DEF Phase, Outcome
<1>4. CASE BeginAttempt(e)
  <2>1. /\ flow[e].pc = "attempt" /\ flow'[e].pc \in {"calling", "raised"}
        /\ flow'[e].attempt = flow[e].attempt + 1 /\ flow[e].attempt < MaxAttempts
    BY <1>1, <1>4 DEF BeginAttempt, FlowTypeOK, AttemptsLeft
  <2>2. /\ Phase(e) = "idle" /\ Outcome(e) = "undecided" /\ Outcome(e)' = "undecided"
        /\ Phase(e)' \in {"trying", "broken"}
    BY <2>1 DEF Phase, Outcome
  <2> QED BY <2>1, <2>2 DEF Lifecycle!Next, Lifecycle!Begin
<1>5. ASSUME NEW pc, flow[e].pc \in {"calling", "planning", "checking", "emitting"}, Goto(e, pc),
             pc \in Outcomes \cup {"planning", "reserving", "emitting"}
      PROVE  [Lifecycle(e)!Next]_(Lifecycle(e)!vars)
  <2>1. flow'[e].pc = pc /\ flow'[e].attempt = flow[e].attempt
    BY <1>1, <1>5, GotoGoes DEF Goes
  <2>2. CASE pc \in Outcomes
    BY <1>5, <2>1, <2>2, Ending DEF Outcomes
  <2>3. CASE pc \in {"planning", "reserving", "emitting"}
    BY <1>2, <1>5, <2>1, <2>3 DEF Phase, Outcome
  <2> QED BY <1>5, <2>2, <2>3
<1>6. ASSUME NEW o \in {"exhausted", "raised"}, ReleaseThen(e, o),
             flow[e].pc \in {"checking", "emitting"}
      PROVE  [Lifecycle(e)!Next]_(Lifecycle(e)!vars)
  BY <1>1, <1>6, ReleaseThenGoes, Ending
<1>7. CASE EndAttempt(e)
  BY <1>5, <1>7 DEF EndAttempt, Outcomes
<1>8. CASE Plan(e) \/ PlanRaises(e)
  BY <1>5, <1>8 DEF Plan, PlanRaises, Outcomes
<1>9. CASE Grant(e)
  <2>1. PICK r : flow' = [flow EXCEPT ![e].plan = r, ![e].total = r.at - call[e].current,
                    ![e].pc = IF r.at - call[e].current > MaxSleep
                              THEN "releasing" ELSE "checking",
                    ![e].next = "exhausted"]
    BY <1>9 DEF Grant
  <2>2. /\ flow[e].pc = "reserving" /\ flow'[e].attempt = flow[e].attempt
        /\ flow'[e].pc \in {"releasing", "checking"} /\ flow'[e].next = "exhausted"
    BY <1>1, <1>9, <2>1 DEF Grant, FlowTypeOK
  <2> QED BY <1>2, <2>2 DEF Phase, Outcome
<1>10. CASE CheckSleep(e)
  BY <1>5, <1>6, <1>10 DEF CheckSleep, Outcomes
<1>11. CASE Sleep(e)
  <2>1. ASSUME NEW w, flow' = [flow EXCEPT ![e].pc = "sleeping", ![e].wake = w]
        PROVE  Lifecycle(e)!Wait
    <3>1. /\ flow[e].pc = "emitting" /\ flow'[e].pc = "sleeping"
          /\ flow'[e].attempt = flow[e].attempt /\ flow[e].attempt < MaxAttempts
      BY <1>1, <1>11, <2>1 DEF Sleep, FlowTypeOK, AttemptsLeft
    <3>2. /\ Phase(e) = "trying" /\ Phase(e)' = "waiting"
          /\ Outcome(e) = "undecided" /\ Outcome(e)' = "undecided"
      BY <3>1 DEF Phase, Outcome
    <3> QED BY <3>1, <3>2 DEF Lifecycle!Wait
  <2> QED BY <1>5, <1>6, <1>11, <2>1 DEF Sleep, Outcomes, Lifecycle!Next
<1>12. CASE BeforeSleepRaises(e)
  BY <1>6, <1>12 DEF BeforeSleepRaises
<1>13. CASE Wake(e)
  <2>1. /\ flow[e].pc = "sleeping" /\ flow'[e].pc = "attempt"
        /\ flow'[e].attempt = flow[e].attempt
    BY <1>1, <1>13, GotoGoes DEF Wake, Goes
  <2>2. /\ Phase(e) = "waiting" /\ Phase(e)' = "idle"
        /\ Outcome(e) = "undecided" /\ Outcome(e)' = "undecided"
    BY <2>1 DEF Phase, Outcome
  <2> QED BY <2>1, <2>2 DEF Lifecycle!Next, Lifecycle!Wake
<1>14. CASE InterruptSleep(e)
  <2>1. /\ flow[e].pc = "sleeping" /\ flow'[e].pc = "releasing" /\ flow'[e].next = "raised"
        /\ flow'[e].attempt = flow[e].attempt
    BY <1>1, <1>14, ReleaseThenGoes DEF InterruptSleep
  <2>2. /\ Phase(e) = "waiting" /\ Phase(e)' = "broken"
        /\ Outcome(e) = "undecided" /\ Outcome(e)' = "undecided"
    BY <2>1 DEF Phase, Outcome
  <2> QED BY <2>1, <2>2 DEF Lifecycle!Next, Lifecycle!Break
<1>15. CASE BeginRelease(e)
  BY <1>2, <1>15 DEF BeginRelease, Phase, Outcome
<1>16. CASE Release(e)
  <2>1. /\ flow[e].pc = "releasing" /\ flow[e].next \in {"exhausted", "raised"}
        /\ flow'[e].pc = flow[e].next /\ flow'[e].attempt = flow[e].attempt
    BY <1>1, <1>16 DEF Release, FlowTypeOK, Flow
  <2>2. CASE flow[e].next = "exhausted"
    <3>1. /\ Phase(e) = "trying" /\ Phase(e)' = "over"
          /\ Outcome(e) = "undecided" /\ Outcome(e)' = "exhaust"
      BY <2>1, <2>2 DEF Phase, Outcome
    <3>2. Lifecycle(e)!Conclude("exhaust")
      BY <2>1, <3>1 DEF Lifecycle!Conclude
    <3> QED BY <3>2 DEF Lifecycle!Next
  <2>3. CASE flow[e].next = "raised"
    BY <1>2, <2>1, <2>3 DEF Phase, Outcome
  <2> QED BY <2>1, <2>2, <2>3
<1> QED BY <1>3, <1>4, <1>7, <1>8, <1>9, <1>10, <1>11, <1>12, <1>13, <1>14, <1>15, <1>16
        DEF Step, Work, Disturb

\* A step of another execution leaves the record of e alone.
LEMMA OthersKeepRecord ==
  ASSUME FlowTypeOK, NEW e \in Threads, NEW f \in Threads, f # e, Step(f)
  PROVE  flow'[e] = flow[e]
<1>1. ASSUME NEW g, flow' = [flow EXCEPT ![f] = g] PROVE flow'[e] = flow[e]
  BY <1>1 DEF FlowTypeOK
<1>2. ASSUME NEW pc, Goto(f, pc) PROVE flow'[e] = flow[e]
  BY <1>2 DEF FlowTypeOK, Goto
<1>3. ASSUME NEW o, ReleaseThen(f, o) PROVE flow'[e] = flow[e]
  BY <1>3 DEF FlowTypeOK, ReleaseThen
<1>4. CASE Start(f)
  BY <1>4 DEF FlowTypeOK, Start
<1>5. CASE BeginAttempt(f)
  BY <1>5 DEF FlowTypeOK, BeginAttempt
<1>6. CASE Grant(f)
  <2>1. PICK r : flow' = [flow EXCEPT ![f].plan = r, ![f].total = r.at - call[f].current,
                    ![f].pc = IF r.at - call[f].current > MaxSleep
                              THEN "releasing" ELSE "checking",
                    ![f].next = "exhausted"]
    BY <1>6 DEF Grant
  <2> QED BY <2>1 DEF FlowTypeOK
<1>7. CASE Sleep(f)
  <2>1. ASSUME NEW w, flow' = [flow EXCEPT ![f].pc = "sleeping", ![f].wake = w]
        PROVE  flow'[e] = flow[e]
    BY <2>1 DEF FlowTypeOK
  <2> QED BY <1>2, <1>3, <1>7, <2>1 DEF Sleep
<1>8. CASE Release(f)
  <2>1. PICK o : flow' = [flow EXCEPT ![f].pc = o, ![f].plan = NoPlan]
    BY <1>8 DEF Release
  <2> QED BY <2>1 DEF FlowTypeOK
<1>9. CASE \/ EndAttempt(f) \/ Plan(f) \/ CheckSleep(f) \/ Wake(f) \/ BeginRelease(f)
           \/ Disturb(f)
  BY <1>2, <1>3, <1>9 DEF EndAttempt, Plan, CheckSleep, Wake, BeginRelease, Disturb, PlanRaises,
                          BeforeSleepRaises, InterruptSleep
<1> QED BY <1>4, <1>5, <1>6, <1>7, <1>8, <1>9 DEF Step, Work

\* Every execution has the lifecycle of a retry execution, whatever the others, the
\* budget and the clock do: one outcome, and no more attempts than it may make.
THEOREM LifecycleIsImplemented ==
  ASSUME BudgetProofs!RoundsToNearest(Int)
  PROVE  Spec => ImplementsLifecycle
<1> DEFINE Moves(e) == [Lifecycle(e)!Next]_(Lifecycle(e)!vars)
           AllInit == \A e \in Threads : Lifecycle(e)!Init
<1>1. Init => AllInit
  BY DEF Init, Lifecycle!Init, Phase, Outcome
<1>2. ASSUME IInv, [Next]_vars, NEW e \in Threads PROVE Moves(e)
  <2>1. SysInv /\ BudgetProofs!IInv /\ FlowTypeOK
    BY <1>2 DEF IInv, SysInv
  <2>2. ASSUME flow'[e] = flow[e] PROVE UNCHANGED Lifecycle(e)!vars
    BY <2>2 DEF Lifecycle!vars, Phase, Outcome
  <2>3. CASE UNCHANGED vars \/ Tick
    BY <2>2, <2>3 DEF vars, Tick
  <2>4. ASSUME NEW f \in Threads, Step(f) PROVE Moves(e)
    BY <2>1, <2>2, <2>4, OwnStepHasLifecycle, OthersKeepRecord
  <2> QED BY <1>2, <2>3, <2>4 DEF Next, Terminated
<1> HIDE DEF Moves
<1>3. IInv /\ [Next]_vars => [\A e \in Threads : Moves(e)]_vars
  BY <1>2
<1> QED BY <1>1, <1>3, InductiveInvariant, PTL DEF Spec, ImplementsLifecycle, Moves
=============================================================================
