----------------------------- MODULE RetryFlow_proofs -----------------------------
(***************************************************************************)
(* Theorems about one retry execution, through run() and through the       *)
(* user's loop, for every limit of attempts, every bound on the history    *)
(* and every sequence of handlers, whichever of them raise.                *)
(***************************************************************************)
EXTENDS RetryFlow, FiniteSetTheorems, SequenceTheorems, TLAPS

-----------------------------------------------------------------------------
\* Types.

Stages == {"top", "loop", "context", "body", "plan", "recheck", "sleep", "exhaust",
           "reject", "decided"}
PCs == Stages \cup {"emit", "propagating"} \cup Ends
Events == [name : EventNames, number : Nat, will_retry : BOOLEAN]
Records == [number : Nat, failed : BOOLEAN, has_value : BOOLEAN]
Decisions ==
  [kind : {"accept", "reject", "exhaust"}, total : Nat, failed : Nat, succeeded : Nat]

TypeOK ==
  /\ path \in {"run", "block"} /\ pc \in PCs
  /\ attempt \in Nat /\ failed \in Nat /\ succeeded \in Nat
  /\ attempts \in Seq(Records) /\ all \in Seq(Records)
  /\ emitting \in [event : {NoEvent} \cup Events, next : Nat \ {0}, then : Stages]
  /\ decision \in {Undecided} \cup Decisions
  /\ finished \in BOOLEAN /\ strayed \in BOOLEAN
  /\ events \in Seq(Events) /\ heard \subseteq DOMAIN Handlers

LEMMA InitTypeOK == Init => TypeOK
<1> SUFFICES ASSUME Init PROVE TypeOK
  OBVIOUS
<1>1. /\ path \in {"run", "block"} /\ pc \in PCs /\ attempt \in Nat /\ failed \in Nat
      /\ succeeded \in Nat /\ finished \in BOOLEAN /\ strayed \in BOOLEAN
      /\ decision \in {Undecided} \cup Decisions /\ heard \subseteq DOMAIN Handlers
  BY DEF Init, PCs, Stages
<1>2. attempts \in Seq(Records) /\ all \in Seq(Records) /\ events \in Seq(Events)
  BY DEF Init
<1>3. emitting \in [event : {NoEvent} \cup Events, next : Nat \ {0}, then : Stages]
  BY DEF Init, NotEmitting, Stages
<1> QED BY <1>1, <1>2, <1>3 DEF TypeOK

\* Appending to the bounded history gives a sequence of records again.
LEMMA RecordTyped ==
  ASSUME TypeOK, NEW r \in Records, Record(r)
  PROVE  /\ attempt' = attempt /\ attempts' \in Seq(Records) /\ all' \in Seq(Records)
         /\ failed' \in Nat /\ succeeded' \in Nat
<1>1. Append(attempts, r) \in Seq(Records)
  BY DEF TypeOK
<1>2. AppendBounded(attempts, r) \in Seq(Records)
  <2> DEFINE longer == Append(attempts, r)
  <2>1. longer # <<>> /\ longer \in Seq(Records)
    BY <1>1 DEF TypeOK
  <2>2. Tail(longer) \in Seq(Records)
    BY <2>1, HeadTailProperties
  <2> QED BY <2>1, <2>2 DEF AppendBounded
<1> QED BY <1>2 DEF TypeOK, Record

\* What an emit leaves: control is with the handlers, then at `then'.
LEMMA EmitTyped ==
  ASSUME TypeOK, NEW name \in EventNames, NEW number \in Nat, NEW willRetry \in BOOLEAN,
         NEW then \in Stages, Emit(name, number, willRetry, then)
  PROVE  LET e == [name |-> name, number |-> number, will_retry |-> willRetry]
         IN /\ e \in Events /\ events' = Append(events, e) /\ events' \in Seq(Events)
            /\ emitting' = [event |-> e, next |-> 1, then |-> then]
            /\ emitting' \in [event : {NoEvent} \cup Events, next : Nat \ {0}, then : Stages]
            /\ pc' = "emit" /\ heard' = {}
<1> DEFINE e == [name |-> name, number |-> number, will_retry |-> willRetry]
<1>1. e \in Events
  BY DEF Events
<1>2. events' = Append(events, e) /\ emitting' = [event |-> e, next |-> 1, then |-> then]
      /\ pc' = "emit" /\ heard' = {}
  BY DEF Emit
<1> HIDE DEF e
<1>3. events' \in Seq(Events)
  BY <1>1, <1>2 DEF TypeOK
<1> QED BY <1>1, <1>2, <1>3 DEF e

LEMMA StepKeepsTypeOK == TypeOK /\ [Next]_vars => TypeOK'
<1> SUFFICES ASSUME TypeOK, [Next]_vars PROVE TypeOK'
  OBVIOUS
<1> USE DEF runtime
<1>1. CASE UNCHANGED vars
  BY <1>1 DEF vars, TypeOK
<1>2. CASE RunAttempt
  <2>1. attempt + 1 \in Nat /\ "before_attempt" \in EventNames /\ "body" \in Stages
    BY DEF TypeOK, EventNames, Stages
  <2> QED BY <1>2, <2>1, EmitTyped DEF RunAttempt, TypeOK, PCs
<1>3. CASE NextContext
  BY <1>3 DEF NextContext, TypeOK, PCs, Stages, Ends
<1>4. CASE EnterContext
  <2>1. "before_attempt" \in EventNames /\ "body" \in Stages
    BY DEF EventNames, Stages
  <2> QED BY <1>4, <2>1, EmitTyped DEF EnterContext, TypeOK, PCs
<1>5. CASE LeaveLoop \/ SkipContext
  BY <1>5 DEF LeaveLoop, SkipContext, TypeOK, PCs, Stages, Ends
<1>6. CASE CallHandler
  <2>1. heard' \subseteq DOMAIN Handlers /\ pc' \in PCs
    BY <1>6 DEF CallHandler, TypeOK, PCs
  <2>2. emitting' \in [event : {NoEvent} \cup Events, next : Nat \ {0}, then : Stages]
    BY SMTT(30), <1>6 DEF CallHandler, TypeOK
  <2> QED BY <1>6, <2>1, <2>2 DEF CallHandler, TypeOK
<1>7. CASE HandlerInterrupts \/ EmitDone
  BY <1>7 DEF HandlerInterrupts, EmitDone, TypeOK, PCs
<1>8. CASE AttemptFails
  <2>1. PICK retryable, timeUp :
          /\ retryable \in BOOLEAN /\ timeUp \in BOOLEAN
          /\ Emit("after_failure", attempt, retryable /\ ~ShouldStop(timeUp),
                  IF ~retryable THEN "reject" ELSE IF ShouldStop(timeUp) THEN "exhaust" ELSE "plan")
    BY <1>8 DEF AttemptFails
  <2>2. [number |-> attempt, failed |-> TRUE, has_value |-> FALSE] \in Records
    BY DEF TypeOK, Records
  <2>3. PICK w, t : /\ w \in BOOLEAN /\ t \in Stages /\ Emit("after_failure", attempt, w, t)
    BY <2>1 DEF Stages
  <2>4. "after_failure" \in EventNames /\ attempt \in Nat
    BY DEF EventNames, TypeOK
  <2> QED BY <1>8, <2>2, <2>3, <2>4, RecordTyped, EmitTyped DEF AttemptFails, TypeOK, PCs
<1>9. ASSUME NEW kind \in {"accept", "reject", "exhaust"}, Decide(kind), attempt' = attempt,
             failed' \in Nat, succeeded' \in Nat, attempts' \in Seq(Records),
             all' \in Seq(Records), UNCHANGED <<path, finished, strayed>>
      PROVE  TypeOK'
  <2>1. Verdict(kind) \in EventNames /\ "decided" \in Stages
    BY DEF Verdict, EventNames, Stages
  <2>2. decision' \in Decisions
    BY <1>9 DEF Decide, Decisions, TypeOK
  <2>3. attempt \in Nat
    BY DEF TypeOK
  <2> QED BY <1>9, <2>1, <2>2, <2>3, EmitTyped DEF Decide, TypeOK, PCs
<1>10. CASE AttemptAccepted
  <2>1. PICK r : r \in Records /\ Record(r)
    BY <1>10 DEF AttemptAccepted, TypeOK, Records
  <2> QED BY <1>9, <1>10, <2>1, RecordTyped DEF AttemptAccepted
<1>11. CASE AttemptRejected \/ DecisionRaises
  <2>1. PICK r : r \in Records /\ Record(r)
    BY <1>11 DEF AttemptRejected, DecisionRaises, TypeOK, Records
  <2>2. pc' \in PCs
    BY <1>11 DEF AttemptRejected, DecisionRaises, PCs, Stages
  <2> QED BY <1>11, <2>1, <2>2, RecordTyped DEF AttemptRejected, DecisionRaises, TypeOK
<1>12. CASE AttemptInterrupted \/ Recheck \/ Sleep \/ RunEnds
  BY <1>12 DEF AttemptInterrupted, Recheck, Sleep, RunEnds, TypeOK, PCs, Stages, Ends
<1>13. CASE Reject \/ Exhaust
  BY <1>9, <1>13 DEF Reject, Exhaust, TypeOK
<1>14. CASE PlanRetry
  <2>1. CASE Emit("before_sleep", attempt, TRUE, "recheck")
    <3>1. "before_sleep" \in EventNames /\ "recheck" \in Stages /\ attempt \in Nat
      BY DEF EventNames, Stages, TypeOK
    <3> QED BY <1>14, <2>1, <3>1, EmitTyped DEF PlanRetry, TypeOK, PCs
  <2>2. CASE pc' \in {"exhaust", "propagating"} /\ UNCHANGED <<emitting, events, heard>>
    BY <1>14, <2>2 DEF PlanRetry, TypeOK, PCs, Stages
  <2> QED BY <1>14, <2>1, <2>2 DEF PlanRetry
<1>15. CASE Finish \/ Propagate
  BY <1>15 DEF Finish, Propagate, TypeOK, PCs, Stages, Ends
<1>16. CASE Over
  BY <1>1, <1>16 DEF Over
<1> QED BY <1>1, <1>2, <1>3, <1>4, <1>5, <1>6, <1>7, <1>8, <1>10, <1>11, <1>12, <1>13, <1>14,
           <1>15, <1>16 DEF Next

-----------------------------------------------------------------------------
\* The history: what is kept of the records, and what is counted.

Failures(records) == {i \in DOMAIN records : records[i].failed}

HistoryInv ==
  /\ Len(attempts) = MinOf(HistoryLimit, Len(all))
  /\ \A i \in 1..Len(attempts) : attempts[i] = all[Len(all) - Len(attempts) + i]
  /\ failed = Cardinality(Failures(all))

\* A further record counts once more, if it is a failure.
LEMMA AppendCounts ==
  ASSUME NEW records \in Seq(Records), NEW r \in Records
  PROVE  Cardinality(Failures(Append(records, r)))
           = Cardinality(Failures(records)) + (IF r.failed THEN 1 ELSE 0)
<1> DEFINE n == Len(records)
           longer == Append(records, r)
<1>1. /\ n \in Nat /\ DOMAIN records = 1..n /\ DOMAIN longer = 1..(n + 1)
      /\ longer[n + 1] = r /\ \A i \in 1..n : longer[i] = records[i]
  OBVIOUS
<1> HIDE DEF longer
<1>2. IsFiniteSet(Failures(records)) /\ Cardinality(Failures(records)) \in Nat
  <2>1. IsFiniteSet(1..n)
    BY <1>1, FS_Interval
  <2>2. Failures(records) \in SUBSET (1..n)
    BY <1>1 DEF Failures
  <2> QED BY <2>1, <2>2, FS_Subset, FS_CardinalityType
<1>3. n + 1 \notin Failures(records)
  BY <1>1 DEF Failures
<1>4. CASE r.failed
  <2>1. Failures(longer) = Failures(records) \cup {n + 1}
    BY <1>1, <1>4 DEF Failures
  <2> QED BY <1>2, <1>3, <1>4, <2>1, FS_AddElement DEF longer
<1>5. CASE ~r.failed
  <2>1. Failures(longer) = Failures(records)
    BY <1>1, <1>5 DEF Failures
  <2> QED BY <1>2, <1>5, <2>1 DEF longer
<1> QED BY <1>4, <1>5

\* The deque keeps the newest records.
LEMMA RecordKeepsHistory ==
  ASSUME TypeOK, HistoryInv, NEW r \in Records, Record(r)
  PROVE  HistoryInv'
<1> DEFINE n == Len(attempts)
           m == Len(all)
<1>1. /\ n \in Nat /\ m \in Nat /\ n <= m /\ HistoryLimit \in Nat \ {0}
      /\ n = MinOf(HistoryLimit, m)
  BY FlowAssumption DEF TypeOK, HistoryInv, MinOf
<1>2. /\ Len(all') = m + 1 /\ all'[m + 1] = r /\ \A i \in 1..m : all'[i] = all[i]
  BY DEF TypeOK, Record
<1>3. failed' = Cardinality(Failures(all'))
  BY AppendCounts DEF TypeOK, HistoryInv, Record
<1>4. /\ Len(attempts') = MinOf(HistoryLimit, m + 1)
      /\ \A i \in 1..Len(attempts') : attempts'[i] = all'[m + 1 - Len(attempts') + i]
  <2> DEFINE longer == Append(attempts, r)
  <2>1. /\ Len(longer) = n + 1 /\ longer[n + 1] = r /\ longer \in Seq(Records)
        /\ \A i \in 1..n : longer[i] = attempts[i]
    BY DEF TypeOK
  <2>2. \A i \in 1..(n + 1) : longer[i] = all'[m - n + i]
    <3> TAKE i \in 1..(n + 1)
    <3>1. CASE i = n + 1
      BY <1>1, <1>2, <2>1, <3>1
    <3>2. CASE i \in 1..n
      <4>1. m - n + i \in 1..m
        BY <1>1, <3>2
      <4> QED BY <1>2, <2>1, <3>2, <4>1 DEF HistoryInv
    <3> QED BY <1>1, <3>1, <3>2
  <2>3. attempts' = IF n + 1 <= HistoryLimit THEN longer ELSE Tail(longer)
    BY <2>1 DEF Record, AppendBounded
  <2> HIDE DEF longer
  <2>4. CASE n + 1 <= HistoryLimit
    <3>1. Len(attempts') = n + 1 /\ \A i \in 1..(n + 1) : attempts'[i] = all'[m - n + i]
      BY <2>1, <2>2, <2>3, <2>4
    <3>2. \A i \in 1..(n + 1) : m + 1 - (n + 1) + i = m - n + i
      BY <1>1
    <3>3. n + 1 = MinOf(HistoryLimit, m + 1)
      BY <1>1, <2>4 DEF MinOf
    <3> QED BY <3>1, <3>2, <3>3
  <2>5. CASE ~(n + 1 <= HistoryLimit)
    <3>1. /\ attempts' = Tail(longer) /\ Len(attempts') = n /\ n = HistoryLimit
          /\ \A i \in 1..n : attempts'[i] = longer[i + 1]
      BY <1>1, <2>1, <2>3, <2>5, HeadTailProperties DEF MinOf
    <3>2. \A i \in 1..n : attempts'[i] = all'[m - n + i + 1]
      BY <1>1, <2>2, <3>1
    <3>3. Len(attempts') = MinOf(HistoryLimit, m + 1)
      BY <1>1, <3>1 DEF MinOf
    <3>4. \A i \in 1..n : m + 1 - n + i = m - n + i + 1
      BY <1>1
    <3>5. ASSUME NEW i \in 1..n PROVE attempts'[i] = all'[m + 1 - n + i]
      <4>1. m + 1 - n + i = m - n + i + 1
        BY <3>4
      <4>2. attempts'[i] = all'[m - n + i + 1]
        BY <3>2
      <4> QED BY <4>1, <4>2, Zenon
    <3>6. \A i \in 1..n : attempts'[i] = all'[m + 1 - n + i]
      BY <3>5
    <3>7. Len(attempts') = n
      BY <3>1
    <3> HIDE DEF n, m
    <3> QED BY <3>3, <3>6, <3>7, Zenon
  <2> QED BY <2>4, <2>5
<1> QED BY <1>2, <1>3, <1>4 DEF HistoryInv

-----------------------------------------------------------------------------
\* The protocol.

\* Where control is, or will be when the handlers of an emit have run.
Stage == IF pc = "emit" THEN emitting.then ELSE pc

\* The execution goes on: nothing has ended it, and no exception is leaving it.
UnderWay == ~strayed /\ ~finished /\ Stage \notin {"propagating"} \cup Ends

LastIs(names, n) ==
  /\ events # <<>>
  /\ events[Len(events)].name \in names /\ events[Len(events)].number = n

\* What the last event tells at each stage.
LastEvent ==
  UnderWay =>
    /\ Stage \in {"top", "loop"} =>
         (attempt = 0 /\ events = <<>>) \/ LastIs({"before_sleep"}, attempt)
    /\ Stage = "context" =>
         (attempt = 1 /\ events = <<>>) \/ LastIs({"before_sleep"}, attempt - 1)
    /\ Stage = "body" => LastIs({"before_attempt"}, attempt)
    /\ Stage = "reject" => LastIs({"after_failure"}, attempt)
    /\ Stage = "plan" =>
         /\ LastIs({"before_attempt", "after_failure"}, attempt)
         /\ events[Len(events)].name = "after_failure" => events[Len(events)].will_retry
    /\ Stage = "exhaust" => LastIs({"before_attempt", "after_failure", "before_sleep"}, attempt)
    /\ Stage \in {"recheck", "sleep"} => LastIs({"before_sleep"}, attempt)

\* Attempts, records and failures in step.
Tally ==
  UnderWay =>
    /\ failed = Cardinality(Announced("after_failure"))
    /\ failed + succeeded = IF Stage \in {"context", "body"} THEN attempt - 1 ELSE attempt

AttemptsLeft ==
  /\ UnderWay /\ Stage \in {"top", "loop", "plan", "recheck", "sleep"} => attempt < MaxAttempts
  /\ UnderWay /\ Stage \in {"body", "context"} => attempt <= MaxAttempts

\* A verdict is announced when it is decided, and ends the execution.
OneVerdict ==
  /\ Stage = "decided" => /\ decision # Undecided /\ decision.total = attempt
                          /\ decision.failed = failed /\ decision.succeeded = succeeded
  /\ UnderWay /\ Stage # "decided" => decision = Undecided
  /\ ~strayed /\ finished => decision # Undecided /\ Stage \in {"loop", "propagating"} \cup Ends
  /\ ~strayed /\ decision = Undecided => Verdicts = {}

\* Where an emit leads to.
EmitLeads ==
  pc = "emit" => emitting.then \in {"body", "reject", "exhaust", "plan", "recheck", "decided"}

\* The emit under way has called the handlers of its event, up to where it is.
HeardSoFar ==
  pc = "emit" =>
    heard = {i \in DOMAIN Handlers :
               i < emitting.next /\ Handlers[i].name = emitting.event.name}

IInv ==
  /\ TypeOK /\ HistoryInv /\ EventOrder /\ LastEvent /\ Tally /\ AttemptsLeft /\ OneVerdict
  /\ EmitLeads /\ HeardSoFar

-----------------------------------------------------------------------------
\* The steps by what they do to the stage, the counters and the events; how many
\* handlers have run and what is kept of the history is left out.

Counters == <<attempt, failed, succeeded>>
Ending == <<decision, finished, strayed>>

Announces(name, willRetry) ==
  events' = Append(events, [name |-> name, number |-> attempt', will_retry |-> willRetry])

Stays == Stage' = Stage /\ UNCHANGED <<Counters, Ending, events>>
Leaves ==
  /\ Stage \notin Ends /\ Stage' \in {"propagating"} \cup Ends
  /\ UNCHANGED <<attempt, Ending, events>>
Strays ==
  /\ Stage = "context" \/ (Stage = "propagating" /\ (strayed \/ ~finished))
  /\ Stage' = "loop" /\ strayed'
Concludes ==
  /\ Stage = "decided" \/ (Stage = "propagating" /\ finished)
  /\ Stage' \in {"loop", "propagating"} /\ finished'
  /\ UNCHANGED <<Counters, decision, strayed, events>>
Moves ==
  /\ \/ Stage \in {"plan", "recheck"} /\ Stage' = "exhaust"
     \/ Stage = "recheck" /\ Stage' = "sleep"
     \/ Stage = "sleep" /\ Stage' \in {"top", "loop"}
  /\ UNCHANGED <<Counters, Ending, events>>
Begins ==
  /\ attempt' = attempt + 1 /\ UNCHANGED <<failed, succeeded, Ending>>
  /\ \/ Stage = "top" /\ Stage' = "body" /\ Announces("before_attempt", FALSE)
     \/ Stage = "loop" /\ ~finished /\ Stage' = "context" /\ UNCHANGED events
Enters ==
  /\ Stage = "context" /\ Stage' = "body" /\ Announces("before_attempt", FALSE)
  /\ UNCHANGED <<Counters, Ending>>
Fails ==
  /\ Stage = "body" /\ Stage' \in {"reject", "exhaust", "plan"}
  /\ \E w \in BOOLEAN :
       Announces("after_failure", w) /\ (Stage' = "plan" => w /\ attempt < MaxAttempts)
  /\ failed' = failed + 1 /\ UNCHANGED <<attempt, succeeded, Ending>>
Refuses ==
  /\ Stage = "body" /\ Stage' \in {"exhaust", "plan"}
  /\ Stage' = "plan" => attempt < MaxAttempts
  /\ succeeded' = succeeded + 1 /\ UNCHANGED <<attempt, failed, Ending, events>>
Plans ==
  /\ Stage = "plan" /\ Stage' = "recheck" /\ Announces("before_sleep", TRUE)
  /\ UNCHANGED <<Counters, Ending>>
Decides ==
  /\ Stage' = "decided"
  /\ \E kind \in {"accept", "reject", "exhaust"} :
       /\ Stage = IF kind = "accept" THEN "body" ELSE kind
       /\ Announces(Verdict(kind), FALSE)
       /\ decision' = [kind |-> kind, total |-> attempt, failed |-> failed',
                       succeeded |-> succeeded']
       /\ failed' = failed
       /\ succeeded' = succeeded + (IF kind = "accept" THEN 1 ELSE 0)
  /\ UNCHANGED <<attempt, finished, strayed>>

\* Every step has one of these shapes.
LEMMA StepShape ==
  ASSUME TypeOK, [Next]_vars
  PROVE  \/ Stays \/ Leaves \/ Strays \/ Concludes \/ Moves \/ Begins \/ Enters
         \/ Fails \/ Refuses \/ Plans \/ Decides
<1> USE DEF runtime, Counters, Ending
<1>0. Stage = IF pc = "emit" THEN emitting.then ELSE pc
  BY DEF Stage
<1>a. Stage' = IF pc' = "emit" THEN emitting'.then ELSE pc'
  BY DEF Stage
<1>1. CASE UNCHANGED vars \/ Over
  BY <1>1 DEF Over, vars, Stays, Stage
<1>2. CASE RunAttempt
  BY <1>0, <1>a, <1>2 DEF RunAttempt, Emit, Begins, Announces
<1>3. CASE NextContext
  BY <1>0, <1>a, <1>3 DEF NextContext, Begins, Leaves, Ends
<1>4. CASE EnterContext
  BY <1>0, <1>a, <1>4 DEF EnterContext, Emit, Enters, Announces
<1>5. CASE LeaveLoop \/ SkipContext
  BY <1>0, <1>a, <1>5 DEF LeaveLoop, SkipContext, Leaves, Strays, Ends
<1>6. CASE CallHandler
  <2>1. /\ emitting'.then = emitting.then /\ pc = "emit" /\ pc' \in {"emit", "propagating"}
        /\ emitting.then \notin Ends
    BY <1>6 DEF CallHandler, TypeOK, Stages, Ends
  <2> QED BY <1>0, <1>a, <1>6, <2>1 DEF CallHandler, Stays, Leaves
<1>7. CASE HandlerInterrupts \/ EmitDone
  <2>1. emitting.then # "emit" /\ emitting.then \notin Ends
    BY DEF TypeOK, Stages, Ends
  <2> QED BY <1>0, <1>a, <1>7, <2>1 DEF HandlerInterrupts, EmitDone, Stays, Leaves
<1>8. CASE AttemptFails
  <2>1. PICK retryable, timeUp :
          /\ retryable \in BOOLEAN /\ timeUp \in BOOLEAN
          /\ Emit("after_failure", attempt, retryable /\ ~ShouldStop(timeUp),
                  IF ~retryable THEN "reject" ELSE IF ShouldStop(timeUp) THEN "exhaust" ELSE "plan")
    BY <1>8 DEF AttemptFails
  <2>2. PICK w, t : /\ w \in BOOLEAN /\ t \in {"reject", "exhaust", "plan"}
                    /\ Emit("after_failure", attempt, w, t)
                    /\ t = "plan" => w /\ attempt < MaxAttempts
    <3>1. retryable /\ ~ShouldStop(timeUp) => attempt < MaxAttempts
      BY FlowAssumption DEF ShouldStop, TypeOK
    <3> DEFINE u == retryable /\ ~ShouldStop(timeUp)
               s == IF ~retryable THEN "reject" ELSE IF ShouldStop(timeUp) THEN "exhaust" ELSE "plan"
    <3>2. /\ u \in BOOLEAN /\ s \in {"reject", "exhaust", "plan"}
          /\ s = "plan" => u /\ attempt < MaxAttempts
      BY <3>1
    <3>3. Emit("after_failure", attempt, u, s)
      BY <2>1
    <3> HIDE DEF u, s
    <3> QED BY <3>2, <3>3
  <2>3. /\ Stage = "body" /\ Stage' = t /\ attempt' = attempt /\ failed' = failed + 1
        /\ succeeded' = succeeded /\ UNCHANGED Ending /\ Announces("after_failure", w)
    BY <1>0, <1>a, <1>8, <2>2 DEF AttemptFails, Emit, Announces, Record, TypeOK
  <2> QED BY <2>2, <2>3 DEF Fails
<1>9. CASE AttemptAccepted
  <2>1. /\ Stage = "body" /\ Stage' = "decided" /\ attempt' = attempt /\ failed' = failed
        /\ succeeded' = succeeded + 1 /\ Decide("accept") /\ UNCHANGED <<finished, strayed>>
    BY <1>0, <1>a, <1>9 DEF AttemptAccepted, Decide, Emit, Record, TypeOK
  <2> QED BY <2>1 DEF Decides, Decide, Emit, Announces
<1>10. CASE AttemptRejected
  <2>1. PICK timeUp \in BOOLEAN : pc' = IF ShouldStop(timeUp) THEN "exhaust" ELSE "plan"
    BY <1>10 DEF AttemptRejected
  <2>2. pc' = "plan" => attempt < MaxAttempts
    BY <2>1, FlowAssumption DEF ShouldStop, TypeOK
  <2> QED BY <1>0, <1>a, <1>10, <2>1, <2>2 DEF AttemptRejected, Record, Refuses, TypeOK
<1>11. CASE AttemptInterrupted \/ DecisionRaises
  BY <1>0, <1>a, <1>11 DEF AttemptInterrupted, DecisionRaises, Record, Leaves, Ends
<1>12. ASSUME NEW kind \in {"reject", "exhaust"}, pc = kind, Decide(kind),
              UNCHANGED <<runtime, finished, strayed>>
       PROVE  Decides
  <2>1. /\ Stage = kind /\ Stage' = "decided" /\ UNCHANGED <<Counters, finished, strayed>>
        /\ kind # "accept"
    BY <1>0, <1>a, <1>12 DEF Decide, Emit
  <2>2. succeeded' = succeeded + 0
    BY <2>1 DEF TypeOK
  <2> QED BY <1>12, <2>1, <2>2 DEF Decides, Decide, Emit, Announces
<1>13. CASE Reject \/ Exhaust
  BY <1>12, <1>13 DEF Reject, Exhaust
<1>14. CASE PlanRetry
  BY <1>0, <1>a, <1>14 DEF PlanRetry, Emit, Announces, Plans, Leaves, Moves, Ends
<1>15. CASE Recheck \/ Sleep
  BY <1>0, <1>a, <1>15 DEF Recheck, Sleep, Leaves, Moves, Ends
<1>16. CASE RunEnds
  BY <1>0, <1>a, <1>16 DEF RunEnds, Leaves, Ends
<1>17. CASE Finish
  BY <1>0, <1>a, <1>17 DEF Finish, Concludes
<1>18. CASE Propagate
  <2>1. CASE pc' = "raised" /\ UNCHANGED strayed
    BY <1>0, <1>a, <1>18, <2>1 DEF Propagate, Leaves, Ends
  <2>2. CASE pc' = "loop" /\ strayed' = (strayed \/ ~finished)
    BY <1>0, <1>a, <1>18, <2>2 DEF Propagate, Strays, Concludes, TypeOK
  <2> QED BY <1>18, <2>1, <2>2 DEF Propagate
<1> QED BY <1>1, <1>2, <1>3, <1>4, <1>5, <1>6, <1>7, <1>8, <1>9, <1>10, <1>11, <1>13, <1>14,
           <1>15, <1>16, <1>17, <1>18 DEF Next

-----------------------------------------------------------------------------
\* The invariant is inductive.

LEMMA HistoryKept ==
  ASSUME TypeOK, HistoryInv, [Next]_vars
  PROVE  HistoryInv'
<1>1. CASE UNCHANGED <<attempts, all, failed>>
  BY <1>1 DEF HistoryInv
<1>2. CASE AttemptFails \/ AttemptAccepted \/ AttemptRejected \/ DecisionRaises
  <2>1. PICK r : r \in Records /\ Record(r)
    BY <1>2 DEF AttemptFails, AttemptAccepted, AttemptRejected, DecisionRaises, TypeOK, Records
  <2> QED BY <2>1, RecordKeepsHistory
<1> QED BY <1>1, <1>2 DEF Next, vars, runtime, RunAttempt, NextContext, EnterContext, LeaveLoop,
     SkipContext, CallHandler, HandlerInterrupts, EmitDone, AttemptInterrupted, Reject, Exhaust,
     PlanRetry, Recheck, Sleep, RunEnds, Finish, Propagate, Over

LEMMA HeardKept ==
  ASSUME TypeOK, HeardSoFar, [Next]_vars
  PROVE  HeardSoFar'
<1> DEFINE Until(n, name) == {i \in DOMAIN Handlers : i < n /\ Handlers[i].name = name}
<1>0. DOMAIN Handlers \subseteq Nat \ {0} /\ emitting.next \in Nat \ {0}
  BY FlowAssumption DEF TypeOK
<1>1. ASSUME NEW e, emitting'.event = e, emitting'.next = 1, heard' = {} PROVE HeardSoFar'
  BY <1>0, <1>1 DEF HeardSoFar
<1>2. ASSUME NEW name, NEW n, NEW w, NEW t, Emit(name, n, w, t) PROVE HeardSoFar'
  BY <1>1, <1>2 DEF Emit
<1>3. CASE pc' # "emit" \/ UNCHANGED <<pc, emitting, heard>>
  BY <1>3 DEF HeardSoFar
<1>4. CASE CallHandler
  <2> DEFINE k == emitting.next
             name == emitting.event.name
  <2>1. /\ pc = "emit" /\ k \in DOMAIN Handlers /\ emitting'.next = k + 1
        /\ emitting'.event.name = name /\ heard = Until(k, name)
        /\ heard' = IF Handlers[k].name = name THEN heard \cup {k} ELSE heard
    BY <1>4 DEF CallHandler, TypeOK, HeardSoFar
  <2>2. heard' = Until(k + 1, name)
    BY <1>0, <2>1
  <2> QED BY <2>1, <2>2 DEF HeardSoFar
<1>5. CASE RunAttempt \/ EnterContext \/ PlanRetry
  BY <1>2, <1>3, <1>5 DEF RunAttempt, EnterContext, PlanRetry
<1>6. CASE AttemptFails
  BY <1>2, <1>6 DEF AttemptFails
<1>7. CASE AttemptAccepted \/ Reject \/ Exhaust
  BY <1>2, <1>7 DEF AttemptAccepted, Reject, Exhaust, Decide
<1>8. CASE UNCHANGED vars \/ NextContext \/ LeaveLoop \/ SkipContext \/ HandlerInterrupts \/ Over
  BY <1>3, <1>8 DEF vars, NextContext, LeaveLoop, SkipContext, HandlerInterrupts, Over
<1>9. CASE EmitDone \/ AttemptRejected \/ AttemptInterrupted \/ DecisionRaises
  BY <1>3, <1>9 DEF EmitDone, AttemptRejected, AttemptInterrupted, DecisionRaises, TypeOK, Stages
<1>10. CASE Recheck \/ Sleep \/ RunEnds \/ Finish \/ Propagate
  BY <1>3, <1>10 DEF Recheck, Sleep, RunEnds, Finish, Propagate
<1> QED BY <1>4, <1>5, <1>6, <1>7, <1>8, <1>9, <1>10 DEF Next

LEMMA EmitLeadsKept ==
  ASSUME TypeOK, EmitLeads, [Next]_vars
  PROVE  EmitLeads'
<1>1. ASSUME NEW name, NEW n, NEW w,
             NEW t \in {"body", "reject", "exhaust", "plan", "recheck", "decided"},
             Emit(name, n, w, t)
      PROVE  EmitLeads'
  BY <1>1 DEF Emit, EmitLeads
<1>2. CASE pc' # "emit" \/ UNCHANGED <<pc, emitting>>
  BY <1>2 DEF EmitLeads
<1>3. CASE CallHandler
  <2>1. emitting'.then = emitting.then /\ pc = "emit"
    BY <1>3 DEF CallHandler, TypeOK
  <2> QED BY <2>1 DEF EmitLeads
<1>4. CASE RunAttempt \/ EnterContext \/ PlanRetry
  BY <1>1, <1>2, <1>4 DEF RunAttempt, EnterContext, PlanRetry
<1>5. CASE AttemptFails
  <2>1. PICK w, t : t \in {"reject", "exhaust", "plan"} /\ Emit("after_failure", attempt, w, t)
    BY <1>5 DEF AttemptFails
  <2> QED BY <1>1, <2>1
<1>6. CASE AttemptAccepted \/ Reject \/ Exhaust
  BY <1>1, <1>6 DEF AttemptAccepted, Reject, Exhaust, Decide
<1>7. CASE UNCHANGED vars \/ NextContext \/ LeaveLoop \/ SkipContext \/ HandlerInterrupts \/ Over
  BY <1>2, <1>7 DEF vars, NextContext, LeaveLoop, SkipContext, HandlerInterrupts, Over
<1>8. CASE EmitDone \/ AttemptRejected \/ AttemptInterrupted \/ DecisionRaises
  BY <1>2, <1>8 DEF EmitDone, AttemptRejected, AttemptInterrupted, DecisionRaises, TypeOK, Stages
<1>9. CASE Recheck \/ Sleep \/ RunEnds \/ Finish \/ Propagate
  BY <1>2, <1>9 DEF Recheck, Sleep, RunEnds, Finish, Propagate
<1> QED BY <1>3, <1>4, <1>5, <1>6, <1>7, <1>8, <1>9 DEF Next

LEMMA AttemptsLeftKept ==
  ASSUME TypeOK, AttemptsLeft, [Next]_vars
  PROVE  AttemptsLeft'
<1>1. attempt \in Nat /\ MaxAttempts \in Nat \ {0}
  BY FlowAssumption DEF TypeOK
<1> USE <1>1 DEF AttemptsLeft, UnderWay, Counters, Ending, Ends
<1>2. CASE Stays \/ Leaves \/ Strays \/ Concludes
  BY <1>2 DEF Stays, Leaves, Strays, Concludes
<1>3. CASE Moves \/ Enters \/ Plans
  BY <1>3 DEF Moves, Enters, Plans
<1>4. CASE Begins
  <2>1. /\ attempt' = attempt + 1 /\ UNCHANGED Ending /\ Stage \in {"top", "loop"}
        /\ Stage' \in {"body", "context"}
    BY <1>4 DEF Begins
  <2>2. UnderWay' => attempt < MaxAttempts
    BY <2>1
  <2> QED BY <2>1, <2>2
<1>5. CASE Fails \/ Refuses \/ Decides
  <2>1. /\ attempt' = attempt /\ Stage' \in {"reject", "exhaust", "plan", "decided"}
        /\ Stage' = "plan" => attempt < MaxAttempts
    BY <1>5 DEF Fails, Refuses, Decides
  <2> QED BY <2>1
<1> QED BY StepShape, <1>2, <1>3, <1>4, <1>5

LEMMA AnnouncedFinite ==
  ASSUME TypeOK, NEW name
  PROVE  IsFiniteSet(Announced(name)) /\ Cardinality(Announced(name)) \in Nat
<1>1. Len(events) \in Nat /\ DOMAIN events = 1..Len(events)
  BY DEF TypeOK
<1>2. IsFiniteSet(1..Len(events))
  BY <1>1, FS_Interval
<1>3. Announced(name) \in SUBSET (1..Len(events))
  BY <1>1 DEF Announced
<1> QED BY <1>2, <1>3, FS_Subset, FS_CardinalityType

\* What a further event adds to the ones of a name.
LEMMA CountGrows ==
  ASSUME TypeOK, NEW e \in Events, events' = Append(events, e), NEW name
  PROVE  Cardinality(Announced(name)') =
           Cardinality(Announced(name)) + (IF e.name = name THEN 1 ELSE 0)
<1> DEFINE n == Len(events)
           A == Announced(name)
<1>1. /\ n \in Nat /\ events'[n + 1] = e /\ \A i \in 1..n : events'[i] = events[i]
      /\ DOMAIN events = 1..n /\ DOMAIN events' = 1..(n + 1)
  BY DEF TypeOK
<1>2. A' = IF e.name = name THEN A \cup {n + 1} ELSE A
  BY <1>1 DEF Announced
<1>3. IsFiniteSet(A) /\ Cardinality(A) \in Nat
  BY AnnouncedFinite
<1>4. n + 1 \notin A
  BY <1>1 DEF Announced
<1> HIDE DEF A
<1>5. Cardinality(A') = Cardinality(A) + (IF e.name = name THEN 1 ELSE 0)
  <2>1. CASE e.name = name
    BY <1>2, <1>3, <1>4, <2>1, FS_AddElement
  <2>2. CASE e.name # name
    BY <1>2, <1>3, <2>2
  <2> QED BY <2>1, <2>2
<1> QED BY <1>5 DEF A

\* What a further event adds to the ones announced, and to the verdicts.
LEMMA AnnouncedGrows ==
  ASSUME TypeOK, NEW e \in Events, events' = Append(events, e)
  PROVE  /\ Len(events') = Len(events) + 1 /\ events' # <<>> /\ events'[Len(events')] = e
         /\ \A i \in 1..Len(events) : events'[i] = events[i]
         /\ DOMAIN events = 1..Len(events) /\ DOMAIN events' = 1..Len(events')
         /\ Verdicts' = IF e.name \in {"after_success", "after_giveup"}
                        THEN Verdicts \cup {Len(events')} ELSE Verdicts
         /\ Cardinality(Announced("after_failure"))' =
              Cardinality(Announced("after_failure"))
                + (IF e.name = "after_failure" THEN 1 ELSE 0)
<1> DEFINE n == Len(events)
<1>1. /\ n \in Nat /\ Len(events') = n + 1 /\ events' # <<>> /\ events'[n + 1] = e
      /\ \A i \in 1..n : events'[i] = events[i]
      /\ DOMAIN events = 1..n /\ DOMAIN events' = 1..(n + 1)
  BY DEF TypeOK
<1>2. Verdicts' = IF e.name \in {"after_success", "after_giveup"}
                  THEN Verdicts \cup {n + 1} ELSE Verdicts
  BY <1>1 DEF Verdicts
<1> QED BY <1>1, <1>2, CountGrows

\* The event that a step emits.
LEMMA AnnouncesOne ==
  ASSUME TypeOK, TypeOK', NEW name \in EventNames, NEW w \in BOOLEAN, Announces(name, w)
  PROVE  \E e \in Events : /\ e.name = name /\ e.number = attempt' /\ e.will_retry = w
                           /\ events' = Append(events, e)
<1>1. attempt' \in Nat
  BY DEF TypeOK
<1> QED BY <1>1 DEF Announces, Events

LEMMA OneVerdictKept ==
  ASSUME TypeOK, TypeOK', OneVerdict, [Next]_vars
  PROVE  OneVerdict'
<1>1. CASE Stays \/ Leaves \/ Strays \/ Concludes \/ Moves \/ Refuses
  BY <1>1 DEF OneVerdict, UnderWay, Stays, Leaves, Strays, Concludes, Moves, Refuses, Counters,
              Ending, Ends, Verdicts, TypeOK
<1>2. ASSUME NEW name \in EventNames \ {"after_success", "after_giveup"}, NEW w \in BOOLEAN,
             Announces(name, w)
      PROVE  Verdicts' = Verdicts
  BY <1>2, AnnouncesOne, AnnouncedGrows
<1>3. CASE Begins
  <2>1. Verdicts' = Verdicts
    BY <1>2, <1>3 DEF Begins, Verdicts, EventNames
  <2> QED BY <1>3, <2>1 DEF OneVerdict, UnderWay, Begins, Counters, Ending, Ends
<1>4. CASE Enters \/ Fails \/ Plans
  <2>1. Verdicts' = Verdicts
    BY <1>2, <1>4 DEF Enters, Fails, Plans, EventNames
  <2>2. /\ UNCHANGED Ending /\ Stage' # "decided" /\ Stage \in {"context", "body", "plan"}
        /\ Stage' \notin {"propagating"} \cup Ends
    BY <1>4 DEF Enters, Fails, Plans, Ends
  <2> QED BY <2>1, <2>2 DEF OneVerdict, UnderWay, Ending, Ends
<1>5. CASE Decides
  BY <1>5 DEF OneVerdict, UnderWay, Decides, Undecided, Ends
<1> QED BY StepShape, <1>1, <1>3, <1>4, <1>5

LEMMA TallyKept ==
  ASSUME TypeOK, TypeOK', Tally, [Next]_vars
  PROVE  Tally'
<1>0. attempt \in Nat /\ failed \in Nat /\ succeeded \in Nat
  BY DEF TypeOK
<1> DEFINE failures == Cardinality(Announced("after_failure"))
<1>1. ASSUME NEW name \in EventNames, NEW w \in BOOLEAN, Announces(name, w)
      PROVE  failures' = IF name = "after_failure" THEN failures + 1 ELSE failures
  <2>1. failures \in Nat
    BY AnnouncedFinite
  <2> QED BY <1>1, <2>1, AnnouncesOne, AnnouncedGrows
<1>a. ASSUME NEW name \in EventNames \ {"after_failure"}, NEW w \in BOOLEAN, Announces(name, w)
      PROVE  failures' = failures
  BY <1>1, <1>a
<1>b. ASSUME NEW w \in BOOLEAN, Announces("after_failure", w)
      PROVE  failures' = failures + 1
  BY <1>1, <1>b DEF EventNames
<1>2. UNCHANGED events => failures' = failures
  BY DEF Announced
<1>3. Tally <=> (UnderWay => /\ failed = failures
                             /\ failed + succeeded
                                  = IF Stage \in {"context", "body"} THEN attempt - 1 ELSE attempt)
  BY DEF Tally
<1>4. Tally' <=> (UnderWay' => /\ failed' = failures'
                               /\ failed' + succeeded'
                                    = IF Stage' \in {"context", "body"} THEN attempt' - 1
                                      ELSE attempt')
  BY DEF Tally
<1>5. UnderWay => failures \in Nat
  BY <1>0, <1>3
<1> HIDE DEF failures
<1> USE DEF UnderWay, Counters, Ending
<1>6. CASE Stays \/ Leaves \/ Strays \/ Concludes \/ Moves
  BY <1>2, <1>3, <1>4, <1>6 DEF Stays, Leaves, Strays, Concludes, Moves, Ends
<1>7. CASE Begins
  <2>1. failures' = failures
    BY <1>a, <1>2, <1>7 DEF Begins, EventNames
  <2>2. UnderWay' => UnderWay /\ failures \in Nat
    BY <1>5, <1>7 DEF Begins, Ends
  <2>3. /\ attempt' = attempt + 1 /\ failed' = failed /\ succeeded' = succeeded
        /\ Stage \notin {"context", "body"} /\ Stage' \in {"context", "body"}
    BY <1>7 DEF Begins
  <2>4. UnderWay' => /\ failed' = failures'
                     /\ failed' + succeeded' = attempt' - 1
    BY <1>0, <1>3, <2>1, <2>2, <2>3
  <2> QED BY <1>4, <2>3, <2>4
<1>8. CASE Enters \/ Plans
  <2>1. failures' = failures
    BY <1>a, <1>8 DEF Enters, Plans, EventNames
  <2>2. UnderWay' => UnderWay /\ failures \in Nat
    BY <1>5, <1>8 DEF Enters, Plans, Ends
  <2> QED BY <1>0, <1>3, <1>4, <1>8, <2>1, <2>2 DEF Enters, Plans
<1>9. CASE Fails
  <2>1. failures' = failures + 1
    BY <1>b, <1>9 DEF Fails
  <2>2. UnderWay' => UnderWay /\ failures \in Nat
    BY <1>5, <1>9 DEF Fails, Ends
  <2> QED BY <1>0, <1>3, <1>4, <1>9, <2>1, <2>2 DEF Fails
<1>10. CASE Refuses
  <2>1. UnderWay' => UnderWay /\ failures' = failures /\ failures \in Nat
    BY <1>2, <1>5, <1>10 DEF Refuses, Ends
  <2> QED BY <1>0, <1>3, <1>4, <1>10, <2>1 DEF Refuses
<1>11. CASE Decides
  <2>1. PICK kind \in {"accept", "reject", "exhaust"} :
          /\ Stage = IF kind = "accept" THEN "body" ELSE kind
          /\ Announces(Verdict(kind), FALSE) /\ failed' = failed
          /\ succeeded' = succeeded + (IF kind = "accept" THEN 1 ELSE 0)
    BY <1>11 DEF Decides
  <2>2. Verdict(kind) \in EventNames /\ Verdict(kind) # "after_failure"
    BY DEF Verdict, EventNames
  <2>3. failures' = failures
    BY <1>a, <2>1, <2>2
  <2>4. UnderWay' => UnderWay /\ failures \in Nat
    BY <1>5, <1>11, <2>1 DEF Decides, Ends
  <2> QED BY <1>0, <1>3, <1>4, <1>11, <2>1, <2>3, <2>4 DEF Decides
<1> QED BY StepShape, <1>6, <1>7, <1>8, <1>9, <1>10, <1>11

\* An event after those announced so far: it is the last one, and in order if it
\* may follow the one before.
LEMMA AnnouncesLast ==
  ASSUME TypeOK, TypeOK', NEW name \in EventNames, NEW w \in BOOLEAN, Announces(name, w)
  PROVE  /\ events' # <<>> /\ events'[Len(events')].name = name
         /\ events'[Len(events')].number = attempt' /\ events'[Len(events')].will_retry = w
BY AnnouncesOne, AnnouncedGrows

LEMMA LastEventKept ==
  ASSUME TypeOK, TypeOK', LastEvent, [Next]_vars
  PROVE  LastEvent'
<1>0. attempt \in Nat
  BY DEF TypeOK
<1>1. ASSUME NEW name \in EventNames, NEW w \in BOOLEAN, Announces(name, w)
      PROVE  /\ events' # <<>> /\ events'[Len(events')].name = name
             /\ events'[Len(events')].number = attempt' /\ events'[Len(events')].will_retry = w
  BY <1>1, AnnouncesLast
<1> USE DEF UnderWay, Counters, Ending
<1>2. CASE Stays \/ Leaves \/ Strays \/ Concludes
  BY <1>2 DEF LastEvent, LastIs, Stays, Leaves, Strays, Concludes, Ends
<1>3. CASE Moves \/ Refuses
  BY <1>3 DEF LastEvent, LastIs, Moves, Refuses, Ends
<1>4. CASE Begins
  <2>1. CASE Stage = "top"
    <3>1. /\ Stage' = "body" /\ events' # <<>>
          /\ events'[Len(events')].name = "before_attempt"
          /\ events'[Len(events')].number = attempt'
      BY <1>1, <1>4, <2>1 DEF Begins, EventNames
    <3> QED BY <3>1 DEF LastEvent, LastIs
  <2>2. CASE Stage = "loop"
    <3>1. /\ Stage' = "context" /\ attempt' = attempt + 1 /\ attempt' - 1 = attempt
          /\ UNCHANGED <<Ending, events>>
      BY <1>0, <1>4, <2>2 DEF Begins
    <3> QED BY <1>0, <2>2, <3>1 DEF LastEvent, LastIs, Ends
  <2> QED BY <1>4, <2>1, <2>2 DEF Begins
<1>5. CASE Enters \/ Plans
  <2>1. /\ events' # <<>> /\ events'[Len(events')].number = attempt'
        /\ \/ Stage' = "body" /\ events'[Len(events')].name = "before_attempt"
           \/ Stage' = "recheck" /\ events'[Len(events')].name = "before_sleep"
    BY <1>1, <1>5 DEF Enters, Plans, EventNames
  <2> QED BY <2>1 DEF LastEvent, LastIs
<1>6. CASE Fails
  <2>1. PICK w \in BOOLEAN :
          Announces("after_failure", w) /\ (Stage' = "plan" => w /\ attempt < MaxAttempts)
    BY <1>6 DEF Fails
  <2>2. /\ events' # <<>> /\ events'[Len(events')].name = "after_failure"
        /\ events'[Len(events')].number = attempt'
        /\ Stage' = "plan" => events'[Len(events')].will_retry
        /\ Stage' \in {"reject", "exhaust", "plan"}
    BY <1>1, <1>6, <2>1 DEF Fails, EventNames
  <2> QED BY <2>2 DEF LastEvent, LastIs
<1>7. CASE Decides
  BY <1>7 DEF LastEvent, Decides
<1> QED BY StepShape, <1>2, <1>3, <1>4, <1>5, <1>6, <1>7

LEMMA OrderedEventKept ==
  ASSUME TypeOK, TypeOK', EventOrder, ~strayed, NEW name \in EventNames, NEW w \in BOOLEAN,
         Announces(name, w),
         \/ events = <<>> /\ name = "before_attempt" /\ attempt' = 1
         \/ /\ events # <<>>
            /\ \A e \in Events : e.name = name /\ e.number = attempt'
                 => MayPrecede(events[Len(events)], e)
  PROVE  EventOrder'
<1> DEFINE n == Len(events)
<1>1. PICK e \in Events : /\ e.name = name /\ e.number = attempt'
                         /\ events' = Append(events, e)
  BY AnnouncesOne
<1>2. /\ n \in Nat /\ DOMAIN events = 1..n /\ DOMAIN events' = 1..(n + 1)
      /\ events'[n + 1] = e /\ \A i \in 1..n : events'[i] = events[i]
      /\ events = <<>> <=> n = 0
  BY <1>1 DEF TypeOK
<1> SUFFICES ASSUME NEW i \in 1..(n + 1)
             PROVE  IF i = 1 THEN events'[1].name = "before_attempt" /\ events'[1].number = 1
                    ELSE MayPrecede(events'[i - 1], events'[i])
  BY <1>2 DEF EventOrder, MayPrecede
<1>3. CASE i \in 1..n
  <2>1. /\ events'[i] = events[i] /\ events'[1] = events[1]
        /\ i # 1 => i - 1 \in 1..n /\ events'[i - 1] = events[i - 1]
    BY <1>2, <1>3
  <2> QED BY <1>2, <1>3, <2>1 DEF EventOrder
<1>4. CASE i = n + 1
  <2>1. CASE n = 0
    BY <1>1, <1>2, <1>4, <2>1
  <2>2. CASE n # 0
    <3>1. i # 1 /\ i - 1 = n /\ events'[i - 1] = events[n] /\ events'[i] = e
      BY <1>2, <1>4, <2>2
    <3>2. MayPrecede(events[n], e)
      BY <1>1, <1>2, <2>2
    <3> QED BY <3>1, <3>2
  <2> QED BY <2>1, <2>2
<1> QED BY <1>2, <1>3, <1>4

LEMMA EventOrderKept ==
  ASSUME TypeOK, TypeOK', EventOrder, LastEvent, OneVerdict, [Next]_vars
  PROVE  EventOrder'
<1> DEFINE d == events[Len(events)]
<1>0. attempt \in Nat
  BY DEF TypeOK
<1>1. CASE strayed' \/ (UNCHANGED events /\ strayed' = strayed)
  BY <1>1 DEF EventOrder, MayPrecede
<1> SUFFICES ASSUME ~strayed', ~strayed PROVE EventOrder'
  BY <1>1, StepShape DEF Stays, Leaves, Strays, Concludes, Moves, Begins, Enters, Fails, Refuses,
     Plans, Decides, Ending
<1> USE DEF LastEvent, LastIs, UnderWay, Counters, Ending, Ends
<1>2. Stage \notin {"loop", "propagating"} \cup Ends => ~finished
  BY DEF OneVerdict, TypeOK
<1>3. ASSUME Announces("before_attempt", FALSE),
             \/ events = <<>> /\ attempt' = 1
             \/ events # <<>> /\ d.name = "before_sleep" /\ d.number = attempt' - 1
      PROVE  EventOrder'
  BY <1>3, OrderedEventKept DEF MayPrecede, EventNames
<1>4. CASE Begins
  <2>1. CASE Stage = "top"
    <3>1. Announces("before_attempt", FALSE) /\ attempt' = attempt + 1
      BY <1>4, <2>1 DEF Begins
    <3>2. \/ events = <<>> /\ attempt' = 1
          \/ events # <<>> /\ d.name = "before_sleep" /\ d.number = attempt' - 1
      BY <1>0, <1>2, <2>1, <3>1
    <3> QED BY <1>3, <3>1, <3>2
  <2>2. CASE Stage = "loop"
    BY <1>1, <1>4, <2>2 DEF Begins
  <2> QED BY <1>4, <2>1, <2>2 DEF Begins
<1>5. CASE Enters
  <2>1. Announces("before_attempt", FALSE) /\ attempt' = attempt /\ Stage = "context"
    BY <1>5 DEF Enters
  <2>2. \/ events = <<>> /\ attempt' = 1
        \/ events # <<>> /\ d.name = "before_sleep" /\ d.number = attempt' - 1
    BY <1>0, <1>2, <2>1
  <2> QED BY <1>3, <2>1, <2>2
<1>6. CASE Fails
  <2>1. PICK w \in BOOLEAN : Announces("after_failure", w)
    BY <1>6 DEF Fails
  <2>2. attempt' = attempt /\ events # <<>> /\ d.name = "before_attempt" /\ d.number = attempt
    BY <1>2, <1>6 DEF Fails
  <2> QED BY <2>1, <2>2, OrderedEventKept DEF MayPrecede, EventNames
<1>7. CASE Plans
  <2>1. /\ attempt' = attempt /\ events # <<>> /\ d.name \in {"before_attempt", "after_failure"}
        /\ d.number = attempt /\ (d.name = "after_failure" => d.will_retry)
    BY <1>2, <1>7 DEF Plans
  <2>2. Announces("before_sleep", TRUE)
    BY <1>7 DEF Plans
  <2> QED BY <2>1, <2>2, OrderedEventKept DEF MayPrecede, EventNames
<1>8. CASE Decides
  <2>1. PICK kind \in {"accept", "reject", "exhaust"} :
          /\ Stage = IF kind = "accept" THEN "body" ELSE kind
          /\ Announces(Verdict(kind), FALSE)
    BY <1>8 DEF Decides
  <2>2. /\ attempt' = attempt /\ events # <<>> /\ d.number = attempt
        /\ d.name \in IF kind = "accept" THEN {"before_attempt"}
                      ELSE {"before_attempt", "after_failure", "before_sleep"}
    BY <1>2, <1>8, <2>1 DEF Decides
  <2> QED BY <2>1, <2>2, OrderedEventKept DEF MayPrecede, EventNames, Verdict
<1> QED BY StepShape, <1>1, <1>4, <1>5, <1>6, <1>7, <1>8
        DEF Stays, Leaves, Strays, Concludes, Moves, Refuses

-----------------------------------------------------------------------------
LEMMA InitIInv == Init => IInv
<1> SUFFICES ASSUME Init PROVE IInv
  OBVIOUS
<1>1. TypeOK
  BY InitTypeOK
<1>2. /\ attempts = <<>> /\ all = <<>> /\ events = <<>> /\ attempt = 0 /\ failed = 0
      /\ succeeded = 0 /\ decision = Undecided /\ ~finished /\ ~strayed
      /\ pc \in {"top", "loop"} /\ Stage \in {"top", "loop"}
  BY DEF Init, Stage
<1>3. HistoryInv
  <2>1. Failures(all) = {} /\ Len(attempts) = 0 /\ Len(all) = 0
    BY <1>2 DEF Failures
  <2> QED BY <2>1, <1>2, FS_EmptySet, FlowAssumption DEF HistoryInv, MinOf
<1>4. Tally
  <2>1. Announced("after_failure") = {}
    BY <1>2 DEF Announced
  <2> QED BY <1>2, <2>1, FS_EmptySet DEF Tally
<1>5. EventOrder /\ EmitLeads /\ HeardSoFar /\ LastEvent
  BY <1>2 DEF EventOrder, EmitLeads, HeardSoFar, LastEvent
<1>6. AttemptsLeft
  BY <1>2, FlowAssumption DEF AttemptsLeft
<1>7. OneVerdict
  BY <1>2 DEF OneVerdict, Verdicts
<1> QED BY <1>1, <1>3, <1>4, <1>5, <1>6, <1>7 DEF IInv

LEMMA InductiveInvariant == Spec => []IInv
<1>1. IInv /\ [Next]_vars => IInv'
  BY StepKeepsTypeOK, HistoryKept, EventOrderKept, LastEventKept, TallyKept, AttemptsLeftKept,
     OneVerdictKept, EmitLeadsKept, HeardKept DEF IInv
<1> QED BY <1>1, InitIInv, PTL DEF Spec

\* Events come in the order the documentation gives, for every mix of failures,
\* rejections, interrupts and raising handlers, as long as the user's loop stays
\* within the protocol.
THEOREM EventsInOrder == Spec => []EventOrder
BY InductiveInvariant, PTL DEF IInv

\* A result describes the whole execution, however little of the history is kept.
THEOREM ResultsAreExact == Spec => []TotalsExact
<1>1. IInv => TotalsExact
  <2> SUFFICES ASSUME IInv, pc = "decided" PROVE TotalsExact
    BY DEF TotalsExact
  <2>1. Stage = "decided" /\ TypeOK
    BY DEF Stage, IInv
  <2>2. decision.failed = failed /\ decision.succeeded = succeeded /\ decision.total = attempt
    BY <2>1 DEF IInv, OneVerdict
  <2>3. decision.failed = Cardinality({i \in DOMAIN all : all[i].failed})
    BY <2>2 DEF IInv, HistoryInv, Failures
  <2>4. ~strayed => UnderWay
    BY <2>1 DEF IInv, OneVerdict, UnderWay, Ends, TypeOK
  <2>5. ~strayed => /\ decision.failed = Cardinality(Announced("after_failure"))
                    /\ decision.failed + decision.succeeded = decision.total
    BY <2>1, <2>2, <2>4 DEF IInv, Tally
  <2>6. attempts = SubSeq(all, Len(all) - MinOf(HistoryLimit, Len(all)) + 1, Len(all))
    <3> DEFINE n == Len(attempts)
               m == Len(all)
               kept == SubSeq(all, m - n + 1, m)
    <3>1. n \in Nat /\ m \in Nat /\ n = MinOf(HistoryLimit, m) /\ n <= m
      BY <2>1, FlowAssumption DEF IInv, HistoryInv, TypeOK, MinOf
    <3>2. kept \in Seq(Records) /\ Len(kept) = n /\ \A i \in 1..n : kept[i] = all[m - n + i]
      BY <2>1, <3>1, SubSeqProperties DEF TypeOK
    <3>3. \A i \in 1..n : attempts[i] = all[m - n + i]
      BY DEF IInv, HistoryInv
    <3>4. attempts = kept
      <4> HIDE DEF kept
      <4> QED BY <2>1, <3>2, <3>3, SeqEqual DEF TypeOK
    <3> QED BY <3>1, <3>4
  <2> QED BY <2>3, <2>5, <2>6 DEF TotalsExact
<1> QED BY <1>1, InductiveInvariant, PTL

\* An emit that ends normally has called every handler of its event, in spite of
\* those that failed in isolation.
THEOREM EveryHandlerIsHeard == Spec => EveryHandlerHears
<1>1. IInv /\ [Next]_vars =>
        (pc = "emit" /\ pc' \notin {"emit", "propagating"} =>
           heard = {i \in DOMAIN Handlers : Handlers[i].name = emitting.event.name})
  <2> SUFFICES ASSUME IInv, [Next]_vars, pc = "emit", pc' \notin {"emit", "propagating"}
               PROVE  heard = {i \in DOMAIN Handlers : Handlers[i].name = emitting.event.name}
    OBVIOUS
  <2>1. emitting.next \notin DOMAIN Handlers
    BY DEF Next, vars, RunAttempt, NextContext, EnterContext, LeaveLoop, SkipContext, CallHandler,
       HandlerInterrupts, EmitDone, AttemptFails, AttemptAccepted, AttemptRejected,
       AttemptInterrupted, DecisionRaises, Reject, Exhaust, PlanRetry, Recheck, Sleep, RunEnds,
       Finish, Propagate, Over, Ends
  <2>2. DOMAIN Handlers = 1..Len(Handlers) /\ Len(Handlers) \in Nat /\ emitting.next \in Nat \ {0}
    BY FlowAssumption DEF IInv, TypeOK
  <2>3. \A i \in DOMAIN Handlers : i < emitting.next
    BY <2>1, <2>2
  <2> QED BY <2>3 DEF IInv, HeardSoFar
<1> QED BY <1>1, InductiveInvariant, PTL DEF Spec, EveryHandlerHears

-----------------------------------------------------------------------------
\* The lifecycle.

\* The phase by the stage: while handlers run, it is the one they lead to.
StagePhase ==
  IF strayed THEN "strayed"
  ELSE IF decision # Undecided
       THEN IF finished \/ Stage \in Ends THEN "over" ELSE "concluded"
  ELSE IF Stage \in Ends \cup {"propagating"} THEN "broken"
  ELSE IF Stage \in {"top", "loop"} THEN "idle"
  ELSE IF Stage = "sleep" THEN "waiting" ELSE "trying"

LEMMA PhaseOfStage ==
  ASSUME TypeOK, EmitLeads
  PROVE  Phase = StagePhase
<1>1. CASE pc = "emit"
  BY <1>1 DEF Phase, StagePhase, Stage, EmitLeads, Ends, TypeOK
<1>2. CASE pc # "emit"
  BY <1>2 DEF Phase, StagePhase, Stage, TypeOK
<1> QED BY <1>1, <1>2

\* The verdicts announced so far, as the lifecycle sees them.
Told == {<<i, events[i].name>> : i \in Verdicts}

LEMMA ToldKept ==
  ASSUME TypeOK, TypeOK'
  PROVE  /\ UNCHANGED events => Told' = Told
         /\ \A name \in EventNames \ {"after_success", "after_giveup"}, w \in BOOLEAN :
              Announces(name, w) => Told' = Told
<1>1. UNCHANGED events => Told' = Told
  BY DEF Told, Verdicts
<1>2. ASSUME NEW name \in EventNames \ {"after_success", "after_giveup"}, NEW w \in BOOLEAN,
             Announces(name, w)
      PROVE  Told' = Told
  <2>1. Verdicts' = Verdicts /\ \A i \in 1..Len(events) : events'[i] = events[i]
    BY <1>2, AnnouncesOne, AnnouncedGrows
  <2>2. Verdicts \subseteq 1..Len(events)
    BY DEF Verdicts, TypeOK
  <2> QED BY <2>1, <2>2 DEF Told
<1> QED BY <1>1, <1>2

LEMMA StepHasLifecycle ==
  ASSUME IInv, IInv', [Next]_vars
  PROVE  [Lifecycle!Next]_(Lifecycle!vars)
<1>0. TypeOK /\ TypeOK' /\ OneVerdict /\ AttemptsLeft
  BY DEF IInv
<1>1. Phase = StagePhase /\ Phase' = StagePhase'
  <2>1. Phase = StagePhase
    BY PhaseOfStage DEF IInv
  <2>2. TypeOK' /\ EmitLeads'
    BY DEF IInv
  <2>3. Phase' = StagePhase'
    <3>1. CASE pc' = "emit"
      BY <2>2, <3>1 DEF Phase, StagePhase, Stage, EmitLeads, Ends, TypeOK
    <3>2. CASE pc' # "emit"
      BY <3>2 DEF Phase, StagePhase, Stage
    <3> QED BY <3>1, <3>2
  <2> QED BY <2>1, <2>3
<1>2. ASSUME Phase' = Phase, attempt' = attempt, decision' = decision, Told' = Told
      PROVE  UNCHANGED Lifecycle!vars
  BY <1>2 DEF Lifecycle!vars, Told
<1>3. CASE strayed
  <2>1. strayed'
    BY <1>3, StepShape, <1>0 DEF Stays, Leaves, Strays, Concludes, Moves, Begins, Enters, Fails,
       Refuses, Plans, Decides, Ending
  <2> QED BY <1>1, <1>3, <2>1 DEF StagePhase, Lifecycle!Next, Lifecycle!Stray
<1> SUFFICES ASSUME ~strayed PROVE [Lifecycle!Next]_(Lifecycle!vars)
  BY <1>3
<1>4. /\ UNCHANGED events => Told' = Told
      /\ \A name \in EventNames \ {"after_success", "after_giveup"}, w \in BOOLEAN :
           Announces(name, w) => Told' = Told
  BY <1>0, ToldKept
<1>5. Stage \notin {"decided", "loop", "propagating"} \cup Ends =>
        UnderWay /\ decision = Undecided
  BY <1>0 DEF OneVerdict, UnderWay, TypeOK
<1>6. Stage = "loop" /\ ~finished => UnderWay /\ decision = Undecided
  BY <1>0 DEF OneVerdict, UnderWay, TypeOK, Ends
<1>7. finished => decision # Undecided /\ Stage \in {"loop", "propagating"} \cup Ends
  BY <1>0 DEF OneVerdict
<1>8. Stage = "decided" => decision # Undecided /\ ~finished
  BY <1>0, <1>7 DEF OneVerdict, TypeOK, Ends
<1> USE DEF Counters, Ending, StagePhase
<1>9. CASE Stays
  BY <1>1, <1>2, <1>4, <1>9 DEF Stays
<1>10. CASE Leaves
  <2>1. attempt' = attempt /\ decision' = decision /\ Told' = Told
    BY <1>4, <1>10 DEF Leaves
  <2>2. CASE decision # Undecided
    <3>1. \/ Phase' = Phase
          \/ Phase = "concluded" /\ Phase' = "over"
      BY <1>1, <1>10, <2>2 DEF Leaves, Ends
    <3> QED BY <1>2, <2>1, <3>1 DEF Lifecycle!Next, Lifecycle!Finish, Told
  <2>3. CASE decision = Undecided
    <3>1. Phase' = "broken" /\ Phase \in {"idle", "trying", "waiting", "broken"}
      BY <1>1, <1>7, <1>10, <2>3 DEF Leaves, Ends
    <3> QED BY <1>2, <2>1, <3>1 DEF Lifecycle!Next, Lifecycle!Break, Told
  <2> QED BY <2>2, <2>3
<1>11. CASE Strays
  <2>1. Phase' = "strayed" /\ Phase \notin {"idle", "waiting", "over"}
    BY <1>1, <1>5, <1>11 DEF Strays, Ends
  <2> QED BY <2>1 DEF Lifecycle!Next, Lifecycle!Stray
<1>12. CASE Concludes
  <2>1. attempt' = attempt /\ decision' = decision /\ Told' = Told
    BY <1>4, <1>12 DEF Concludes
  <2>2. Phase' = "over" /\ Phase \in {"concluded", "over"}
    BY <1>1, <1>7, <1>8, <1>12 DEF Concludes, Ends
  <2> QED BY <1>2, <2>1, <2>2 DEF Lifecycle!Next, Lifecycle!Finish, Told
<1>13. CASE Moves
  <2>1. /\ attempt' = attempt /\ decision' = decision /\ Told' = Told
        /\ UnderWay /\ decision = Undecided
    BY <1>4, <1>5, <1>13 DEF Moves, Ends
  <2>2. \/ Phase' = Phase
        \/ Phase = "trying" /\ Phase' = "waiting" /\ attempt < MaxAttempts
        \/ Phase = "waiting" /\ Phase' = "idle"
    BY <1>0, <1>1, <1>13, <2>1 DEF Moves, Ends, AttemptsLeft
  <2> QED BY <1>2, <2>1, <2>2 DEF Lifecycle!Next, Lifecycle!Wait, Lifecycle!Wake, Told
<1>14. CASE Begins
  <2>1. attempt' = attempt + 1 /\ decision' = decision /\ Told' = Told
    BY <1>4, <1>14 DEF Begins, EventNames
  <2>2. UnderWay /\ decision = Undecided
    BY <1>5, <1>6, <1>14 DEF Begins, Ends
  <2>3. Phase = "idle" /\ Phase' = "trying" /\ attempt < MaxAttempts
    BY <1>0, <1>1, <1>14, <2>2 DEF Begins, Ends, AttemptsLeft
  <2> QED BY <2>1, <2>3 DEF Lifecycle!Next, Lifecycle!Begin, Told
<1>15. CASE Enters \/ Fails \/ Refuses \/ Plans
  <2>1. attempt' = attempt /\ decision' = decision
    BY <1>15 DEF Enters, Fails, Refuses, Plans
  <2>2. Told' = Told
    BY <1>4, <1>15 DEF Enters, Fails, Refuses, Plans, EventNames
  <2>3. /\ Stage \in {"context", "body", "plan"} /\ UNCHANGED Ending
        /\ Stage' \in {"body", "reject", "exhaust", "plan", "recheck"}
    BY <1>15 DEF Enters, Fails, Refuses, Plans
  <2>4. Phase' = "trying" /\ Phase = "trying"
    BY <1>1, <1>5, <2>3 DEF Ends
  <2> QED BY <1>2, <2>1, <2>2, <2>4
<1>16. CASE Decides
  <2>1. PICK kind \in {"accept", "reject", "exhaust"} :
          /\ Stage = IF kind = "accept" THEN "body" ELSE kind
          /\ Announces(Verdict(kind), FALSE)
          /\ decision' = [kind |-> kind, total |-> attempt, failed |-> failed',
                          succeeded |-> succeeded']
    BY <1>16 DEF Decides
  <2>a. decision'.kind = kind
    BY <2>1
  <2>2. /\ attempt' = attempt /\ Stage' = "decided" /\ UNCHANGED <<finished, strayed>>
        /\ decision = Undecided /\ decision' # Undecided /\ ~finished
    BY <1>5, <1>7, <1>16, <2>1, <2>a DEF Decides, Undecided, Ends
  <2>3. Phase = "trying" /\ Phase' = "concluded"
    BY <1>1, <2>1, <2>2 DEF Ends
  <2>4. Told' = {<<Len(events'), Verdict(kind)>>}
    <3>1. Verdicts = {}
      BY <1>0, <2>2 DEF OneVerdict
    <3>2. Verdict(kind) \in EventNames
      BY DEF Verdict, EventNames
    <3>3. PICK e \in Events : e.name = Verdict(kind) /\ events' = Append(events, e)
      BY <1>0, <2>1, <3>2, AnnouncesOne
    <3>4. Verdicts' = {Len(events')} /\ events'[Len(events')] = e
      BY <1>0, <3>1, <3>3, AnnouncedGrows DEF Verdict
    <3> QED BY <3>3, <3>4 DEF Told
  <2>5. Lifecycle!Conclude(kind)
    <3>1. <<Len(events'), Verdict(kind)>>[2] = IF kind = "accept" THEN "after_success"
                                               ELSE "after_giveup"
      BY DEF Verdict
    <3> QED BY <2>1, <2>a, <2>2, <2>3, <2>4, <3>1 DEF Lifecycle!Conclude, Told
  <2> QED BY <2>5 DEF Lifecycle!Next
<1> QED BY <1>0, StepShape, <1>9, <1>10, <1>11, <1>12, <1>13, <1>14, <1>15, <1>16

\* Through run() and through the user's loop, an execution has the lifecycle it
\* promises as long as the loop does not stray: no more attempts than it may make,
\* one verdict that is announced once, and no attempt after it.
THEOREM LifecycleIsImplemented == Spec => ImplementsLifecycle
<1>1. Init => Lifecycle!Init
  <2> SUFFICES ASSUME Init PROVE Lifecycle!Init
    OBVIOUS
  <2>1. Verdicts = {} /\ decision = Undecided /\ ~strayed /\ pc \in {"top", "loop"} /\ attempt = 0
    BY DEF Init, Verdicts
  <2>2. Phase = "idle" /\ decision.kind = "undecided"
    BY <2>1 DEF Phase, Ends, Undecided
  <2> QED BY <2>1, <2>2 DEF Lifecycle!Init
<1>2. IInv /\ IInv' /\ [Next]_vars => [Lifecycle!Next]_(Lifecycle!vars)
  BY StepHasLifecycle
<1> QED BY <1>1, <1>2, InductiveInvariant, PTL DEF Spec, ImplementsLifecycle, Lifecycle!Spec

-----------------------------------------------------------------------------
\* The calls of the user's function.

\* Every before_attempt has an attempt number of its own, and there are no more of
\* those than the stop strategy allows, unless the user's loop goes on by itself.
CallsCounted ==
  ~strayed =>
    /\ attempt <= MaxAttempts
    /\ Cardinality(Announced("before_attempt"))
         <= IF Stage = "context" THEN attempt - 1 ELSE attempt

\* The loop of run() has no attempt contexts and never goes on after an exception.
RunNeverStrays == path = "run" => ~strayed /\ pc \notin {"loop", "context"}

LEMMA RunNeverStraysKept ==
  ASSUME TypeOK, EmitLeads, RunNeverStrays, [Next]_vars
  PROVE  RunNeverStrays'
<1> USE DEF RunNeverStrays
<1>1. CASE RunAttempt \/ NextContext \/ EnterContext \/ LeaveLoop \/ SkipContext
  BY <1>1 DEF RunAttempt, NextContext, EnterContext, LeaveLoop, SkipContext, Emit
<1>2. CASE CallHandler \/ HandlerInterrupts
  BY <1>2 DEF CallHandler, HandlerInterrupts
<1>3. CASE EmitDone
  BY <1>3 DEF EmitDone, EmitLeads
<1>4. CASE AttemptFails \/ AttemptAccepted
  BY <1>4 DEF AttemptFails, AttemptAccepted, Decide, Emit
<1>5. CASE AttemptRejected \/ AttemptInterrupted \/ DecisionRaises
  BY <1>5 DEF AttemptRejected, AttemptInterrupted, DecisionRaises
<1>6. CASE Reject \/ Exhaust \/ PlanRetry \/ Recheck \/ Sleep
  BY <1>6 DEF Reject, Exhaust, PlanRetry, Recheck, Sleep, Decide, Emit
<1>7. CASE RunEnds \/ Finish \/ Propagate
  BY <1>7 DEF RunEnds, Finish, Propagate
<1>8. CASE Over \/ UNCHANGED vars
  BY <1>8 DEF Over, vars
<1> QED BY <1>1, <1>2, <1>3, <1>4, <1>5, <1>6, <1>7, <1>8 DEF Next

LEMMA CallsCountedKept ==
  ASSUME TypeOK, TypeOK', AttemptsLeft, OneVerdict, CallsCounted, [Next]_vars
  PROVE  CallsCounted'
<1> DEFINE calls == Cardinality(Announced("before_attempt"))
<1> SUFFICES ASSUME ~strayed'
             PROVE  /\ attempt' <= MaxAttempts
                    /\ calls' <= IF Stage' = "context" THEN attempt' - 1 ELSE attempt'
  BY DEF CallsCounted
<1>1. attempt \in Nat /\ MaxAttempts \in Nat \ {0} /\ calls \in Nat
  BY FlowAssumption, AnnouncedFinite DEF TypeOK
<1>2. UNCHANGED events => calls' = calls
  BY DEF Announced
<1>3. ASSUME NEW name \in EventNames, NEW w \in BOOLEAN, Announces(name, w)
      PROVE  calls' = calls + (IF name = "before_attempt" THEN 1 ELSE 0)
  <2>1. PICK e \in Events : e.name = name /\ events' = Append(events, e)
    BY <1>3, AnnouncesOne
  <2> QED BY <2>1, CountGrows
<1> HIDE DEF calls
<1>4. ~strayed
  BY StepShape DEF Stays, Leaves, Strays, Concludes, Moves, Begins, Enters, Fails, Refuses, Plans,
       Decides, Ending
<1>5. attempt <= MaxAttempts /\ calls <= attempt
      /\ (Stage = "context" => calls <= attempt - 1)
  BY <1>1, <1>4 DEF CallsCounted, calls
<1>6. CASE Stays \/ Leaves \/ Concludes \/ Moves \/ Refuses
  <2>1. /\ attempt' = attempt /\ calls' = calls
        /\ Stage' = Stage \/ Stage' # "context"
    BY <1>2, <1>6 DEF Stays, Leaves, Concludes, Moves, Refuses, Counters, Ends
  <2> QED BY <1>1, <1>5, <2>1
<1>7. CASE Begins
  <2>1. attempt < MaxAttempts /\ attempt' = attempt + 1
    BY <1>4, <1>7 DEF Begins, OneVerdict, AttemptsLeft, UnderWay, Ends
  <2>2. CASE Stage = "top" /\ Stage' = "body" /\ Announces("before_attempt", FALSE)
    <3>1. calls' = calls + 1
      BY <1>3, <2>2 DEF EventNames
    <3> QED BY <1>1, <1>5, <2>1, <2>2, <3>1
  <2>3. CASE Stage' = "context" /\ UNCHANGED events
    BY <1>1, <1>2, <1>5, <2>1, <2>3
  <2> QED BY <1>7, <2>2, <2>3 DEF Begins
<1>8. CASE Enters
  <2>1. calls' = calls + 1 /\ attempt' = attempt /\ Stage = "context" /\ Stage' = "body"
    BY <1>3, <1>8 DEF Enters, Counters, EventNames
  <2> QED BY <1>1, <1>5, <2>1
<1>9. CASE Fails \/ Plans
  <2>1. calls' = calls /\ attempt' = attempt /\ Stage' # "context"
    <3>1. PICK name, w : /\ name \in EventNames \ {"before_attempt"} /\ w \in BOOLEAN
                         /\ Announces(name, w)
      BY <1>9 DEF Fails, Plans, EventNames
    <3>2. calls' = calls
      BY <1>1, <1>3, <3>1
    <3> QED BY <1>9, <3>2 DEF Fails, Plans, Counters
  <2> QED BY <1>1, <1>5, <2>1
<1>10. CASE Decides
  <2>1. PICK name, w : /\ name \in EventNames \ {"before_attempt"} /\ w \in BOOLEAN
                       /\ Announces(name, w)
    BY <1>10 DEF Decides, Verdict, EventNames
  <2>2. calls' = calls
    BY <1>1, <1>3, <2>1
  <2>3. attempt' = attempt /\ Stage' = "decided"
    BY <1>10 DEF Decides
  <2> QED BY <1>1, <1>5, <2>2, <2>3
<1>11. ~Strays
  BY DEF Strays
<1> QED BY StepShape, <1>6, <1>7, <1>8, <1>9, <1>10, <1>11 DEF calls

\* "attempts(n) for a maximum number of calls" (retry-lifecycle.md:41): kept by
\* every execution of run(), and by every block whose user's loop does not go on
\* after an error has left the with statement (StopAfterAttempt.should_stop asked in
\* each decision).
THEOREM CallsNeverExceed == Spec => [](path = "run" \/ ~strayed => AttemptsNeverExceed)
<1> DEFINE Inv == IInv /\ CallsCounted /\ RunNeverStrays
<1>1. Init => Inv
  <2> SUFFICES ASSUME Init PROVE Inv
    OBVIOUS
  <2>1. Announced("before_attempt") = {} /\ attempt = 0 /\ Stage # "context"
    BY DEF Init, Announced, Stage
  <2>2. CallsCounted
    <3>1. Cardinality(Announced("before_attempt")) = 0
      BY <2>1, FS_EmptySet
    <3> QED BY <2>1, <3>1, FlowAssumption DEF CallsCounted
  <2> QED BY <2>2, InitIInv DEF Init, RunNeverStrays
<1>2. Inv /\ [Next]_vars => Inv'
  <2> SUFFICES ASSUME Inv, [Next]_vars PROVE Inv'
    OBVIOUS
  <2>1. IInv'
    BY StepKeepsTypeOK, HistoryKept, EventOrderKept, LastEventKept, TallyKept, AttemptsLeftKept,
       OneVerdictKept, EmitLeadsKept, HeardKept DEF IInv
  <2> QED BY <2>1, CallsCountedKept, RunNeverStraysKept DEF IInv
<1>3. Inv => (path = "run" \/ ~strayed => AttemptsNeverExceed)
  <2> SUFFICES ASSUME Inv, ~strayed PROVE AttemptsNeverExceed
    BY DEF RunNeverStrays
  <2>1. attempt \in Nat /\ MaxAttempts \in Nat \ {0}
        /\ Cardinality(Announced("before_attempt")) \in Nat
    BY FlowAssumption, AnnouncedFinite DEF IInv, TypeOK
  <2> QED BY <2>1 DEF CallsCounted, AttemptsNeverExceed
<1> QED BY <1>1, <1>2, <1>3, PTL DEF Spec

=============================================================================
