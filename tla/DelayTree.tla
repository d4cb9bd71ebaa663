------------------------------- MODULE DelayTree -------------------------------
(***************************************************************************)
(* Resolving the delay before a retry: the dispatch of resolve_delay, the  *)
(* question delay_needs_state asks first, and the loop over an explicit    *)
(* stack of frames that sums a tree of AdditiveDelay.                      *)
(*                                                                         *)
(* A leaf is [kind, id, real, minimal, fails]: a "plain" strategy, which   *)
(* sees the attempt number only, or a "stateful" callback.  `real' is what *)
(* it answers to the real RetryState, `minimal' to the state made up for   *)
(* compositions without one; a plain leaf answers `minimal' always.  One   *)
(* that `fails' is a user's callback and may raise.  A sum is made of      *)
(* strategies that exist already, so that no tree contains itself.         *)
(***************************************************************************)
EXTENDS DelayBounds, Sequences, SequencesExt, FiniteSetsExt

CONSTANT Trees  \* the delay strategies considered

IsAdditive(t) == t.kind = "additive"

\* How deep sums are nested in t.
Nesting[t \in Trees] ==
  IF IsAdditive(t) THEN 1 + Max({0} \cup {Nesting[t.parts[i]] : i \in DOMAIN t.parts}) ELSE 0

ASSUME DelayAssumption ==
  /\ \A t \in Trees :
       IF IsAdditive(t) THEN t.parts \in Seq(Trees)
       ELSE t.kind \in {"plain", "stateful"} /\ t.real \in Int /\ t.minimal \in Int
  /\ Nesting \in [Trees -> Nat]
  /\ \A t \in Trees : IsAdditive(t) => \A i \in DOMAIN t.parts : Nesting[t.parts[i]] < Nesting[t]

VARIABLES tree,
          observed,  \* policy._has_handler("before_sleep")
          state,     \* "none" or "real": the state handed to resolve_delay
          frames,    \* the stack: [delay, index, total] each
          child,     \* resolved_child: None or the sum of a finished frame
          called,    \* history: the leaves asked, <<id, state seen>>
          pc         \* "begin", "resolve", "loop", "returned" or "raised"

vars == <<tree, observed, state, frames, child, called, pc>>

Frame(t) == [delay |-> t, index |-> 1, total |-> 0]

-----------------------------------------------------------------------------
\* Mutants of definitions below, one plausible slip each.
FirstChildOnly(t) == {i \in DOMAIN t.parts : i = 1 /\ IsAdditive(t.parts[i])}
PushOnly(t) ==
  /\ frames' = Append(frames, Frame(t))
  /\ UNCHANGED <<called, pc>>
-----------------------------------------------------------------------------
\* The AdditiveDelay children delay_needs_state pushes on its stack.
AdditiveChildren(t) == {i \in DOMAIN t.parts : IsAdditive(t.parts[i])}

\* delay_needs_state: its stack visits every AdditiveDelay of the tree.
DelayNeedsState[t \in Trees] ==
  \/ t.kind = "stateful"
  \/ /\ IsAdditive(t)
     /\ \/ \E i \in DOMAIN t.parts : t.parts[i].kind = "stateful"
        \/ \E i \in AdditiveChildren(t) : DelayNeedsState[t.parts[i]]

\* The state a leaf sees, as far as it can tell.
Seen(leaf) == IF leaf.kind = "stateful" /\ state = "real" THEN "real" ELSE "minimal"

Answer(leaf) == IF Seen(leaf) = "real" THEN leaf.real ELSE leaf.minimal

\* ensure_resolved_delay raises for a negative delay and one above the ceiling.
Valid(d) == d \in 0..MaxSleep

\* Mutant: an inner sum above the ceiling counts as nothing.
DroppedAbove(total) == IF total > MaxSleep THEN 0 ELSE total

Saturated(total) == Min({total, MaxSleep})

-----------------------------------------------------------------------------
Init ==
  /\ tree \in Trees /\ observed \in BOOLEAN
  /\ state = "none" /\ frames = <<>> /\ child = None /\ called = <<>>
  /\ pc = "begin"

\* _plan_retry makes a state only when somebody will look at it.
BuildState ==
  /\ pc = "begin"
  /\ state' = IF DelayNeedsState[tree] \/ observed THEN "real" ELSE "none"
  /\ pc' = "resolve"
  /\ UNCHANGED <<tree, observed, frames, child, called>>

\* Ask a leaf: its callback may raise, or answer with an invalid delay.
Ask(leaf, then) ==
  /\ called' = Append(called, <<leaf.id, Seen(leaf)>>)
  /\ \/ (leaf.fails \/ ~Valid(Answer(leaf))) /\ pc' = "raised"
     \/ Valid(Answer(leaf)) /\ pc' = then

\* resolve_delay of a strategy that is no AdditiveDelay.
ResolveLeaf ==
  /\ pc = "resolve" /\ ~IsAdditive(tree)
  /\ Ask(tree, "returned")
  /\ child' = IF pc' = "returned" THEN Answer(tree) ELSE None
  /\ UNCHANGED <<tree, observed, state, frames>>

ResolveTree ==
  /\ pc = "resolve" /\ IsAdditive(tree)
  /\ frames' = <<Frame(tree)>>
  /\ pc' = "loop"
  /\ UNCHANGED <<tree, observed, state, child, called>>

\* A nested AdditiveDelay gets a frame of its own; this frame goes on after it.
Push(t) ==
  /\ frames' = Append(Front(frames), [Last(frames) EXCEPT !.index = @ + 1]) \o <<Frame(t)>>
  /\ UNCHANGED <<called, pc>>

AskChild(leaf) ==
  /\ Ask(leaf, "loop")
  /\ frames' = Append(Front(frames),
                      [Last(frames) EXCEPT !.index = @ + 1, !.total = @ + Answer(leaf)])

\* The iteration that takes the sum of a finished child is the parent's next.
TakeChild ==
  /\ pc = "loop" /\ frames # <<>> /\ child # None
  /\ frames' = Append(Front(frames), [Last(frames) EXCEPT !.total = @ + child])
  /\ child' = None
  /\ UNCHANGED <<tree, observed, state, called, pc>>

Advance ==
  /\ pc = "loop" /\ frames # <<>> /\ child = None
  /\ LET top == Last(frames) IN
       /\ top.index <= Len(top.delay.parts)
       /\ LET t == top.delay.parts[top.index] IN
            IF IsAdditive(t) THEN Push(t) ELSE AskChild(t)
  /\ UNCHANGED <<tree, observed, state, child>>

\* Mutant: the end of a frame is tested one too late.
PopLate ==
  /\ pc = "loop" /\ frames # <<>> /\ child = None
  /\ Last(frames).index > Len(Last(frames).delay.parts) + 1
  /\ child' = Saturated(Last(frames).total)
  /\ frames' = Front(frames)
  /\ UNCHANGED <<tree, observed, state, called, pc>>

Pop ==
  /\ pc = "loop" /\ frames # <<>> /\ child = None
  /\ Last(frames).index > Len(Last(frames).delay.parts)
  /\ child' = Saturated(Last(frames).total)
  /\ frames' = Front(frames)
  /\ UNCHANGED <<tree, observed, state, called, pc>>

Return ==
  /\ pc = "loop" /\ frames = <<>>
  /\ pc' = "returned"
  /\ UNCHANGED <<tree, observed, state, frames, child, called>>

Next ==
  \/ BuildState \/ ResolveLeaf \/ ResolveTree \/ TakeChild \/ Advance \/ Pop \/ Return

Spec == Init /\ [][Next]_vars /\ WF_vars(Next)

-----------------------------------------------------------------------------
\* The reference: the leaves of a tree from left to right.
Leaves[t \in Trees] ==
  IF IsAdditive(t) THEN FlattenSeq([i \in DOMAIN t.parts |-> Leaves[t.parts[i]]])
  ELSE <<t>>

RealAnswer(leaf) == IF leaf.kind = "stateful" THEN leaf.real ELSE leaf.minimal
RealAnswers(t) == [i \in DOMAIN Leaves[t] |-> RealAnswer(Leaves[t][i])]

\* The delay returned is the sum of what the leaves answer to the real state, cut
\* at the ceiling, however the tree is nested: the cut of an inner sum never
\* changes the outer one.
SumsTheLeaves == pc = "returned" => child = Saturated(SumSeq(RealAnswers(tree)))

\* "every stateful child in the tree receives the real state" (stateful.py:97): a
\* state is made whenever one is needed, also when no event handler looks at it.
StatefulSeesRealState ==
  \A i \in DOMAIN called :
    LET leaf == Leaves[tree][i] IN leaf.kind = "stateful" => called[i][2] = "real"

\* Each leaf is asked once and in order, so that a callback or a random delay is
\* never drawn twice for one wait; a wait that is returned has asked them all.
AsksEachLeafOnce ==
  LET ids == [i \in DOMAIN Leaves[tree] |-> Leaves[tree][i].id]
      asked == [i \in DOMAIN called |-> called[i][1]]
  IN IsPrefix(asked, ids) /\ (pc = "returned" => asked = ids)

\* The loop comes to an end.
Resolves == <>(pc \in {"returned", "raised"})
=============================================================================
