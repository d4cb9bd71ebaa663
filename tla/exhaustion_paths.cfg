SPECIFICATION Spec
CONSTANT MaxCalls = 4
INVARIANTS
  LastBehaviorWins
  DecoratedAgrees
  BlockAgrees
\* The chain and the execution are over once the decision is made.
CHECK_DEADLOCK FALSE
