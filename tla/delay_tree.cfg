SPECIFICATION Spec
CONSTANTS
  Trees <- SomeTrees
  MaxSleep = 3
  MaxRetryAfter = 3
INVARIANTS
  SumsTheLeaves
  StatefulSeesRealState
  AsksEachLeafOnce
  ServerIsHeeded
PROPERTIES
  Resolves
\* A resolution ends.
CHECK_DEADLOCK FALSE
