SPECIFICATION Spec
CONSTANTS
  t1 = t1  t2 = t2
  Threads <- TwoThreads
  Results <- SomeResults
  MaxCalls = 4
INVARIANTS
  CountersAreTally
  SnapshotsAddUp
