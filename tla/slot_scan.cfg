SPECIFICATION Spec
CONSTANTS
  MaxRetries = 2
  MinusPer <- FloatMinus
  PlusPer <- FloatPlus
  Precision = 3
  Period = 3
  MaxNumber = 24
  MaxSlots = 4
  MaxTime = 13
INVARIANTS
  ReturnsFirstLegalSlot
  SlotIsLeast
  SnapshotPromise
PROPERTIES
  Termination
\* The loop returns.
CHECK_DEADLOCK FALSE
