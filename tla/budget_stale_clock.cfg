SPECIFICATION Spec
CONSTANTS
  t1 = t1  t2 = t2  k1 = k1  k2 = k2
  Threads <- TwoThreads
  Keys <- OneKey
  MaxRetries = 1
  Per = 2
  MinusPer <- MinusTicks
  PlusPer <- PlusTicks
  CleanupInterval = 2
  Delays <- SomeDelays
  MaxClock = 3
  MaxTokens = 2
INVARIANTS
  RollingCapacity
