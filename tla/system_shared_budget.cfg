SPECIFICATION Spec
CONSTANTS
  e1 = e1  e2 = e2  k1 = k1
  Threads <- TwoExecutions
  Keys <- OneKey
  KeyOf <- SharedKey
  MaxRetries = 1
  Per = 2
  MinusPer <- MinusTicks
  PlusPer <- PlusTicks
  CleanupInterval = 3
  Delays <- SomeDelays
  MaxClock = 4
  MaxTokens = 3
  MaxAttempts = 3
  MaxTime = 5
  MaxSleep = 2
  StrategyMayRaise = FALSE
  HandlerMayRaise = TRUE
INVARIANTS
  NothingLeaks
  SleepsWithinMaxTime
PROPERTIES
  RetriesArePaidAndOnTime
  ImplementsBudget
  ImplementsLifecycle
SYMMETRY Symmetry
