SPECIFICATION FairSpec
CONSTANTS
  e1 = e1  e2 = e2  k1 = k1
  Threads <- TwoExecutions
  Keys <- OneKey
  KeyOf <- SharedKey
  MaxRetries = 1
  Per = 2
  MinusPer <- MinusTicks
  PlusPer <- PlusTicks
  CleanupInterval = 3
  Delays <- SomeDelays
  MaxClock = 9
  MaxTokens = 4
  MaxAttempts = 3
  MaxTime = 8
  MaxSleep = 3
  StrategyMayRaise = TRUE
  HandlerMayRaise = TRUE
PROPERTIES
  EveryExecutionEnds
