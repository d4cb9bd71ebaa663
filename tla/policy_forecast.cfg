SPECIFICATION ForecastSpec
CONSTANTS
  plain = plain  os = os  connection = connection  val1 = val1
  Exceptions <- SomeErrors
  Types <- SomeTypes
  Values <- OneValue
  Limits <- SomeLimits
  UserStops <- SomeStops
  Parts <- SomeParts
  StopTrees <- SomeStopTrees
  ConditionTrees <- SomeConditionTrees
  MaxMoment = 4
  MaxCalls = 3
  Tunings <- SomeTunings
  DelayTrees <- SomeDelayTrees
  Durations <- ShortDurations
  BudgetWaits <- SomeWaits
  MaxSleep = 5
  MaxAttempt = 4
  ManyAttempts = 3
  LongSleep = 3
  ProbedAttempts = 2
  OSError <- OSErrors
  PlainException = plain
  PlainOSError = os
INVARIANTS
  StopsAsWritten
  RetriesAsWritten
  AnalysesBoundAttempts
  ForeverNeverStops
  NoDelayMeansNoSleep
  SimulationIsTheIdleRun
  RandomnessIsReported
  ReportsAreTight
  ExhaustionIsObserved
  LongSleepIsReported
  BroadMeansBroad
\* An execution stops, and is followed for MaxAttempt attempts only.
CHECK_DEADLOCK FALSE
