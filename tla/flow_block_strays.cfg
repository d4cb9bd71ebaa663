SPECIFICATION Spec
CONSTANTS
  Handlers <- OneHandler
  MaxAttempts = 2
  HistoryLimit = 2
  MaxBegins = 4
INVARIANTS
  AttemptsNeverExceed
