SPECIFICATION Spec
CONSTANTS
  Handlers <- SomeHandlers
  MaxAttempts = 3
  HistoryLimit = 2
  MaxBegins = 4
INVARIANTS
  EventOrder
  TotalsExact
PROPERTIES
  EveryHandlerHears
  ImplementsLifecycle
