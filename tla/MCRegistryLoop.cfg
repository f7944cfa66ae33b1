SPECIFICATION Spec
CONSTANTS
  Bindings = {1}
  Terminal = "open"
  NoIntent = NoIntent
INVARIANTS RetryLoopStopsOnlyOnShutdown
