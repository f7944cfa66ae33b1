SPECIFICATION FairSpec
CONSTANTS
  Alerts = {1, 2}
  Kinds <- Pairs
  Batch = 1
  Limit = 2
  MaxCrashes = 1
CHECK_DEADLOCK FALSE
INVARIANTS ObligationKept
PROPERTIES EveryRowGetsItsTurn EveryReceiptIsPolled
