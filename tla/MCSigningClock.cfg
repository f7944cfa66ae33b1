SPECIFICATION FairSpec
CONSTANTS
  Clocks = {c1, c2}
  Reservation = 2
  LowWaterMs = 500
  MarkCeiling = 5
  Times = {0, 3}
INVARIANTS TypeOK LeadBounded
PROPERTIES NeverRepeats ServesUnlessAhead
