SPECIFICATION FairSpec
CONSTANTS
  Bindings = {1, 2}
  Terminal = "closed"
  NoIntent = NoIntent
INVARIANTS TypeOK DurableTripHolds OneDriverCall IssuedRecordMeansOpened OrphanNeverActuates
PROPERTIES NoClosingOnceTripped TripEndsInCommand RecordRecovered
