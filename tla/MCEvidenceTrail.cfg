SPECIFICATION FairSpec
CONSTANTS
  Acts = {1, 2}
  Plain = {1}
  MaxLives = 2
  MaxFaults = 1
  MaxCheckpoints = 2
INVARIANTS AttestedOnce SignedMeansSealed BootTellsRestarts
PROPERTY GapRepaired
CHECK_DEADLOCK FALSE
