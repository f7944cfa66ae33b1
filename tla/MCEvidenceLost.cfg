SPECIFICATION FairSpec
CONSTANTS
  Acts = {1, 2}
  Plain = {1, 2}
  MaxLives = 2
  MaxFaults = 0
  MaxCheckpoints = 0
PROPERTY LostStatusRepaired
CHECK_DEADLOCK FALSE
