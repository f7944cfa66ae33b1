SPECIFICATION FairSpec
CONSTANTS
  Deliveries = {1, 2, 3}
  Events = {1, 2}
  Arrivals <- OneTwice
  TierD = {10}
  Others = {20}
  Window = 1
CHECK_DEADLOCK FALSE
INVARIANTS ReclaimedOnlyPastWindow
PROPERTIES OneTurnPerWindow EventSettles
