SPECIFICATION FairSpec
CONSTANTS
  Acts = {1, 2, 3}
  TierD = {1}
  Ceiling = 2
  None = 0
CHECK_DEADLOCK FALSE
INVARIANT ContributorFollowsHolder
PROPERTIES QueueIsAccounted RecordSettles
