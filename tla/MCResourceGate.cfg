SPECIFICATION FairSpec
CONSTANTS
  Dispatches = {1, 2, 3}
  Events = {1, 2}
  NoEvent = 0
  None = 0
  Kinds <- AllKinds
  Plans <- AllPlans
CHECK_DEADLOCK FALSE
INVARIANTS AtMostOneExecutor JoinedTripRestsOnAnAct ProposalHeldUntilDisplaced
PROPERTIES ForeclosureHonoured ResourceComesFree CommandAskedOnce
