SPECIFICATION FairSpec
CONSTANTS
  Proposals = {1, 2}
  Keys = {1, 2}
  Assignments <- InOrder
  Ceiling = 1
INVARIANTS OutcomeAlwaysHeld
PROPERTIES OutcomeLands DefaultAttempted
