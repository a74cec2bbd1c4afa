CONSTANTS
  ForumIds = {b1}
  Item = item
  Pulls = {p1}
  Workers = {w1}
  None = None
  MaxAttempts = 2
  MaxRemovals = 2
SPECIFICATION FairSpec
PROPERTIES
  StepIsDecided
CHECK_DEADLOCK FALSE
