CONSTANTS
  ForumIds = {b1}
  Item = item
  Pulls = {p1}
  Workers = {w1, w2}
  None = None
  MaxAttempts = 2
  MaxRemovals = 2
SPECIFICATION Spec
INVARIANTS
  CompletedIsGone
PROPERTIES
  RemovesForGood
CHECK_DEADLOCK FALSE
