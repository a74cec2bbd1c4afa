CONSTANTS
  Resources = {r1}
  MaxRevisions = 2
  Targets = {"astrobox"}
  None = None
  Workers = {w1, w2}
  MaxAttempts = 2
  MaxClaims = 2
SPECIFICATION SteadySpec
PROPERTIES
  RunningIsResolved
CHECK_DEADLOCK FALSE
