CONSTANTS
  Resources = {r1}
  MaxRevisions = 2
  Targets = {"bandbbs"}
  None = None
  Workers = {w1}
  MaxAttempts = 2
  MaxClaims = 2
SPECIFICATION Spec
PROPERTY SubmittedIsKept
CHECK_DEADLOCK FALSE
