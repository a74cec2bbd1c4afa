CONSTANTS
  Resources = {r1}
  MaxRevisions = 2
  Targets = {"bandbbs"}
  None = None
  Workers = {w1, w2}
  MaxAttempts = 2
  MaxClaims = 2
SPECIFICATION Spec
SYMMETRY Symmetric
INVARIANTS
  WritesOnlyCurrent
  UpstreamIsCurrent
  CurrentIsApproved
  DeletedIsQuiet
  OutcomeIsTold
CHECK_DEADLOCK FALSE
