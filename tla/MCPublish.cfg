CONSTANTS
  Categories = {1, 2}
  None = None
  Claimed = {1}
  Plans <- MCPlans
  MaxRevisions = 2
  MaxClaims = 2
  MaxForum = 3
  MaxPackages = 2
  MaxMerges = 3
  MaxPulls = 2
  MaxHalves = 1
SPECIFICATION MCSpec
INVARIANTS
  MCTypeOK
  OneResourcePerCategory
  SubmissionIsCoherent
  PublishedNeverGoesBack
PROPERTIES
  PublishedCarries
  OneLiveVersion
CHECK_DEADLOCK FALSE
