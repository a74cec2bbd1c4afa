CONSTANTS
  Logins = {l1}
  RotationIds = {i1, i2}
  NoId = NoId
  MaxPairs = 3
  Tabs = {t1, t2}
  Overlap = 2
  MaxTime = 5
  MaxGeneration = 3
  Callers = {c1, c2}
  NoCaller = NoCaller
  MaxTokens = 4
  Flows = {f1, f2}
  WebFlows = {f1}
  Checks = {k1}
  NoFlow = NoFlow
  MaxDisconnects = 2
  Voters = {v1}
  Creator = owner
  DailyRewards = {2}
  Deltas = {1}
  MaxDays = 1
  MaxGifts = 4
  MaxAdjusted = 1
  Commenters = {a, b}
  ResourceOwner = o
  MaxComments = 2
  Verdicts = {"none", "pass", "review", "block"}
  Tickets = {t}
  NoStatus = NoStatus
  MaxChanges = 4
  Collections = {set1, set2}
  Resources = {r1}
  NoCollection = NoCollection
  MaxProposals = 3
SPECIFICATION Spec
INVARIANTS
  TypeOK
  RotationHasOneAnswer
  EndedIsEnded
  HandedOutIsAccepted
  ReauthorizationHasAReason
  CoinsAreAccounted
  HeldBackIsUnseen
  HistoryIsTold
  CollectionsAreAsApproved
PROPERTIES
  LinkFollowsTheUser
CHECK_DEADLOCK FALSE
