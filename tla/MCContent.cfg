CONSTANTS
  Uploaders = {u1, u2}
  NoUploader = NoUploader
  MaxVersions = 4
  MaxUploads = 3
  MaxFaults = 2
  Installers = {n1, n2}
  NoInstaller = NoInstaller
  MaxAssets = 2
  MaxDirs = 3
  Requests = {q1, q2}
  Banners = {b1}
  Sections = {s1, s2}
  Cards = {k1, k2}
  NoList = NoList
  MaxPosition = 2
  Articles = {a1, a2}
  Editors = {e1, e2}
  NoArticle = NoArticle
  Syncs = {y1, y2}
  MaxCommits = 3
  Values = {on, off}
  Default = off
  Changers = {h1, h2}
  NoChanger = NoChanger
  MaxRevision = 2
  MaxEdits = 6
  Sources = {rel1, rel2}
  NoSource = NoSource
  MaxVersion = 3
  Tags = {2, 3}
  Plain <- MCPlain
  MaxRows = 2
SPECIFICATION Spec
INVARIANTS
  TypeOK
  PluginFollowsItsVersions
  BucketFollowsRows
  ConsoleStaysWhole
  ListsAreOrdered
  PostsAreOneCommit
  PolicyIsEnforced
  OfferedWasListed
PROPERTIES
  RevisionKeepsItsWords
  SavesOverwriteNothing
  CreatorReplacesWhatHeSaw
CHECK_DEADLOCK FALSE
