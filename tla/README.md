# Formal models of OronBox-Server

OronBox-Server is the catalogue and creator back end of OronBox: creators upload
revisions of a resource, reviewers decide on them, a background coordinator publishes the
approved revision to the platforms the creator chose, BandBBS (a forum) and AstroBox (pull
requests on GitHub), and clients download, comment, vote and report.  This directory holds
TLA+ models of the protocols behind it, the TLC configurations that check them on small
instances, and proofs that hold for every instance.  `PROJECT.json` lists components, runs,
mutants, the source lines every definition models, hazards, findings and theorems.

    tlc -workers 2 -config MCCoordinator.cfg MCCoordinator     # a run of the table below
    tlapm CoordinatorProofs.tla                                # all proofs of a module

All paths below are under `src/internal/` unless they start with `docs/`.

## 1. The system

| Component | State it keeps | Operations | What makes it correct | Modules |
|---|---|---|---|---|
| `creator` (bundle, review_decision, resources, reviews), administration in `store`, `store/resources` | `resources`, `resource_revisions`, `review_cases`, `publications`, `publication_attempts` (immutable history) | save a draft, submit, approve, reject, take down, restore, delete; admin drafts, rollback, discard; suspend, freeze; retry and cancel publications | one open case, one approved revision which is the current one; a deleted resource is quiet; the history tells what happened | `Catalog` |
| drafts (`creator/submit_draft.go`, `store/admin_revision_*.go`) | `edit_version`, the unpublished revisions | read a page, save, read and pack a draft, submit | nobody replaces a text he has not seen | `Drafts` |
| `coordinator` | publications' state, attempts, leases; the advisory lock of a resource, held on a database session | `publishOne`, `pollOne`, called by `tick` | only the approved current revision is written; what is reported is on the platform; nothing claimed is forgotten | `Coordinator`, `AstroBoxReview` |
| `publish/astrobox` | repositories, a fork, branches and pull requests on GitHub, the catalogue CSV | synchronise the fork, snapshot the catalogue, upload, open or update the request | the request replaces the row it was compared with; one request; version codes grow | `Submission`, `AstroBoxReview` |
| `publish/bandbbs` | forum resources, per category | find or create, add a version, add an update | no second forum resource, one live version, after any lost answer | `BandBBSDispatch` |
| deletion steps (`creator/deletion.go`, `coordinator/data.go`) | `resource_deletion_operations`, `_steps` with leases | claim, execute, finish, retry | what is gone stays gone and only that is reported | `Deletion`, `Removal` |
| replication, maintenance, `blob` | files, R2 objects, `blobs`, `blob_replicas` | store, upload, record, prune, collect garbage | nobody is sent to an object that is gone | `Storage` |
| client sessions (`store/identity.go`) | `oauth_states`, `login_tickets`, `sessions`, receipts | authorize, exchange, rotate, log out, revoke, ban | one answer per rotation, repeated when lost; an ended session is ended | `Sessions` |
| console sessions (`store/admin_sessions.go`) | `admin_sessions` | log in, rotate with overlap, log out | a cookie just handed out is accepted | `ConsoleSessions` |
| `oauth/bandbbs`, `server/github_auth.go` | `oauth_grants`, `github_grants`, flows | renew under a lock, connect, disconnect | a token is spent once; the link follows the user's wishes | `Grants`, `GitHubLink` |
| coins, comments, feedback | their tables and triggers | gifts, reversals; posts, verdicts, batches; answers, decisions | accounts agree; what is held back is unseen; the history is a chain | `Coins`, `Comments`, `Feedback` |
| collections | `resource_collections`, `_revisions`, `resources.collection_id` | propose, review, govern | the live collection is the approved one | `Collections` |
| plugins, releases, home page | their tables | upload, review, copy from a repository, order lists | what is offered follows the versions; lists stay ordered | `Plugins`, `Releases`, `Home` |
| articles (`server/blog_content.go`), documents and policies (`server/legal_content.go`, `runtime_settings.go`) | a repository, copies in the database and in memory | edit, commit, synchronise, refresh | a save overwrites nothing unseen; agreed words stay; what is stored is enforced | `Blog`, `Policies` |
| `consoleupdate` | directories and `current.json` on disk | check, download, unpack, rename, remove | an installed console stays whole over crashes | `ConsoleUpdate` |
| attestation, rate limiting, messages, diagnostics, the rest | tables behind one mutex or one statement, or none | | | not modelled, section 6 |

How they interact.  HTTP handlers and the coordinator share nothing but the database (and
the platforms).  A handler is mostly one transaction; `publishOne`, `pollOne`,
`ProcessDeletionStep` and `replicateOne` are not: they claim a row in one statement, talk to
somebody else for minutes, and write the outcome in another transaction, while every handler
goes on.  Several handlers also read in one statement and write in another, or call GitHub,
BandBBS or a repository in between.  What stands between them: the **advisory lock of a
resource** (`pg_try_advisory_lock`), which a worker holds on a session of its own while it
publishes and which `decideReview`, `Delete` and `RequestAstroBoxReopen` ask for; **lease
tokens** of publications under review and of deletion steps, which every later statement
repeats; the **advisory locks** of an OAuth grant and of a list of the home page;
**`edit_version`** and the blob identities of a repository, compared when a page is saved;
and in memory the mutexes of the policies and of the installation.

What is hard: eligibility read before a slow write; workers that die between claim and
outcome; lost answers and retries by another worker; a lock whose session dies; two
revisions under review through one pull request; polls that fail while leases run out;
several calls that read one repository while others push; pages read in parts; a state read in a statement that
locks another row; transactions under READ COMMITTED that overlap; settings stored without an answer; refresh tokens used
twice; a renamed directory that a crash un-renames.  `PROJECT.json` "hazards" has each at its line.

## 2. Modules

| Module | State | Checked in |
|---|---|---|
| `Catalog` | `moderation`, `current`, `deletion`, `revState`, `caseState`, `pubState`, `attempts`, `lastRow` (newest history row), `lock` | with `Coordinator` |
| `Coordinator` (EXTENDS `Catalog`) | `pc`, `item`, `attempt` per worker; `upstream` (what a platform was last given), `pullRequest`, `dropped` | `MCCoordinator` (adds the symmetry of the workers) |
| `AstroBoxReview` | rows, requests and what the catalogue has of them, reopenings that wait, holder of the lock, pollers | itself |
| `BandBBSDispatch` | the current revision's row and progress, the binding, the forum, what the worker holds | `MCPublish` |
| `Submission` | packages with their version codes, the catalogue's commits, fork, branches, requests, the attempt | `MCPublish` |
| `Deletion`, abstractly `Removal` | the steps' rows with leases, forum resources, catalogue, requests, what each worker holds | itself |
| `Sessions`, `ConsoleSessions`, `Grants`, `GitHubLink`, `Coins`, `Comments`, `Feedback`, `Collections` | section 1 | `MCPeople` |
| `Plugins`, `Storage`, `ConsoleUpdate`, `Home`, `Blog`, `Policies`, `Drafts`, `Releases` | section 1 | `MCContent` |
| `CoordinatorProofs`, `DeletionProofs`, `AccountsProofs` (sessions, grants, GitHub), `CommunityProofs` (coins, comments, feedback, collections), `ServerProofs` (storage, console, policies), `ContentProofs` (plugins, drafts, articles, home page, releases), `PublishProofs` (the clients of BandBBS and AstroBox), `AstroBoxProofs` (the review of AstroBox publications) | theorems and proofs | |

`MCPublish`, `MCPeople` and `MCContent` check components that share no variable in one run: `focus`
chooses at the start which of them moves, and the others stay in their initial state.  The reachable
states are exactly the union of those of the single modules, so nothing is lost against a run for
each, and nothing is claimed about their composition, because in the code nothing of one is read or
written by the other.  That each step of the three is a step of every module or leaves it alone is proved
(`PublishImplementsEach`, `PeopleImplementEach`, `ContentImplementEach`).  Where components do interact (`Catalog` with the workers, `AstroBoxReview` with both platforms'
rows and the reopening) they are composed.

**Catalog.**  A revision is `<<resource, revision_no>>`, a publication `<<revision, target>>`:
the schema keeps both unique.  The guard of an action is the conditions and early returns
of the handler; a refused request rolls back and is no step.  `moderation` folds
`moderation_state` and, for "suspended", `moderation_by`; `revState` distinguishes the
administrator's drafts.  The local target "oronbox" is published by the approval itself and
never dispatched, so it is not a target here.  Handlers of one transaction are atomic
steps: the ones that matter run serializable or take the rows they change with FOR UPDATE.

**Coordinator.**  `pc` follows `publishOne`: `Claim` (one statement), `Acquire` or `Busy`,
`CheckEligible` or `CheckIneligible` (the second look with the lock held), `Write` or
`WriteRefused` (the platform), `Finish`, `FinishFailed`, `Fail`, `Unlock`.  `Write` lets the
platform apply the write whether or not the worker learns of it.  `Stop` is a crash, a
cancelled context or a refused query: the row stays, the session's lock goes.
`DropSession` loses the lock's connection while its worker goes on.  Which due row is
the oldest depends on back-off times, so any due row may be claimed.  One step `Write`
stands for the calls of `BandBBSDispatch` or `Submission`.
`PollOutcome` and `Reopen` are `pollOne` and `RequestAstroBoxReopen` by their effect on rows,
in one step each; `AstroBoxReview` has them in detail.

**AstroBoxReview.**  One resource whose every revision has an AstroBox publication.
GitHub's side is `Review`, `Apply` (the catalogue follows a merge) and reopening by
anybody; time is `GraceEnds` (two minutes) and `LeaseExpires` (five minutes).  `publishOne`
is split where it reads and writes GitHub (`Choose`, `OpenNew`, `Upload`, `FinishPublish`),
the poll where it commits (`PollClaim`, `PollRetire`, `PollRead`, `PollCommit`).  The number of the pull request frozen
into a plan at submission may be out of date: the model takes any request there ever was.

The row a publication expects in the catalogue names the commit of its last complete attempt.  `carries` is whose files are on
a request's branch, `named` the requests whose files are those of the commit its publication has recorded, `entry` the request
whose row the catalogue has; `ExpectedRow` is what `catalogRowsEqual` compares.  So the files of an attempt whose answer was lost
are the same revision's and yet not what the next attempt waits for.

The reopening is split where the code gives way to others: `AskReopen` is the first SELECT, which sees the publication and the newer ones as they
are and then waits for the resource's row, the one row it locks (`creator/reviews.go:177`); `BeginReopen` has that row and the
advisory lock and looks at nothing again; `AskGitHub` and `AbandonReopen` are the calls inside its transaction; `CommitReopen`
writes the publication by its id (`:197`).  So a cancel that commits during the wait is undone, as in the code.
The number of the request is read just before the transaction (`server/creator_astrobox.go`), the model takes it with the SELECT:
what it reads is in the same row.  `MaxReopenings` bounds how many are asked for.  A rejection has the
effect of `Cancel` on a row; hiding and deleting are in `Catalog`.

**BandBBSDispatch.**  `Begin` is the claim and the reading of binding and progress; then, for every
category not done with, `Post` finds, creates or edits the forum resource, `AddVersion` makes the
version and removes the ones it replaces, `AddUpdate` posts the update.  Each has a `...Fails` form: the call is
refused, or takes effect (wholly, or with some old versions still there) and the answer is lost.
`Fail` is `recordBandBBSPartial` with the outcome of the attempt, `Finish` and `FinishFails` the
outcome of a complete one, `Stop` a crash.  A version or an update stands for the revision it was made
for; `LooksTheSame` is what the code can see of it: version string, file name and size.  Only the row of the
current revision is kept, because no other is dispatched.  `Submit` has what a submission does to the
binding: the claims of an import are saved over it again.  The code visits the categories in the order of the
plan, the model in any; the imported bindings are read just before
the transaction of a submission, in the model at any time.

**Submission.**  `Client.Publish` call by call: `BeginPublish` (the open request is looked for), `EnsureFork` with the
synchronisation whose errors are ignored, `ReadCommit`, `ReadForkBase` and `CheckCatalog` (the snapshot that is read again
when the catalogue has moved, and the comparison of version codes), `ChooseBranch`, `PutOneFile` and `UploadSubmission`, `UpdatePull` or
`CreatePull`; `PublishFails` is the end of the attempt after any of them, with the answer of the call lost.  Meanwhile
reviewers merge, close and reopen, other submissions move the catalogue, branches are deleted and the owner commits to
his fork.  The merge checks `base_entry_digest`, as the catalogue's own checks do: this is an assumption about them.
`uploadFiles` makes one commit of its files, except when it cannot read the head of the branch: then one file is put by itself first
(`publish/astrobox/github.go:34-48`), and an attempt that ends there leaves the branch with the row of one upload and the request of
another.  `halves` are the merges of such a branch.  `validatePublishedVersions` compares the package of a device with the published one:
the same package, by digest or blob, is let through, another one needs a higher version code, and a row that names no version code
(0, as if there were none) is not compared.  A row stands for the revision it is of.  The repository of the resource's files is read by nothing here.

**Deletion, Removal.**  `Init` is what `Delete` wrote: a step for every forum resource and for the AstroBox item the
resource was bound to.  `Claim` is the statement that takes a due step and gives it a lease, `Save` the one
that writes the outcome if the lease is still its own; between them are the calls, one action each: `DeleteForum`,
or `ClosePull`, `ReadCatalog`, `FindRemoval`, `OpenRemoval`, `AskStatus`, or `CallFails` (refused, or done with
the answer lost).  `Die` is a crash or a refused update; `LeaseExpires` the ten minutes; `DecidePull` and
`DecideRemoval` are the reviewers of the AstroBox catalogue.  `Pulls` are the requests the publications remember.  A lease token
is named by its worker, which is exact: a worker has one claim at a time, and a new one replaces the old.  A request that was
closed is not reopened, and the resource is not restored meanwhile.  `Removal` is what a deletion promises, without workers, leases or platforms: things vanish for
good, only vanished things are reported, reports stay.  `Deletion` implements it under the mapping `Promise`: present is
what exists or could still come back, reported are the completed steps.

**Sessions.**  A pair of tokens is a number.  Requests and answers of a rotation stay in the network for ever, so each may be lost,
late or repeated.  `Rotate` is the first SELECT of `RotateSessionWithReceipt`, read again after waiting for the row; `Replay`
is the receipt.  `handleBandBBSCallback` is split where it looks at the account.  A client may give an id or not; what
the property promises it depends on that.  Session clean-up after expiry is `TokenExpires`.

**ConsoleSessions.**  The clock is counted in ticks, `Overlap` of them are the 30 seconds.  A tab presents any cookie it was ever
given; reading the session and rotating it are steps of their own, as in the handlers and `RotateAdminSession`.

**Grants.**  `GrantToken` from the lock to the return: read, renew, save the pending pair, validate, take it over, invalidate.
The lock is held on a connection that may be lost while the caller goes on; BandBBS accepts a refresh token once.

**GitHubLink.**  Web and device flows, their completion after any delay, the disconnection that revokes before it deletes, and
requests that drop the token GitHub rejected if it is still the stored one.

**Coins.**  A coin is ten units; gifts, rewards and reversals are serializable transactions, one step each.  The ledger is kept as
sums per user and kind, which is all the code reads of it.  The day is the one of Shanghai; a day is a step.

**Comments.**  `Judge`, `Post` and the batches of administrators; the triggers that announce are part of the statements that fire
them.  A reply is posted while only its parent is locked, so the root above it may be hidden or deleted.  The verdict is any of
those the moderation may give.

**Feedback.**  `UpdateFeedback` locks the row and is one step; the reporter's answer reads the ticket before it, and opens it again whatever it is by then.

**Collections.**  The proposals by owner and administrators, deletions, the review, the membership a revision brings with it, and the page
a proposal is written from, read in parts outside any transaction: the owner's first with the row and `edit_version`, then the pending
revision (`OpenPage`, `FinishPage`); the administrator's first with the row and the revisions, and `edit_version` in a query
of its own at the end (`OpenAdminPage`, `FinishAdminPage`; `store/admin_collections.go:232-301`), so that it may name a version that is newer than what it
shows.  A revision keeps which one was live when the version its author named was read; `DeleteCollection` names none.
`CreateCollection`, `UpdateCollectionMetadata` and `SetCollectionResources` are left out: they have no route.

**Plugins.**  Uploads, reviews of the pending version, metadata revisions and states set by hand.  The message of a decision is
made by a trigger or by the handler, never by both; `notified` counts them.

**Storage.**  One content: file, row, references, replica and object.  Pruning, replicating and collecting are one goroutine, in
steps where they leave the database; any call may fail, have done what it reports as failed, or be the last before a crash.

**ConsoleUpdate.**  Check, download and unpack (one step, which may fail), rename, the directory syncs, `current.json`, removal of what
a failed installation left, and the page of a browser, which outlives the server.  `Crash` brings back what was synced: a rename no sync
followed may be undone, also that of `current.json`, whose last sync may fail without anybody noticing; `unsynced` counts the installations since.
The page is then as many installations younger, or of one that is undone.  A file that
was synced is assumed to keep its entry, as journaling file systems do.

**Home.**  A transaction in steps: the lock of its list, the read of a position, the write; READ COMMITTED.

**Blog.**  A repository of commits: the manifest is the entries of all articles.  A save reads at one commit and its own commit
names the files it replaces.  `ApplyBlogSnapshot` is a READ COMMITTED transaction of many statements, and synchronisations overlap, because every
save has one beside `RunContentSync`: `WriteRow` upserts a row as soon as nobody else has it locked, `StartWithdraw` is the
last statement, which sees the rows committed by then, `WriteRow` again the rows it unpublishes, `CommitSnapshot` the commit.  `unseen` are the articles that others
put in the table after that statement began.  Two transactions that wait for each other are ended by the database (`ContentSyncFails`).

**Policies.**  A legal document, which may be edited, leave the manifest and come back (only three documents are required), copied
to a setting (`StoreLegal`, whose answer may be lost) and then to memory (`UseLegal`), and read from the setting at the start, or not; `served` is the last that memory
had, `free` says that nothing holds the next one to it.  The policies are changed under a mutex: stored, then applied.  A commit whose answer is lost
(`ChangeUnanswered`) and a policy that cannot be applied (`ApplyAIPolicyFails`) leave memory behind the settings; a restart enforces what the configuration says for
each setting that it cannot read.  `astray` are the policies this happened to, until one is applied.

**Drafts.**  `edit_version` numbers the edits; the page and the reading of a draft are several queries, each a step.  The discarding of an
admin draft and the upload of an asset do not count it on, and the model does not either.

**Releases.**  Rows numbered in the order of insertion.  A synchronisation reads pages that shift when a release is withdrawn, and
then commits one transaction, a statement of which is a step of the model: `copy` is the table as the open transaction
has it, `syncing.left` the releases of the listing it has not come to, and `offers` what everybody else sees.  The console writes in
between; where its statement needs a row the transaction has locked, or would give a version the transaction has given, it waits.
Versions and tags are texts; `Plain` takes the leading "v" from a text, which the copy does with tags and the console does not with
what is typed.  Only stable releases for every platform, because no synchronisation touches the others.

## 3. Runs

| Run | Instance | Shows |
|---|---|---|
| `coordinator` | 1 resource, 2 revisions, BandBBS, 2 workers, MaxAttempts 2, 2 claims per row; crashes, lost sessions | `WritesOnlyCurrent`, `UpstreamIsCurrent`, `CurrentIsApproved`, `DeletedIsQuiet`, `OutcomeIsTold` |
| `coordinator_steady` | the same with AstroBox, without crashes, with fairness | `RunningIsResolved` |
| `astrobox_review` | 2 revisions, 2 pull requests, 1 reopening, 1 poller | `AcceptedIsInCatalog`, `GraceIsHonoured`, `NoUnaskedRevival` |
| `astrobox_review_live` | 2 revisions, 1 pull request, 1 reopening, 1 poller, fairness | `OverIsNoticed` |
| `publish` | BandBBS: 2 categories, one imported, 2 revisions out of 2 plans, 2 attempts each, 3 forum resources; AstroBox: 2 revisions, 3 commits of the catalogue, 2 requests, one upload at a time half done | `MCTypeOK`, `OneResourcePerCategory`, `PublishedCarries`, `OneLiveVersion`, `SubmissionIsCoherent`, `PublishedNeverGoesBack` |
| `deletion` | 1 forum resource, the AstroBox item, 1 request of its own, 2 removal requests, 2 workers, MaxAttempts 2 | `CompletedIsGone`, `RemovesForGood` |
| `deletion_live` | the same with 1 worker, fairness | `StepIsDecided` |
| `people` | see `MCPeople.cfg` | `TypeOK` and the properties of its eight modules |
| `content` | see `MCContent.cfg` | `TypeOK` and the properties of its eight modules |
| `hiding_cancels`, `submitted_is_kept`, `requeued_is_eligible` | smallest instances | the findings of section 5, expected to be violated |

What the properties say.  Publication:

- `WritesOnlyCurrent`: a worker that writes and holds the lock writes the approved current
  revision of a resource that is not deleted, although it looked minutes ago.
- `UpstreamIsCurrent`: when the current revision's publication is published or under review,
  the platform has that revision.  The property leaves out a resource one of whose locks lost its session
  (`dropped`): the code has no fencing there, and a slow worker can then write last.
- `CurrentIsApproved`: at most one approved revision, the current one, whoever submits, approves, rejects or discards.
- `DeletedIsQuiet`: nothing of a deleted resource is running, under review or failed, so
  neither a worker's late outcome nor a poll nor a retry brings it back.
- `OutcomeIsTold`: "running", "published" and "failed" are always told by the newest history row.
- `RunningIsResolved` (liveness): a claimed publication does not stay running.
- `GraceIsHonoured`: no poll fails a publication within two minutes after its owner asked for
  another review, not even one that had read "closed" before.
- `AcceptedIsInCatalog`: "published" is said only of the revision the files of whose last attempt were merged and whose row reached the
  catalogue, even when two revisions, or two attempts of one, share the request.
- `NoUnaskedRevival`: a cancelled publication comes back only by being queued again, or by the one reopening that looked at it before
  it was cancelled and now holds the lock (section 5); no poll brings it back, whatever it has read.
- `OverIsNoticed` (liveness): a publication whose expected row is in the catalogue, or that a newer one replaced on its request, does not
  stay under review, although polls fail and pollers die holding a lease.  A row that is never in the catalogue, because a lost attempt's was merged instead, is not noticed
  by the code and not meant by the property (section 5).
- `OneResourcePerCategory`: as long as the resource keeps its name no category gets a second forum
  resource, although creates are lost, workers die and bindings are forgotten.
- `PublishedCarries`: "published" is said when every category is bound to a forum resource with the
  revision's own version and update, whatever was resumed or adopted.  The code may adopt a version of an
  earlier revision that looks the same; only then is the revision's own missing.
- `OneLiveVersion`: a published revision's version string is shown by one version per forum resource, although attempts
  were repeated; the overwriting mode and an empty version string are left out because the code promises less there.
- `SubmissionIsCoherent`: what a branch asks the catalogue for after a complete upload replaces the row the catalogue had at the commit it names, by a
  package that may replace it; and the resource has one open request as long as nobody reopens one.
- `PublishedNeverGoesBack`: the catalogue never goes to another package whose version code is not higher, unless a branch was merged that had
  one file of an upload (`halves`).
- `CompletedIsGone`: a deletion step that says "completed" is right: the forum resource is gone, or the item is out of the
  catalogue and no request is open that could bring it back.
- `RemovesForGood`: the steps implement `Removal`; in particular a completed step never says anything else again, not even when a
  worker that outlived its lease reports a failure, and what is gone stays gone.
- `StepIsDecided` (liveness): a step does not stay pending or running, although calls fail and workers die.

People:

- `RotationHasOneAnswer`: a pair of tokens has one successor, whoever asks and how often; a repeated answer is the first one; a client
  that keeps the id of its rotation is not locked out by lost answers.
- `EndedIsEnded`: after a logout in time nobody uses the session, not even by a rotation on its way; under a ban no session opens or
  goes on.
- `HandedOutIsAccepted`: a tab is let in with a cookie it was given less than 30 seconds ago, however others rotate.
- `ReauthorizationHasAReason`: a grant is given up only when access was withdrawn or a new pair was lost before it was saved.
- `LinkFollowsTheUser`: a GitHub token is stored only by an authorization begun after the last disconnection, and dropped only when GitHub
  accepts it no longer.
- `CoinsAreAccounted`: balances, ledger and counting votes agree over gifts, reversals, new gifts and adjustments; summed over all
  users, a reward is kept for coins that count, but for what a reversal could not take back, and what was spent covers them.
- `HeldBackIsUnseen`: what the moderation held back is seen and announced to nobody else, what it blocked not even seen by its author, and no
  comment is announced twice.
- `HistoryIsTold`: a ticket's history is a chain that ends in its status, and the author of a report was told of every change.
- `CollectionsAreAsApproved`: a collection is what its last approved proposal says, no proposal overlooks a revision that became live
  since the version it names was read (all that the page showed its owner; an administrator's page may show less, section 5), and a visible resource is shown exactly once.

Content:

- `PluginFollowsItsVersions`: the waiting version is the newest, the live one is the only one listed and its package is what is
  downloaded, and the uploader is told once of every decision.
- `BucketFollowsRows`: whoever is sent to the bucket finds the object, and objects that are not public are pruned, as long as no step at the
  bucket was cut off or lied about (`torn`): then the code recovers later or not, and promises nothing; rows and references agree always.
- `ConsoleStaysWhole`: over failures and crashes `current.json` names whole, synced directories, and a page in a browser loaded one installation ago still
  finds its assets, also after the server crashed, unless the crash undid the page's own installation (section 5).
- `ListsAreOrdered`: no two items of a list have one position, whatever transactions overlap.
- `SavesOverwriteNothing`: a save replaces the article its author saw and no other.
- `PostsAreOneCommit`: what visitors read is one commit of the repository as a whole, however synchronisations overlap, unless the last one
  left an article it could not see (`mixed`, section 5).
- `RevisionKeepsItsWords`: what memory serves of a document after a copy of it is a newer revision or the same, over edits, failed syncs, lost answers and restarts, unless a manifest
  was copied without the document or a process could not read the copy at its start.
- `PolicyIsEnforced`: when no change is under way, each policy in memory is what the settings say, but for those that went astray: not read at the start,
  stored without an answer or not applied, and not applied since.
- `CreatorReplacesWhatHeSaw`: every text that a creator's save or submission replaces was shown to him, and what he submits is the newest of it
  with its files.  A text there is: when an administrator's discarding has taken the row away, nothing is replaced.  The attempt to prove
  the property found that its first form forgot this; six edits are too few for TLC to come to that state.
- `OfferedWasListed`: a text of a version is offered once, and one of the repository only as the last copied listing has it, without the "v" of its tag.

Each property has a mutant (`PROJECT.json`): a plausible bug in a modelled definition that
makes TLC find the property violated in that run.

**Bounds.**  One resource suffices because every statement and the lock name one resource and
the rows of two never meet (the batch retry is the union of single ones); the proofs are for
any number.  Two revisions give the old and the new one; two workers a slow and a fast
one; two claims per row the retry and the last attempt; two requests a plan that names the
wrong one.  `MaxRevisions`, `MaxClaims` and `MaxRequests` bound counters the code leaves
open; at a bound the guarded action is simply not taken.  In `publish` one upload may stand half done, on a branch or merged
(`MaxHalves`); the theorems about `Submission` are for any number of them.  One category starts bound and one does not, and the third forum
resource and the second pull request are the one too many; three commits of the catalogue let it move during a snapshot and take a
merge.  One reopening (`MaxReopenings`) may wait while everything else goes on; a second one after it would start from a state the first may start from.  In `deletion` two workers
are the one that outlived its lease and the one that took over, MaxAttempts 2 (5 in the code) has one retry and the final
attempt, and the second removal request is the one after a declined one; a worker that took over is not needed for
`deletion_live`.  One poller is enough for losing a lease:
a reopening or an expired lease takes it away, and the same poller may come back.
In `people`: one login with three pairs (a rotation, its repetition, another) and two ids, since no statement joins two logins' rows
but the revocation of all, which is also taken with the one; two tabs and
four generations; two callers and four pairs of a grant; one flow of each kind; one voter with a gift, its reversal and another gift, where
the creator is the second account; two comments, a root and its reply; four changes of a ticket; two collections that compete for one
resource.  In `content`: two uploaders and four versions; three stores of a content and two faults; two installers, two
releases and three directories; two requests on two cards, two sections and a banner; two editors of two articles and two
synchronisations, a save's and the loop's, over three commits; two changers and two policies; two revisions of a document; six edits of a resource; two releases of a
repository, three texts of versions of which one is another with a "v" before it, and two rows.  These are the smallest numbers at which every action is taken and each mutant is found.
Deadlock is not checked: when the bounds are used up the
model may stop, and a real deployment is idle when nobody asks anything of it.

**Fairness.**  `SteadySpec`: each worker's call of `publishOne` runs to its end, because the
calls are bounded by HTTP timeouts and the loop waits for nothing else; nothing is assumed of
handlers, of claims, or of the platforms' answers.  It is a deployment that stays up:
after a crash a running row *does* stay running until a person acts, because no code takes
up running rows (a hazard, not a divergence: `admin_health` counts them).  `FairSpec` of `AstroBoxReview`: time passes
(WF of `LeaseExpires`); `tick` polls until nothing is due, in the order of
`next_attempt_at`, which every poll moves back, so that a row under review is polled again
and again (SF of `PollClaim`), and a poll does not fail every single time (SF of reading and
committing); this assumes that the token of the owner, with which GitHub is asked, is accepted now and then: an owner who disconnects
GitHub for good leaves the review open.  `Deletion`'s `FairSpec`: the loop claims by `next_attempt_at`, which every outcome
moves back, so every due step has its turn (SF of `Claim`); the calls end by HTTP timeouts (WF of `Proceeds`); time passes; and
workers are not lost for ever (eventually none dies or outlives its lease while working).  Nothing is assumed of GitHub's
reviewers, of owners, or of handlers.

## 4. Proofs

Each holds for every set of actors and all bounds, from the named assumptions about the constants alone.

| Module | Theorems |
|---|---|
| `CoordinatorProofs` | `TypeCorrect`, `Invariance`, `WritesOnlyCurrentAlways`, `CurrentIsApprovedAlways`, `OneOpenCaseAlways`, `UpstreamIsCurrentAlways`, `OutcomeIsToldAlways`, `DeletedIsQuietAlways` |
| `DeletionProofs` | `DeletionTypeCorrect`, `DeletionInvariance`, `CompletedIsGoneAlways`, `DeletionKeepsPromise` |
| `PublishProofs` | BandBBS: `BandBBSInvariance`, `BandBBSTypeCorrect`, `OneResourcePerCategoryAlways`, `PublishedCarriesAlways`, `OneLiveVersionAlways`; AstroBox: `SubmissionInvariance`, `SubmissionTypeCorrect`, `SubmissionIsCoherentAlways`, `PublishedNeverGoesBackAlways`; both: `PublishImplementsEach`, `PublishTypeCorrect` |
| `AstroBoxProofs` | `ReviewInvariance`, `ReviewTypeCorrect`, `AcceptedIsInCatalogAlways`, `GraceIsHonouredAlways`, `NoUnaskedRevivalAlways` |
| `AccountsProofs` | sessions: `SessionsInvariance`, `RotationHasOneAnswerAlways`, `EndedIsEndedAlways`; console: `ConsoleInvariance`, `HandedOutIsAcceptedAlways`; BandBBS: `GrantsInvariance`, `GrantsTypeCorrect`, `ReauthorizationHasAReasonAlways`; GitHub: `LinkInvariance`, `LinkTypeCorrect`, `LinkFollowsTheUserAlways` |
| `CommunityProofs` | coins: `CoinsInvariance`, `CoinsTypeCorrect`, `CoinsAreEarned`, `CoinsAreAccountedAlways`; comments: `CommentsTypeCorrect`, `HeldBackIsUnseenAlways`; feedback: `FeedbackTypeCorrect`, `HistoryIsToldAlways`; collections: `CollectionsInvariance`, `CollectionsAreAsApprovedAlways`; all eight: `PeopleImplementEach`, `PeopleTypeCorrect` |
| `ServerProofs` | storage: `StorageTypeCorrect`, `BucketIsFollowed`; console: `ConsoleTypeCorrect`, `ConsoleIsWhole`; policies: `PoliciesInvariance`, `PoliciesTypeCorrect`, `PolicyIsEnforcedAlways`, `RevisionKeepsItsWordsAlways` |
| `ContentProofs` | plugins: `PluginsInvariance`, `PluginsTypeCorrect`, `PluginFollowsItsVersionsAlways`; drafts: `DraftsInvariance`, `DraftsTypeCorrect`, `CreatorReplacesWhatHeSawAlways`; articles: `BlogInvariance`, `BlogTypeCorrect`, `PostsAreOneCommitAlways`, `SavesOverwriteNothingAlways`; home page: `HomeInvariance`, `HomeTypeCorrect`, `ListsAreOrderedAlways`; releases: `ReleasesInvariance`, `ReleasesTypeCorrect`, `OfferedWasListedAlways`; all eight: `ContentImplementEach`, `ContentTypeCorrect` |

**Coordinator.**  `TypeOK` is not inductive: `Write` stores the revision in hand on the
platform, so a worker must have one (`ItemInHand`).  `IInv` adds to it what makes
`WritesOnlyCurrent` inductive.  A worker that holds the lock read `Eligible` under it, and
the only handlers that change which revision is current, take away an approval or delete
(`Approve`, `Delete`) ask for the lock first; the other handlers leave an approved current revision
alone because an approved revision is the current one (`CurrentIsApproved`), belongs to its resource
(`CurrentOwn`) and is neither a draft nor submitted (`OneOpenCase` for the cases).
`LockInv` says who a holder is: a worker past `Acquire`, working on that resource.
Lemma `LockProtects` is that step for the handlers, `WorkerKeeps` for the workers.

`UpstreamIsCurrentAlways` needs more (`PlatformInv`): every publication a worker ever took up is of
a revision that was approved (`WorkedOnApproved`); a worker whose write was answered and who kept its lock wrote what the
platform has (`WrittenIsThere`); a publication that has a pull request put its revision on the
platform (`PullRequestIsThere`), which is why a reopening may report it again; and as long as no
session was lost, a worker past `Acquire` holds its lock (`SessionInv`).  `ApprovedStays` and
`CatalogPublishesNothing` are the two facts about handlers it rests on.

`OutcomeIsTold` and `DeletedIsQuiet` are proved together (`TellingInv`), because both say what a statement that writes a state does
besides: lemmas `CatalogTells` and `CatalogQuiets` go through the handlers, `WorkerTellsAndQuiets` through the workers, the poll and the
reopening, whose updates all ask for a state that a deleted resource's publication does not have.

**AstroBoxReview.**  None of the three properties is inductive: each is about what a poll decides at the end from what it read in
the middle.  Only a row under review has a lease (`LeasedIsUnderReview`), which needs in turn that an unapproved revision was never sent
(`UnapprovedIsUnsent`), because an approval queues the publication whatever its state.  So a row cannot get another request, nor wait for another commit's
row, while a poll owns its lease; the number of the request and the expected row are written together (`RowsAreOwn`); and
since a merge is final, what the poll saw in the catalogue is still there when it commits (`SeenIsSo`).  The two minutes start in the
transaction that takes the lease away, so a poll that owns it knows of them (`GraceIsKnown`).  Of a reopening little is known, because what it saw
may be out of date: it is of a publication that was sent, and names a request there is (`WaitingWasSent`, `HolderKnows`).  That is enough for the types, and for
`NoUnaskedRevival`: of the statements that write a state only the one of the reopening that holds the lock asks for none.
It may also bring back a publication that a poll accepted meanwhile; the next poll accepts it again.  That GitHub forgets no request (`RequestsExist`) is what makes the polls'
answers well typed.  Who writes which variable is proved once (`StateWriters` and the like), so each conjunct is split over its writers only.

**Deletion.**  Only a running step has a lease (`LeaseOfRunning`), so a worker that comes late finds no lease of its own on a
completed step.  The requests of the item are closed before anybody reads the catalogue, hence before there is a removal
request (`ClosedFirst`), and closed ones stay closed; so what a removal took out of the catalogue stays out
(`MergedIsGone`), and a worker about to report success reports the truth (`ReportIsTrue`), even when its report comes late
(`GoneKept`: what is gone stays gone).  `DeletionKeepsPromise` is the refinement: the initial states map to those of `Removal`, and
every step, under the inductive invariant, to `Vanish`, to `Report` or to a stutter.

**BandBBSDispatch.**  What a step may do to the forum is in one formula (`ForumMoves`): nothing goes, a name becomes the revision's, the versions of
the resource in hand change only while its version is not recorded, and a resource is created only where none is known or found.  With it:
an id names a resource of its category (`Pointing`); result, progress and binding agree wherever two of them are set (`Reached`), so that resuming
never turns to another resource; what is recorded as done is so (`Evident`), whichever attempt recorded it, because the one
place that takes a version away, `replaceVersion`, runs before its category is recorded as versioned; and a claimed category stays bound to its
imported resource (`ClaimedStay`), since `upsertBandBBSBinding` refuses to move it and the claim that a submission saves over the binding is the
same.  `Once` follows from this and the search by name; it is the case in which a binding was forgotten that needs the search.
`InOrderMeetsAll` is the lemma about lists of places that the order of versions needs; it is by induction over a set of numbers.
The bound on the forum must admit the imported resources (`Cardinality(Claimed) <= MaxForum`).

**Submission.**  The catalogue is appended to, so what an attempt has read of it stays as read and what it has compared may be asked for until the
files are uploaded (`AttemptKnown`); a branch whose upload is complete keeps what it asks for (`BranchKnown`), although the catalogue moves on, and the merge asks
for the row at the branch's base; of a branch with one file nothing is known but that its row is of a revision.  `NeverBack` has to say that a row does not vanish.  `OneOpen`: as long as
none is reopened, an attempt that found no open request at its start knows that there is none, because no other attempt of the resource can open one meanwhile.
The catalogue has its first commit at the start, so `MaxMerges` is not 0.

**Sessions.**  A pair that was exchanged is current nowhere any more, and its receipts agree on one successor (`OneSuccessor`); what was
answered was asked for and has its receipt (`AnswersWereAsked`).  A client that keeps to its id is at most one rotation behind, by a rotation of that
id (`ClientFollows`): so a receipt brings it up, and none of another id can stand in its way.  That a session which ended stays
closed is `EndsAreFinal`.

**ConsoleSessions.**  `HandedInOrder` dates the credentials: the current one is younger than the session's last rotation, the one before was last given
out before it, and those before that are older than the overlap.

**GitHubLink.**  Every flow that can still store a token began after the last disconnection (`FlowsAreCurrent`); tokens at rest come from flows that have
ended (`ReadTokensAreSpent`); and the disconnection, which holds the user's lock from its read to its delete, deletes
the token it has revoked (`DeletesWhatItRevoked`).

**Grants.**  Whoever acts with a connection holds the lock (`LockIsHeld`); pairs are issued once, so that a login's is in nobody else's
hand (`PairsAreFresh`); and unless there was a reason, the chain of pairs goes on (`ChainGoesOn`): BandBBS accepts the latest pair, saved or
pending, or its successor is with the one caller that is about to save it.  So the answer `invalid_grant` has a reason.

**Coins.**  A gift and a reversal change a row of the voter and one of the creator, and `TwoRowsKeep` says that both accounts go along.  The
sums over all users (`SumFunction`) need induction over finite sets.  The library's induction theorems have an operator for a parameter; here
the induction is over a *set* (`SubsetsInduction`, from the minimal element of a set of numbers), which the provers can do.  `PartialSums` shows
that the recursion of the fold has a solution, so that `SumOfChange` follows: one value changes, and the sum by as much.  `CoinsAreEarned` then
needs that a creator's reversals are not positive and a voter's not negative (`ReversalsOnTheirSide`).

**Collections.**  One proposal of a collection waits at most, and it was written against the live revision (`WaitsForOne`); a page that names the
present version was read of it when the revision that is live was live already (`PageIsHonest`), because every approval counts the version on.

**Comments.**  A held comment is not visible, and a comment whose readers were not told counts no message (`HeldIsHidden`); so the
triggers, which announce only what is visible and was not announced, announce no held comment and none twice (`WriteKeepsInv`).  Who answers
a held comment saw it when the answer was admitted, and only its author did (`HeldIsUnanswered`); approvals are never taken back, so it
was held then if it is now.  `SeenIsVisible` says that no list shows what `commentVisibility` refuses.

**Feedback.**  `HistoryIsTold` follows from a row-by-row form: the rows chain up to the status (`Chained`), and the n-th message is about
the change n+1 of the history (`Told`).  A change appends to both (`ChainGrows`, `TellingGrows`), because `UpdateFeedback` reads the
status under the row's lock and not the one the handler read before.

**Storage.**  Where the object is at each step of the coordinator (`ObjectKnown`), that a step at the bucket runs under a replica
marked `uploading` (`ReplicaMarked`), and that no row goes while its replica is worked on (`RowsKept`).

**ConsoleUpdate.**  One holder of the mutex (`OneAtWork`), whose directory no pointer names before it is synced (`OwnDirectory`); so what
a failure removes and what a crash undoes is never what `current.json` names.  A page that was not undone is of the current directory or, one
installation later, of the previous one, and so it is of what a crash would bring back, counted from there (`PageKnown`): hence it outlives the crash.

**Policies.**  Who holds the mutex and has stored a policy knows it (`KnownIsStored`), and if nobody does, every policy in memory that did not go astray is what
is stored (`AppliedOrKnown`).  Of documents memory, which a new one is compared with, has the one that was served, and what is stored, which a restart will
serve, follows it (`MemoryIsCopy`): so a copy that was stored without an answer may be skipped by memory but never
taken back; as long as nothing let go of the document (`free`).

**Plugins.**  Rows and messages go in step (`RowsInStep`); at most the newest version waits and the plugin names it (`NewestWaits`); the
live version is the only one listed and has the plugin's package (`LiveIsListed`), unless the console listed a plugin that has none
(`ListedByForce`); new words wait for the package they were written for (`WordsKeepPackage`); one message per decision (`ToldOnce`).

**Drafts.**  A submission is of the page that was read (`PageUnderWay`); and as long as `edit_version` is the page's, every text there is was
shown on it (`PageIsComplete`), although the page is read in parts and an administrator's discarding does not count.

**Blog.**  What editors and synchronisations have read are commits (`ReadsAreCommits`), no commit has a body its manifest does not list
(`BodiesAreListed`), and what a save read is what was shown, entry by entry (`ReadIsShown`): so its commit takes away nothing else.
A synchronisation writes every article of its commit, and then every other row there is but for those it does not see (`SnapshotIsComplete`), and only
rows are published (`PublishedIsListed`): so its commit leaves one commit's posts.

**Home.**  A transaction holds the lock of a list of its item (`LocksHeld`).  What is read and what will be written stays true until the commit
(`WritesHold`) because others in that list wait; an item under creation is nobody else's (`CreatesAlone`); a section whose deletion is written
has received nothing since (`DeletionsExclude`).  The new item comes after the greatest position (`GreatestIsThere`).

**Releases.**  A text is in one row, in the table and in the open transaction's (`VersionsApart`); a copied row that is available is as the
last applied listing has it (`AsListed`), the rows the transaction has come to as it was read (`CopiedAsRead`); and outside it the rows of the
console alone change.

**Compositions.**  `PublishImplementsEach`, `PeopleImplementEach` and `ContentImplementEach`: the composed specification implements that of every module, so each theorem
about a module alone holds of the runs `publish`, `people` and `content`, and with the types of the modules follows the type invariant of each run.

Only model-checked:

- `RunningIsResolved`, `OverIsNoticed`, `StepIsDecided`: liveness under fairness and ENABLED are outside what the installed provers can do.

## 5. Where the code and its texts disagree

1. `hiding_cancels`: an administrator's suspend or freeze cancels only `pending` publications
   (`store/resources/moderation.go:78`); the comment there says pending and running.
2. `submitted_is_kept`: `AdminDiscardRevisionDraft` also deletes a submitted revision whose case
   is pending (`store/admin_revision_assets.go:34`); its comment says submitted revisions can
   never be discarded through it.
3. `requeued_is_eligible`: `AdminRequeueBlobReplica` puts a failed replica into state `pending`
   (`store/admin_blobs.go:374`), which none of the conditions of `replicateOne`
   (`coordinator/replication.go:68-72`) claims; its comment says it becomes eligible for the next attempt.

Known besides, without a run of their own:

- A takedown, like a newer submission, a rejection, a deletion and the second look of `publishOne`, cancels without a row in
  `publication_attempts`; `docs/admin.md:14` says every cancellation is kept.  `OutcomeIsTold` is about the other outcomes.
- When everything was written to BandBBS and `finish` fails (`coordinator/bandbbs.go:89`), nothing of it is recorded and the
  retry posts the update again; the comment at `publish/bandbbs/client.go:96` says a replay creates no duplicates.
  `OneLiveVersion` holds all the same, for versions are compared before one is added.
- A retry that overwrites removes the version of its own lost attempt and leaves the one that was to be
  overwritten (`publish/bandbbs/versions.go:87`).
- The number of a pull request is frozen into the plan at submission (`creator/bundle_bindings.go:139`); when that request is
  closed before the publication runs, every attempt fails.  When a request is merged with the older revision's files after it was
  chosen (`publish/astrobox/client.go:392`), the newer publication waits for a row that never comes.
- A resource restored by an administrator after its deletion cannot be deleted again (`creator/deletion.go:63`): the old
  operation answers for it.
- The reporter's answer is refused for a dismissed ticket by a status read before (`server/feedback.go:123`, "dismissed feedback cannot be
  reopened"), and opens the ticket again when it is dismissed in between.
- A reopening that waits for the resource's row brings back a publication that an administrator cancels meanwhile
  (`creator/reviews.go:177`, `:197`), and its answer says that another review was asked for.
- A publication waits for the catalogue row of its last attempt's commit (`publish/astrobox/client.go:353`).  When the files of a lost attempt were merged
  the retry's row never comes, and the review stays open until somebody cancels or publishes again.
- When the head of a submission branch cannot be read, one file is put there before the others (`publish/astrobox/github.go:34`); an attempt that ends there leaves
  a branch whose row and request are not of one upload, and a reviewer may merge it.
- An administrator's page of a collection may name a newer `edit_version` than the text it shows (`store/admin_collections.go:301`), so that
  his edit replaces an approved revision he has not seen.
- A page of the console whose installation a crash undid, the sync of the directory having failed unnoticed (`consoleupdate/installation.go:154`), finds
  its assets in neither directory until it is loaded anew.
- Two overlapping synchronisations of articles, each of which puts an article in the table for the first time, can leave posts of two commits
  until the next one (`store/blog_sync.go:26`); and a loop's synchronisation that read before a save may end after the save's own.
- A legal document that is not one of the three required ones may leave the manifest and come back with the same revision, or an older one, and other words
  (`server/legal_content.go:81-98`); and after a process that could not read its copy, the next copy is compared with nothing.
- A setting that cannot be read when the server starts is passed over (`server/runtime_settings.go:308`, `:314`): the server listens with the configured policy until
  the refresh half a minute later.  A policy stored without an answer, or with a key that cannot be decrypted, is not enforced while the console shows it as stored.
- The copy of releases takes the "v" from a tag (`store/releases.go:90`), the console keeps it in what is typed (`server/admin/releases.go:52`), so that `1.2.3` and `v1.2.3` may both be offered.
- A client that gives no id with its rotation is locked out by a lost answer, and its logout misses a session that was rotated meanwhile.

## 6. Not modelled

Because it has no protocol: parsing and validating bundles, BBCode, CSV and manifests, rendering, queries, ranking,
configuration, logging, wiring, the migrations run at start, messages and announcements, devices, diagnostics, the audit log.
Each of their writes is one statement on rows nothing else decides by.

Because no request reaches it: what section 2 names of collections.

Attestation and the rate limiter keep tables in memory behind one mutex, every operation one step; what they check is
cryptography and a sum.  `ReviewBatch`, all or nothing over several resources, is the conjunction of single reviews in one
transaction.  External purchase and the prefixes and images of BandBBS are data of a call that is modelled.  Back-off
times are any time.  `maintain` deletes expired rows of other tables in statements of their own.

Not composed: `Coordinator` treats a platform's write as one step with an unknown outcome, which `BandBBSDispatch` and
`Submission` have in detail; that they implement this step is not stated as a refinement, because what one call may leave behind on a
platform is more than one value.
