------------------------------ MODULE Submission ------------------------------
(***************************************************************************)
(* Client.Publish: one resource is submitted to the AstroBox catalog, call   *)
(* by call.  The files go to the resource's repository, which nothing here   *)
(* reads again; the catalog row goes to a branch of the owner's fork, and a   *)
(* pull request asks for it.  An attempt may end after any call, having lost  *)
(* its answer, and is made again; the reviewers and the owner go on between   *)
(* its calls.  Attempts of one resource exclude each other (the advisory      *)
(* lock, see Coordinator), and what a dead one asked for is done or not.      *)
(* The request to go on with is looked for; one that the creator names when   *)
(* he submits is in AstroBoxReview.                                          *)
(***************************************************************************)
EXTENDS Naturals, SequencesExt

CONSTANTS
  MaxPackages,   \* bounds of the model: revisions submitted,
  MaxMerges,     \* commits of the catalog's repository, the first one included,
  MaxPulls,      \* pull requests,
  MaxHalves      \* and uploads that stand half done, on a branch or merged

ASSUME SubmissionAssumption ==
  /\ MaxPackages \in Nat /\ MaxMerges \in Nat \ {0} /\ MaxPulls \in Nat
  /\ MaxHalves \in Nat

VARIABLES
  code,      \* versionCode of the package of each submitted revision
  package,   \* the package itself: the first revision that came with it
  catalog,   \* per commit of the catalog: the revision its row is of; 0: no row, or
             \* one of another tool, whose packages name no version code
  halves,    \* the commits that merged a branch with one file of an upload
  fork,      \* the fork: its default branch (a commit of the catalog, Own, or 0:
             \* absent) and the newest commit of the catalog it has objects of
  branch,    \* per key, that is per revision: the submission branch
  pulls,     \* pull requests: state and branch
  reopened,  \* a closed request was reopened
  attempt    \* Publish, its place and its local variables

submissionVars == <<code, package, catalog, halves, fork, branch, pulls, reopened, attempt>>
submitted == <<code, package>>
merged == <<catalog, halves>>

Keys == 1..MaxPackages
Own == MaxMerges + 1
NoFiles == [at |-> "absent", row |-> 0, digest |-> 0, base |-> 0]
NoAttempt ==
  [step |-> "idle", revision |-> 0, pull |-> 0, commit |-> 0, base |-> 0, row |-> 0, key |-> 0]

SubmissionInit ==
  /\ code = <<>> /\ package = <<>> /\ catalog = <<0>> /\ halves = {}
  /\ fork = [default |-> 0, objects |-> 0]
  /\ branch = [k \in Keys |-> NoFiles]
  /\ pulls = <<>>
  /\ reopened = FALSE
  /\ attempt = NoAttempt

Tip == Len(catalog)
OpenPulls == {n \in DOMAIN pulls : pulls[n].state = "open"}

-----------------------------------------------------------------------------
(* The creator, the reviewers and the owner *)

\* A revision is submitted, with the package of the last or with another one, which may
\* have the same version code.
SubmitRevision ==
  /\ Len(code) < MaxPackages
  /\ \/ \E c \in IF code = <<>> THEN {1} ELSE {Last(code), Last(code) + 1} :
          code' = Append(code, c) /\ package' = Append(package, Len(code) + 1)
     \/ code # <<>> /\ code' = Append(code, Last(code)) /\ package' = Append(package, Last(package))
  /\ UNCHANGED <<merged, fork, branch, pulls, reopened, attempt>>

\* Another resource's submission is merged.
CatalogMoves ==
  /\ Tip < MaxMerges
  /\ catalog' = Append(catalog, Last(catalog))
  /\ UNCHANGED <<submitted, halves, fork, branch, pulls, reopened, attempt>>

\* The catalog's own checks compare base_entry_digest with the row it has; a branch
\* without a row or a request asks for nothing.
Merge(n) ==
  LET files == branch[pulls[n].key] IN
  /\ pulls[n].state = "open" /\ Tip < MaxMerges
  /\ files.row # 0 /\ files.base # 0 /\ files.digest = Last(catalog)
  /\ catalog' = Append(catalog, files.row)
  /\ halves' = halves \union (IF files.at = "half" THEN {Tip + 1} ELSE {})
  /\ pulls' = [pulls EXCEPT ![n].state = "merged"]
  /\ UNCHANGED <<submitted, fork, branch, reopened, attempt>>

Close(n) ==
  /\ pulls[n].state = "open"
  /\ pulls' = [pulls EXCEPT ![n].state = "closed"]
  /\ UNCHANGED <<submitted, merged, fork, branch, reopened, attempt>>

Reopen(n) ==
  /\ pulls[n].state = "closed" /\ branch[pulls[n].key].at # "absent"
  /\ pulls' = [pulls EXCEPT ![n].state = "open"]
  /\ reopened' = TRUE
  /\ UNCHANGED <<submitted, merged, fork, branch, attempt>>

\* The branch goes after its request was merged or closed.
DeleteBranch(k) ==
  /\ branch[k].at # "absent" /\ \A n \in OpenPulls : pulls[n].key # k
  /\ branch' = [branch EXCEPT ![k] = NoFiles]
  /\ UNCHANGED <<submitted, merged, fork, pulls, reopened, attempt>>

\* The owner commits to the default branch of his fork.
OwnerDiverges ==
  /\ fork.default \in 1..MaxMerges
  /\ fork' = [fork EXCEPT !.default = Own]
  /\ UNCHANGED <<submitted, merged, branch, pulls, reopened, attempt>>

-----------------------------------------------------------------------------
(* Publish *)

Begun(n) == [NoAttempt EXCEPT !.step = "read", !.revision = Len(code), !.pull = n]

\* pendingSubmission; two of them are an error.
Waiting == OpenPulls

\* The newest revision is due, see Coordinator; the repository and its branch
\* main are made when they are missing, and the old manifest is read.
BeginPublish ==
  /\ attempt.step = "idle" /\ code # <<>>
  /\ \/ Waiting = {} /\ attempt' = Begun(0)
     \/ \E n \in Waiting : Waiting = {n} /\ attempt' = Begun(n)
  /\ UNCHANGED <<submitted, merged, fork, branch, pulls, reopened>>

\* syncFork, whose errors are ignored: merge-upstream, which brings the commits
\* of the catalog, and a forced update of the default branch to the newest.
SyncFork ==
  {fork, [default |-> Tip, objects |-> Tip]}
    \union (IF fork.default = Own THEN {[fork EXCEPT !.objects = Tip]} ELSE {})

\* ensureFork makes the fork and waits for its branch.
EnsureFork ==
  /\ attempt.step = "read"
  /\ fork' \in {f \in SyncFork : f.default # 0}
  /\ attempt' = [attempt EXCEPT !.step = "forked"]
  /\ UNCHANGED <<submitted, merged, branch, pulls, reopened>>

\* prepareCatalogSnapshot: the commit of the catalog, the base in the fork, and
\* the catalog at that commit, which must be the newest still.
ReadCommit ==
  /\ attempt.step = "forked"
  /\ attempt' = [attempt EXCEPT !.step = "noted", !.commit = Tip]
  /\ UNCHANGED <<submitted, merged, fork, branch, pulls, reopened>>

\* "Creating the temporary branch from the fork HEAD keeps the commit in the
\* fork's object database"
ForkBase == fork.default

ReadForkBase ==
  /\ attempt.step = "noted"
  /\ attempt' = [attempt EXCEPT !.step = "based", !.base = ForkBase]
  /\ UNCHANGED <<submitted, merged, fork, branch, pulls, reopened>>

\* Mutant: a package may replace another one of its version code.
AtLeast(r, published) == \A p \in {published} \ {0} : code[r] >= code[p]

\* validatePublishedVersions, of the package of one device: the same one, by its digest
\* or its blob, or a higher version code.  A row that names none is not compared.
Exceeds(r, published) ==
  \A p \in {published} \ {0} : package[r] = package[p] \/ code[r] > code[p]

CheckCatalog ==
  LET published == catalog[attempt.commit] IN
  /\ attempt.step = "based"
  /\ IF Tip = attempt.commit
     THEN /\ Exceeds(attempt.revision, published)
          /\ attempt' = [attempt EXCEPT !.step = "checked", !.row = published]
     ELSE attempt' = [attempt EXCEPT !.step = "forked", !.commit = 0, !.base = 0]
  /\ UNCHANGED <<submitted, merged, fork, branch, pulls, reopened>>

\* GitHub refuses a reference to a commit the fork does not have.
InFork(commit) == commit = Own \/ commit \in 1..fork.objects

\* writableSubmissionPR: the request that was found must be open still.
\* ensureSubmissionBranch: a branch of an earlier attempt is used as it is.
ChooseBranch ==
  /\ attempt.step = "checked"
  /\ IF attempt.pull # 0
     THEN /\ attempt.pull \in OpenPulls
          /\ attempt' = [attempt EXCEPT !.step = "chosen", !.base = 0, !.key = pulls[attempt.pull].key]
          /\ UNCHANGED branch
     ELSE /\ branch[attempt.revision].at # "absent" \/ InFork(attempt.base)
          /\ branch' = [branch EXCEPT ![attempt.revision].at = IF @ = "absent" THEN "base" ELSE @]
          /\ attempt' = [attempt EXCEPT !.step = "chosen", !.base = 0, !.key = attempt.revision]
  /\ UNCHANGED <<submitted, merged, fork, pulls, reopened>>

\* Mutant: the request names the newest commit of the catalog.
CurrentCommit == Tip

\* base_catalog_commit: the snapshot the digest is from
CatalogCommit == attempt.commit

\* base_entry_digest: the row the versions were compared with
EntryDigest == attempt.row

\* uploadFiles, when the head of the branch cannot be read: one of the two files is put
\* by itself.
PutOneFile ==
  /\ attempt.step = "chosen" /\ branch[attempt.key].at # "absent"
  /\ Cardinality(halves) + Cardinality({k \in Keys : branch[k].at = "half"}) < MaxHalves
  /\ \/ branch' = [branch EXCEPT ![attempt.key].at = "half", ![attempt.key].row = attempt.revision]
     \/ branch' = [branch EXCEPT ![attempt.key].at = "half", ![attempt.key].digest = EntryDigest,
                                  ![attempt.key].base = CatalogCommit]
  /\ attempt' = [attempt EXCEPT !.step = "begun"]
  /\ UNCHANGED <<submitted, merged, fork, pulls, reopened>>

\* The row and the request go to the branch in one commit, unless it was deleted.
UploadSubmission ==
  /\ attempt.step \in {"chosen", "begun"} /\ branch[attempt.key].at # "absent"
  /\ branch' = [branch EXCEPT ![attempt.key] =
       [at |-> "files", row |-> attempt.revision, digest |-> EntryDigest, base |-> CatalogCommit]]
  /\ attempt' = [attempt EXCEPT !.step = "submitted", !.commit = 0, !.row = 0]
  /\ UNCHANGED <<submitted, merged, fork, pulls, reopened>>

\* The title of the request that was found is patched.
UpdatePull ==
  /\ attempt.step = "submitted" /\ attempt.pull # 0
  /\ attempt' = NoAttempt
  /\ UNCHANGED <<submitted, merged, fork, branch, pulls, reopened>>

\* createPR; GitHub has one open request of a branch at most, and the answer
\* that one exists, or none, is followed by submissionByHead.
CreatePull ==
  /\ attempt.step = "submitted" /\ attempt.pull = 0
  /\ branch[attempt.key].at # "absent"
  /\ IF \E n \in OpenPulls : pulls[n].key = attempt.key THEN UNCHANGED pulls
     ELSE Len(pulls) < MaxPulls /\ pulls' = Append(pulls, [state |-> "open", key |-> attempt.key])
  /\ attempt' = NoAttempt
  /\ UNCHANGED <<submitted, merged, fork, branch, reopened>>

\* A call is refused, its answer does not come, or the process stops.
PublishFails ==
  /\ attempt.step # "idle"
  /\ attempt' = NoAttempt
  /\ UNCHANGED <<submitted, merged, fork, branch, pulls, reopened>>

SubmissionNext ==
  \/ SubmitRevision \/ CatalogMoves
  \/ \E n \in DOMAIN pulls : Merge(n) \/ Close(n) \/ Reopen(n)
  \/ \E k \in Keys : DeleteBranch(k)
  \/ OwnerDiverges
  \/ BeginPublish \/ EnsureFork \/ ReadCommit \/ ReadForkBase \/ CheckCatalog
  \/ ChooseBranch \/ PutOneFile \/ UploadSubmission \/ UpdatePull \/ CreatePull
  \/ PublishFails

SubmissionSpec == SubmissionInit /\ [][SubmissionNext]_submissionVars
-----------------------------------------------------------------------------
(* Properties *)

SubmissionTypeOK ==
  /\ code \in Seq(1..MaxPackages) /\ package \in Seq(1..MaxPackages)
  /\ catalog \in Seq(0..MaxPackages) /\ halves \subseteq 1..MaxMerges
  /\ fork \in [default : 0..Own, objects : 0..MaxMerges]
  /\ branch \in [Keys -> [at : {"absent", "base", "half", "files"}, row : 0..MaxPackages,
                          digest : 0..MaxPackages, base : 0..MaxMerges]]
  /\ pulls \in Seq([state : {"open", "merged", "closed"}, key : Keys])
  /\ reopened \in BOOLEAN
  /\ attempt.step \in {"idle", "read", "forked", "noted", "based", "checked",
                       "chosen", "begun", "submitted"}

\* What a branch asks the catalog for, once an upload is complete: a row in place of the
\* one the catalog had at the commit it names, of a package that may replace that one; the
\* fork has the commit a new branch is to start at.  However attempts are cut off, answers
\* lost, requests closed and branches deleted, the resource has one open request, as long
\* as nobody reopens one.
SubmissionIsCoherent ==
  /\ \A k \in Keys : branch[k].at = "files" =>
       /\ branch[k].digest = catalog[branch[k].base]
       /\ Exceeds(branch[k].row, branch[k].digest)
  /\ attempt.base # 0 => InFork(attempt.base)
  /\ ~reopened => Cardinality(OpenPulls) <= 1

\* The row of the catalog never changes to another package with a version code that is
\* not higher, also when requests are reopened and merged in any order while an attempt
\* goes on; but what was merged while one file of an upload was on its branch.
PublishedNeverGoesBack ==
  \A i \in 1..(Tip - 1) :
    \/ catalog[i] \in {0, catalog[i + 1]} \/ i + 1 \in halves
    \/ package[catalog[i]] = package[catalog[i + 1]] \/ code[catalog[i]] < code[catalog[i + 1]]
=============================================================================
