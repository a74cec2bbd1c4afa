--------------------------------- MODULE Blog ---------------------------------
(***************************************************************************)
(* Articles of the home page.  They live in a repository (external): a      *)
(* manifest of all articles and a body for each.  Administrators edit them  *)
(* through the console, others push commits; copies in the database follow, *)
(* written row by row in transactions that may overlap.                     *)
(***************************************************************************)
EXTENDS Naturals, Sequences

CONSTANTS
  Articles,
  Editors,      \* administrators, each with one article open
  NoArticle,    \* an editor has none open
  Syncs,        \* RunContentSync and the synchronisation after a save
  MaxCommits    \* bound of the model on the commits of the repository

ASSUME BlogAssumption == NoArticle \notin Articles /\ MaxCommits \in Nat

VARIABLES
  commits,   \* commits of the repository: per article the number of the commit
             \* that last changed its entry in the manifest and its body (0: none)
  desk,      \* per editor: the commits the open page and the save have read
  fetched,   \* per synchronisation: the commit it read (0: none is under way)
  stage,     \* how far its transaction is: "idle", "writing" the articles of its
             \* commit, "withdrawing" what is not in it
  todo,      \* rows its statements have yet to write
  locked,    \* rows it has written, locked until it ends
  unseen,    \* articles whose rows others put in the table since its last
             \* statement began, which that statement does not see
  posts,     \* blog_posts: per article the commit its body is of (0: not published)
  listed,    \* articles that have a row
  mixed      \* whether the last synchronisation left an article it did not see

copies == <<fetched, stage, todo, locked, unseen, posts, listed, mixed>>
blogVars == <<commits, desk, copies>>

NoText == [a \in Articles |-> [meta |-> 0, body |-> 0]]
NoDesk == [step |-> "closed", article |-> NoArticle, shown |-> 1, read |-> 1]

BlogInit ==
  /\ commits = <<NoText>>
  /\ desk = [e \in Editors |-> NoDesk]
  /\ fetched = [s \in Syncs |-> 0]
  /\ stage = [s \in Syncs |-> "idle"]
  /\ todo = [s \in Syncs |-> {}]
  /\ locked = [s \in Syncs |-> {}]
  /\ unseen = [s \in Syncs |-> {}]
  /\ posts = [a \in Articles |-> 0]
  /\ listed = {} /\ mixed = FALSE

Newest == Len(commits)

\* What a commit holds; the manifest as a file is the entries of all articles.
Text(n, a) == commits[n][a]
Manifest(n) == [a \in Articles |-> Text(n, a).meta]
Present(n) == {a \in Articles : Text(n, a).meta # 0}

Commit(text) ==
  /\ Newest <= MaxCommits
  /\ commits' = Append(commits, text)

\* Somebody pushes a change of an article's entry, its body or both, or removes it.
Push(a) ==
  /\ \/ \E meta, body \in BOOLEAN :
          /\ meta \/ body
          /\ a \notin Present(Newest) => meta /\ body
          /\ Commit([commits[Newest] EXCEPT
               ![a].meta = IF meta THEN Newest + 1 ELSE @, ![a].body = IF body THEN Newest + 1 ELSE @])
     \/ a \in Present(Newest) /\ Commit([commits[Newest] EXCEPT ![a] = [meta |-> 0, body |-> 0]])
  /\ UNCHANGED <<desk, copies>>

-----------------------------------------------------------------------------
(* Editing *)

\* handleBlogManifest and handleAdminAPIBlogGet: the page keeps the identities
\* of the manifest and of the body it shows.
OpenArticle(e, a) ==
  /\ desk[e].step = "closed"
  /\ desk' = [desk EXCEPT ![e] = [NoDesk EXCEPT !.step = "open", !.article = a, !.shown = Newest]]
  /\ UNCHANGED <<commits, copies>>

\* "article index changed; reload before saving", "article body changed; ..."
AsShown(e) ==
  /\ Manifest(Newest) = Manifest(desk[e].shown)
  /\ Text(Newest, desk[e].article).body = Text(desk[e].shown, desk[e].article).body

\* writeBlogContent reads manifest and body at the head of the branch.
ReadForSave(e) ==
  /\ desk[e].step = "open" /\ AsShown(e)
  /\ desk' = [desk EXCEPT ![e].step = "saving", ![e].read = Newest]
  /\ UNCHANGED <<commits, copies>>

\* Mutant: the commit does not name the manifest it replaces.
BodyUnchanged(e) == Text(Newest, desk[e].article).body = Text(desk[e].read, desk[e].article).body

\* The repository refuses a commit (409 or 422) unless both files are the ones it
\* names.
FilesUnchanged(e) == BodyUnchanged(e) /\ Manifest(Newest) = Manifest(desk[e].read)

\* The whole manifest that was read with one article's entry replaced, and that
\* article's body; the other bodies are as they are.
Rewritten(e, entry, body) ==
  [b \in Articles |-> IF b = desk[e].article THEN [meta |-> entry, body |-> body]
                      ELSE [meta |-> Text(desk[e].read, b).meta, body |-> Text(Newest, b).body]]

\* The commit of handleAdminAPIBlogSave; the entry need not change.
SaveArticle(e) ==
  /\ desk[e].step = "saving" /\ FilesUnchanged(e)
  /\ \E entry \in {Newest + 1, Text(desk[e].read, desk[e].article).meta} \ {0} :
       Commit(Rewritten(e, entry, Newest + 1))
  /\ desk' = [desk EXCEPT ![e] = NoDesk]
  /\ UNCHANGED copies

\* The commit of handleAdminAPIBlogDelete.
DeleteArticle(e) ==
  /\ desk[e].step = "saving" /\ FilesUnchanged(e)
  /\ desk[e].article \in Present(desk[e].read)
  /\ Commit(Rewritten(e, 0, 0))
  /\ desk' = [desk EXCEPT ![e] = NoDesk]
  /\ UNCHANGED copies

\* The page is closed, or the save refused.
CloseArticle(e) ==
  /\ desk[e].step # "closed"
  /\ desk' = [desk EXCEPT ![e] = NoDesk]
  /\ UNCHANGED <<commits, copies>>

-----------------------------------------------------------------------------
(* The copies: ApplyBlogSnapshot is one transaction of many statements *)

Ends(s) ==
  /\ fetched' = [fetched EXCEPT ![s] = 0]
  /\ stage' = [stage EXCEPT ![s] = "idle"]
  /\ todo' = [todo EXCEPT ![s] = {}]
  /\ locked' = [locked EXCEPT ![s] = {}]

\* What the open transactions do not see of the articles that s puts in the table.
Overlooked(s) ==
  [t \in Syncs |-> IF t = s \/ stage[t] # "withdrawing" THEN {}
                   ELSE unseen[t] \union (Present(fetched[s]) \ listed)]

\* syncBlogContent: every file is read at the commit that was the head.  Drafts
\* count as absent: their rows are written, but not published.
FetchContent(s) ==
  /\ stage[s] = "idle"
  /\ fetched' = [fetched EXCEPT ![s] = Newest]
  /\ stage' = [stage EXCEPT ![s] = "writing"]
  /\ todo' = [todo EXCEPT ![s] = Present(Newest)]
  /\ UNCHANGED <<commits, desk, locked, unseen, posts, listed, mixed>>

\* A row is written, as soon as no other transaction holds it.
WriteRow(s, a) ==
  /\ a \in todo[s] /\ \A t \in Syncs \ {s} : a \notin locked[t]
  /\ todo' = [todo EXCEPT ![s] = @ \ {a}]
  /\ locked' = [locked EXCEPT ![s] = @ \union {a}]
  /\ UNCHANGED <<commits, desk, fetched, stage, unseen, posts, listed, mixed>>

\* Mutant: what left the manifest stays published.
NothingLeft(n) == {a \in listed : n = 0}

\* What is not in the manifest, of the rows there are.
Unlisted(n) == listed \ Present(n)

\* The last statement begins, and sees the rows that are committed by now.
StartWithdraw(s) ==
  /\ stage[s] = "writing" /\ todo[s] = {}
  /\ stage' = [stage EXCEPT ![s] = "withdrawing"]
  /\ todo' = [todo EXCEPT ![s] = Unlisted(fetched[s])]
  /\ UNCHANGED <<commits, desk, fetched, locked, unseen, posts, listed, mixed>>

CommitSnapshot(s) ==
  LET n == fetched[s] IN
  /\ stage[s] = "withdrawing" /\ todo[s] = {}
  /\ posts' = [a \in Articles |->
       IF a \notin locked[s] THEN posts[a] ELSE IF a \in Present(n) THEN Text(n, a).body ELSE 0]
  /\ listed' = listed \union Present(n)
  /\ unseen' = Overlooked(s)
  /\ mixed' = (unseen[s] # {})
  /\ Ends(s)
  /\ UNCHANGED <<commits, desk>>

\* An error of the repository or of the database, a deadlock of two of them too.
ContentSyncFails(s) ==
  /\ stage[s] # "idle"
  /\ Ends(s)
  /\ unseen' = [unseen EXCEPT ![s] = {}]
  /\ UNCHANGED <<commits, desk, posts, listed, mixed>>

SomebodyPushes == \E a \in Articles : Push(a)

EditingNext ==
  \E e \in Editors :
    \/ \E a \in Articles : OpenArticle(e, a)
    \/ ReadForSave(e) \/ SaveArticle(e) \/ DeleteArticle(e) \/ CloseArticle(e)

CopyingNext ==
  \E s \in Syncs :
    \/ \E a \in Articles : WriteRow(s, a)
    \/ FetchContent(s) \/ StartWithdraw(s) \/ CommitSnapshot(s) \/ ContentSyncFails(s)

BlogNext == SomebodyPushes \/ EditingNext \/ CopyingNext

BlogSpec == BlogInit /\ [][BlogNext]_blogVars
-----------------------------------------------------------------------------
(* Properties *)

BlogTypeOK ==
  /\ commits \in Seq([Articles -> [meta : Nat, body : Nat]]) /\ commits # <<>>
  /\ desk \in [Editors -> [step : {"closed", "open", "saving"}, article : Articles \union {NoArticle},
                            shown : 1..Newest, read : 1..Newest]]
  /\ fetched \in [Syncs -> 0..Newest] /\ stage \in [Syncs -> {"idle", "writing", "withdrawing"}]
  /\ todo \in [Syncs -> SUBSET Articles] /\ locked \in [Syncs -> SUBSET Articles]
  /\ unseen \in [Syncs -> SUBSET Articles]
  /\ posts \in [Articles -> Nat] /\ listed \in SUBSET Articles /\ mixed \in BOOLEAN

\* A save replaces the text its author saw and nothing else: whatever others
\* saved or pushed between the page, the save's reading and its commit, the
\* article was as the page shows it and the other articles are as they were.
SavesOverwriteNothing ==
  [][\A e \in Editors :
       desk[e].step = "saving" /\ desk'[e].step = "closed" /\ commits' # commits =>
         /\ Text(Newest, desk[e].article) = Text(desk[e].shown, desk[e].article)
         /\ \A b \in Articles \ {desk[e].article} : Text(Newest, b)' = Text(Newest, b)]_blogVars

\* What visitors read is one commit as a whole, bodies that go together and no
\* article that this commit withdrew, however synchronisations overlap; except that
\* an article which another one put in the table for the first time, while the last
\* was withdrawing, stays beside it until the next.  (Which commit it is may go
\* back: a synchronisation that read before a save may end after the save's own.)
PostsAreOneCommit ==
  ~mixed => \E n \in 1..Newest : \A a \in Articles : posts[a] = Text(n, a).body
=============================================================================
