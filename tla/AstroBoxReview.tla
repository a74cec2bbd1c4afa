---------------------------- MODULE AstroBoxReview ----------------------------
(***************************************************************************)
(* The AstroBox publications of one resource while their pull requests are *)
(* reviewed on GitHub.  pollOne leases a publication, asks GitHub and      *)
(* records the answer in three transactions; the owner may ask for a       *)
(* closed request to be reopened, which looks at the publication, waits    *)
(* for the resource's row and advisory lock, and holds both across calls   *)
(* to GitHub; a newer revision may be                                      *)
(* submitted to the same request.  The publications are numbered by the    *)
(* revision they belong to.  The resource stays visible: hiding and        *)
(* deleting it are in module Catalog.                                      *)
(***************************************************************************)
EXTENDS Naturals, FiniteSets

CONSTANTS
  MaxRevisions,   \* bound of the model on the revisions of the resource
  MaxRequests,    \* bound of the model on the pull requests ever opened
  MaxReopenings,  \* bound of the model on the reopenings ever asked for
  Pollers,        \* coordinators that poll
  None            \* no poller

ASSUME AstroBoxAssumption ==
  MaxRevisions \in Nat /\ MaxRequests \in Nat /\ MaxReopenings \in Nat
  /\ None \notin Pollers

VARIABLES
  latest,      \* newest submitted revision, 0 before the first
  current,     \* current_revision_id, 0 before the first approval
  state,       \* publications.state
  plan,        \* pull_request_number frozen into config at submission
  pr,          \* status_detail.pull_request_number
  grace,       \* publications whose reopen_requested_at is within 2 minutes
  lease,       \* lease_token: the poll of which poller
  live,        \* publications whose lease has not expired
  request,     \* the pull requests on GitHub
  carries,     \* the publication whose files were last put on, or merged from,
               \* the branch of the request
  named,       \* requests whose files are those of the commit that the
               \* publication's status_detail.catalog_row names
  applied,     \* merged requests whose row has reached the catalog
  entry,       \* the request whose row the catalog has now, 0 before the first
  asks,        \* per publication the request that a reopening wants to have
               \* reopened while its first statement waits for the row (0: none)
  reopenings,  \* how many were asked for
  busy,        \* who holds the advisory lock and how far it is: nobody,
               \* publishOne ("started", "chosen", "written", or "missed" when
               \* the request was merged before the files came) or a reopening
               \* before or after its calls to GitHub ("asking", "asked")
  subject,     \* the publication the holder works on
  chosen,      \* the request the holder works on
  ppc,         \* where each poller is in pollOne
  pitem,       \* the publication it polls
  psaw,        \* whether the claimed row is within its two minutes
  pseen        \* what GitHub said of the pull request

rows == <<state, plan, pr, grace, lease, live>>
resource == <<latest, current>>
github == <<request, carries, named, applied, entry>>
waiting == <<asks, reopenings>>
holder == <<busy, subject, chosen, waiting>>
poller == <<ppc, pitem, psaw, pseen>>
vars == <<rows, resource, github, holder, poller>>

Publications == 1..MaxRevisions
Requests == 1..MaxRequests

PublicationStates ==
  {"none", "pending", "running", "reviewing", "published", "failed", "cancelled"}

Init ==
  /\ latest = 0 /\ current = 0
  /\ state = [p \in Publications |-> "none"]
  /\ plan = [p \in Publications |-> 0]
  /\ pr = [p \in Publications |-> 0]
  /\ grace = {}
  /\ lease = [p \in Publications |-> None]
  /\ live = {}
  /\ request = [n \in Requests |-> "absent"]
  /\ carries = [n \in Requests |-> 0]
  /\ named = {} /\ applied = {} /\ entry = 0
  /\ asks = [p \in Publications |-> 0] /\ reopenings = 0
  /\ busy = "free" /\ subject = 0 /\ chosen = 0
  /\ ppc = [w \in Pollers |-> "idle"]
  /\ pitem = [w \in Pollers |-> 0]
  /\ psaw = [w \in Pollers |-> FALSE]
  /\ pseen = [w \in Pollers |-> "none"]

-----------------------------------------------------------------------------
(* GitHub and time *)

\* A reviewer merges or closes, somebody reopens, the catalog catches up.
Review(n) ==
  /\ \/ request[n] = "open" /\ \E s \in {"merged", "closed"} : request' = [request EXCEPT ![n] = s]
     \/ request[n] = "closed" /\ request' = [request EXCEPT ![n] = "open"]
  /\ UNCHANGED <<carries, named, applied, entry, rows, resource, holder, poller>>

Apply(n) ==
  /\ request[n] = "merged" /\ n \notin applied
  /\ applied' = applied \union {n} /\ entry' = n
  /\ UNCHANGED <<request, carries, named, rows, resource, holder, poller>>

\* Two minutes have passed since the request to reopen.
GraceEnds(p) ==
  /\ p \in grace
  /\ grace' = grace \ {p}
  /\ UNCHANGED <<state, plan, pr, lease, live, resource, github, holder, poller>>

\* Five minutes have passed since the claim.
LeaseExpires(p) ==
  /\ p \in live
  /\ live' = live \ {p}
  /\ UNCHANGED <<state, plan, pr, grace, lease, resource, github, holder, poller>>

-----------------------------------------------------------------------------
(* Revisions: handlers that lock the resource's row, which a reopening holds *)

RowFree == busy \notin {"asking", "asked"}

\* The number frozen into the configuration is read before the transaction of
\* the submission, or copied with an older plan by an administrator, and may be
\* out of date: any request there ever was, or none.
PlanNumbers == {0} \union {n \in Requests : request[n] # "absent"}

\* The creator's submission cancels running publications too, the administrator's
\* does not.
Submit ==
  /\ RowFree
  /\ latest < MaxRevisions
  /\ latest' = latest + 1
  /\ \E n \in PlanNumbers : plan' = [plan EXCEPT ![latest + 1] = n]
  /\ \E S \in {{"pending"}, {"pending", "running"}} : state' = [p \in Publications |->
       IF p = latest + 1 THEN "pending" ELSE IF state[p] \in S THEN "cancelled" ELSE state[p]]
  /\ UNCHANGED <<current, pr, grace, lease, live, github, holder, poller>>

\* decideReview needs the advisory lock as well.
Approve ==
  /\ busy = "free"
  /\ current < latest
  /\ current' = latest
  /\ state' = [state EXCEPT ![latest] = "pending"]
  /\ UNCHANGED <<latest, plan, pr, grace, lease, live, github, holder, poller>>

Leased(p) == lease[p] # None /\ p \in live

\* managePublication: retry by owner or administrator.
Retry(p) ==
  /\ RowFree
  /\ state[p] \in {"failed", "cancelled"} /\ ~Leased(p) /\ p = current
  /\ state' = [state EXCEPT ![p] = "pending"]
  /\ UNCHANGED <<plan, pr, grace, lease, live, resource, github, holder, poller>>

\* The row leaves review: the token is cleared with it.
ClearLease(p, s) ==
  /\ state' = [state EXCEPT ![p] = s]
  /\ lease' = [lease EXCEPT ![p] = None]
  /\ live' = live \ {p}

\* managePublication: cancel by an administrator.
Cancel(p) ==
  /\ RowFree
  /\ state[p] \in {"pending", "failed", "reviewing"} /\ ~Leased(p)
  /\ ClearLease(p, "cancelled")
  /\ UNCHANGED <<plan, pr, grace, resource, github, holder, poller>>

-----------------------------------------------------------------------------
(* publishOne, from the lock to the end; module Coordinator has the rest *)

Hold(who, p) == busy' = who /\ subject' = p
Release == busy' = "free" /\ subject' = 0 /\ chosen' = 0 /\ UNCHANGED waiting

StartPublish(p) ==
  /\ busy = "free"
  /\ state[p] = "pending" /\ p = current
  /\ state' = [state EXCEPT ![p] = "running"]
  /\ Hold("started", p)
  /\ UNCHANGED <<plan, pr, grace, lease, live, resource, github, chosen, waiting, poller>>

OpenRequests == {n \in Requests : request[n] = "open"}

\* Client.Publish looks for the request to write to: the planned one, which
\* must be open; without a plan the one open request for the item; else a new
\* one, opened from a branch that has the files already.
Choose(n) ==
  /\ busy = "started"
  /\ IF plan[subject] # 0 THEN n = plan[subject] /\ n \in OpenRequests
     ELSE OpenRequests = {n}
  /\ busy' = "chosen" /\ chosen' = n
  /\ UNCHANGED <<subject, waiting, rows, resource, github, poller>>

OpenNew(n) ==
  /\ busy = "started"
  /\ plan[subject] = 0 /\ OpenRequests = {}
  /\ request[n] = "absent" /\ \A m \in Requests : m < n => request[m] # "absent"
  /\ request' = [request EXCEPT ![n] = "open"]
  /\ carries' = [carries EXCEPT ![n] = subject]
  /\ busy' = "written" /\ chosen' = n
  /\ UNCHANGED <<subject, waiting, named, applied, entry, rows, resource, poller>>

\* The files go to the branch, and the title is patched, whatever became of the
\* request since it was chosen; a merge that was made is not changed by them.
\* They are of a commit of their own: no row names it yet.
Upload ==
  /\ busy = "chosen"
  /\ IF request[chosen] = "merged"
     THEN busy' = "missed" /\ UNCHANGED <<carries, named>>
     ELSE /\ busy' = "written"
          /\ carries' = [carries EXCEPT ![chosen] = subject]
          /\ named' = named \ {chosen}
  /\ UNCHANGED <<subject, chosen, waiting, request, applied, entry, rows, resource, poller>>

\* The other publications under review through the same request.
Superseded(p, n) ==
  {q \in Publications \ {p} : state[q] = "reviewing" /\ pr[q] = n}

\* finish with "reviewing"; status_detail is replaced as a whole, and with it the
\* row that the publication expects in the catalog.
FinishPublish ==
  LET p == subject
      n == chosen IN
  /\ busy \in {"written", "missed"}
  /\ state[p] = "running"
  /\ state' = [q \in Publications |->
       IF q = p THEN "reviewing" ELSE IF q \in Superseded(p, n) THEN "cancelled" ELSE state[q]]
  /\ pr' = [pr EXCEPT ![p] = n]
  /\ grace' = grace \ {p}
  /\ lease' = [q \in Publications |-> IF q \in Superseded(p, n) THEN None ELSE lease[q]]
  /\ live' = live \ Superseded(p, n)
  /\ named' = {m \in named : carries[m] # p} \union (IF busy = "written" THEN {n} ELSE {})
  /\ Release
  /\ UNCHANGED <<plan, resource, request, carries, applied, entry, poller>>

\* A call fails, or the row was cancelled and finish refuses it.
FailPublish ==
  /\ busy \in {"started", "chosen", "written", "missed"}
  /\ \E s \in {"pending", "failed"} :
       state' = [state EXCEPT ![subject] = IF @ = "running" THEN s ELSE @]
  /\ Release
  /\ UNCHANGED <<plan, pr, grace, lease, live, resource, github, poller>>

-----------------------------------------------------------------------------
(* RequestAstroBoxReopen, its transaction open across the calls to GitHub *)

MayReopen(p) ==
  /\ pr[p] # 0
  /\ state[p] \in {"reviewing", "failed"}
  /\ \A q \in Publications : q > p => state[q] \in {"none", "cancelled"}

\* The first statement of the transaction: it looks at the publication and at the
\* newer ones as they are, and then waits for the resource's row alone.  The
\* number of the request is read just before.
AskReopen(p) ==
  /\ asks[p] = 0 /\ reopenings < MaxReopenings
  /\ MayReopen(p)
  /\ asks' = [asks EXCEPT ![p] = pr[p]]
  /\ reopenings' = reopenings + 1
  /\ UNCHANGED <<rows, resource, github, busy, subject, chosen, poller>>

\* It gets the row, and the advisory lock.  What it has seen is not looked at again.
BeginReopen(p) ==
  /\ busy = "free"
  /\ asks[p] # 0
  /\ Hold("asking", p)
  /\ chosen' = asks[p] /\ asks' = [asks EXCEPT ![p] = 0]
  /\ UNCHANGED <<reopenings, rows, resource, github, poller>>

\* The lock is taken, or the owner does not wait for the answer.
DropReopen(p) ==
  /\ asks[p] # 0
  /\ asks' = [asks EXCEPT ![p] = 0]
  /\ UNCHANGED <<reopenings, rows, resource, github, busy, subject, chosen, poller>>

\* The request is open already, or it is closed: then it is reopened, unless
\* GitHub forbids the owner to, and a comment asks the reviewers.
AskGitHub ==
  /\ busy = "asking"
  /\ request[chosen] \in {"open", "closed"}
  /\ request' \in {request, [request EXCEPT ![chosen] = "open"]}
  /\ busy' = "asked"
  /\ UNCHANGED <<subject, chosen, waiting, carries, named, applied, entry, rows, resource, poller>>

\* Merged already, or a call fails before or after the request was reopened.
AbandonReopen ==
  /\ busy \in {"asking", "asked"}
  /\ request' \in {request, [request EXCEPT ![chosen] = IF @ = "closed" THEN "open" ELSE @]}
  /\ Release
  /\ UNCHANGED <<carries, named, applied, entry, rows, resource, poller>>

\* The update names the row only by its id.
CommitReopen ==
  /\ busy = "asked"
  /\ ClearLease(subject, "reviewing")
  /\ grace' = grace \union {subject}
  /\ Release
  /\ UNCHANGED <<plan, pr, resource, github, poller>>

-----------------------------------------------------------------------------
(* pollOne *)

PollReturn(w) ==
  /\ ppc' = [ppc EXCEPT ![w] = "idle"]
  /\ pitem' = [pitem EXCEPT ![w] = 0]
  /\ psaw' = [psaw EXCEPT ![w] = FALSE]
  /\ pseen' = [pseen EXCEPT ![w] = "none"]

PollClaim(w, p) ==
  /\ ppc[w] = "idle"
  /\ state[p] = "reviewing" /\ ~Leased(p)
  /\ lease' = [lease EXCEPT ![p] = w]
  /\ live' = live \union {p}
  /\ ppc' = [ppc EXCEPT ![w] = "claimed"]
  /\ pitem' = [pitem EXCEPT ![w] = p]
  /\ psaw' = [psaw EXCEPT ![w] = p \in grace]
  /\ UNCHANGED <<state, plan, pr, grace, pseen, resource, github, holder>>

\* Mutant: whose lease the row carries is not asked.
AnyLease(w, p) == state[p] = "reviewing" /\ w \in Pollers

\* Mutant: the row is named only by its id.
ById(w, p) == w \in Pollers /\ p \in Publications

\* The condition of every later statement of pollOne.
OwnsLease(w, p) == state[p] = "reviewing" /\ lease[p] = w

\* Mutant: only a newer publication that was accepted retires this one.
AcceptedRetires(p) ==
  \E q \in Publications : q > p /\ state[q] = "published" /\ pr[q] = pr[p]

Retired(p) ==
  \E q \in Publications : q > p /\ state[q] \in {"reviewing", "published"} /\ pr[q] = pr[p]

PollRetire(w) ==
  /\ ppc[w] = "claimed"
  /\ OwnsLease(w, pitem[w]) /\ Retired(pitem[w])
  /\ ClearLease(pitem[w], "cancelled")
  /\ PollReturn(w)
  /\ UNCHANGED <<plan, pr, grace, resource, github, holder>>

\* The catalog has the row that this publication expects: of its last commit, not
\* of another attempt's.
ExpectedRow(p) == entry # 0 /\ carries[entry] = p /\ entry \in named

\* The number of the request and the expected row were read with the claim; a
\* lease is never kept across a change of them, so the row's are the same.
PollRead(w) ==
  LET n == pr[pitem[w]] IN
  /\ ppc[w] = "claimed"
  /\ ~(OwnsLease(w, pitem[w]) /\ Retired(pitem[w]))
  /\ pseen' = [pseen EXCEPT ![w] =
       IF request[n] = "merged" /\ ExpectedRow(pitem[w]) THEN "applied" ELSE request[n]]
  /\ psaw' = [psaw EXCEPT ![w] = @ /\ pitem[w] \in grace]
  /\ ppc' = [ppc EXCEPT ![w] = "read"]
  /\ UNCHANGED <<pitem, rows, resource, github, holder>>

\* Mutant: a merged request is enough.
MergedIsEnough(w) == pseen[w] \in {"merged", "applied"}

\* The request is merged and the catalog has the publication's row.
IsAccepted(w) == pseen[w] = "applied"

\* Two minutes are left to the reviewers' automation to reopen the request.
IsRejected(w) == pseen[w] = "closed" /\ ~psaw[w]

\* What pollOne decided is written unless the lease was lost meanwhile; an open
\* request ends the grace of the reopening.
PollCommit(w) ==
  LET p == pitem[w] IN
  /\ ppc[w] = "read"
  /\ IF OwnsLease(w, p)
     THEN /\ ClearLease(p, IF IsAccepted(w) THEN "published"
                           ELSE IF IsRejected(w) THEN "failed" ELSE "reviewing")
          /\ grace' = IF pseen[w] = "open" THEN grace \ {p} ELSE grace
     ELSE UNCHANGED <<state, lease, live, grace>>
  /\ PollReturn(w)
  /\ UNCHANGED <<plan, pr, resource, github, holder>>

\* A call to GitHub fails: the lease is given back.
PollFails(w) ==
  LET p == pitem[w] IN
  /\ ppc[w] \in {"claimed", "read"}
  /\ IF OwnsLease(w, p) THEN ClearLease(p, "reviewing") ELSE UNCHANGED <<state, lease, live>>
  /\ PollReturn(w)
  /\ UNCHANGED <<plan, pr, grace, resource, github, holder>>

\* The process stops or its database call fails: the lease runs out by itself.
PollStops(w) ==
  /\ ppc[w] # "idle"
  /\ PollReturn(w)
  /\ UNCHANGED <<rows, resource, github, holder>>

-----------------------------------------------------------------------------
Next ==
  \/ \E n \in Requests : Review(n) \/ Apply(n) \/ Choose(n) \/ OpenNew(n)
  \/ \E p \in Publications : GraceEnds(p) \/ LeaseExpires(p)
  \/ Submit \/ Approve
  \/ \E p \in Publications : Retry(p) \/ Cancel(p) \/ StartPublish(p)
  \/ \E p \in Publications : AskReopen(p) \/ BeginReopen(p) \/ DropReopen(p)
  \/ Upload \/ FinishPublish \/ FailPublish
  \/ AskGitHub \/ AbandonReopen \/ CommitReopen
  \/ \E w \in Pollers, p \in Publications : PollClaim(w, p)
  \/ \E w \in Pollers : PollRetire(w) \/ PollRead(w) \/ PollCommit(w) \/ PollFails(w) \/ PollStops(w)

\* tick calls pollOne until nothing is due and takes the rows in the order of
\* next_attempt_at, which every poll of a row moves back: each row under review
\* has its turn.  GitHub answers now and then: the owner's token is accepted, and
\* a request and the catalog can be read.  Leases expire by the clock.
Fairness ==
  /\ \A p \in Publications : WF_vars(LeaseExpires(p))
  /\ \A w \in Pollers, p \in Publications :
       /\ SF_vars(PollClaim(w, p))
       /\ SF_vars((PollRetire(w) \/ PollRead(w)) /\ pitem[w] = p)
       /\ SF_vars(PollCommit(w) /\ pitem[w] = p)

Spec == Init /\ [][Next]_vars

FairSpec == Spec /\ Fairness
-----------------------------------------------------------------------------
(* Properties *)

\* Every variable has its type.
TypeOK ==
  /\ latest \in 0..MaxRevisions /\ current \in 0..latest
  /\ state \in [Publications -> PublicationStates]
  /\ plan \in [Publications -> 0..MaxRequests]
  /\ pr \in [Publications -> 0..MaxRequests]
  /\ grace \subseteq Publications
  /\ lease \in [Publications -> Pollers \union {None}]
  /\ live \subseteq {p \in Publications : lease[p] # None}
  /\ request \in [Requests -> {"absent", "open", "merged", "closed"}]
  /\ carries \in [Requests -> 0..MaxRevisions]
  /\ applied \subseteq {n \in Requests : request[n] = "merged"}
  /\ busy \in {"free", "started", "chosen", "written", "missed", "asking", "asked"}
  /\ named \subseteq Requests /\ entry \in applied \union {0}
  /\ asks \in [Publications -> 0..MaxRequests]
  /\ reopenings \in 0..MaxReopenings
  /\ subject \in 0..MaxRevisions /\ chosen \in 0..MaxRequests
  /\ ppc \in [Pollers -> {"idle", "claimed", "read"}]
  /\ pitem \in [Pollers -> 0..MaxRevisions]
  /\ psaw \in [Pollers -> BOOLEAN]
  /\ pseen \in [Pollers -> {"none", "open", "merged", "applied", "closed"}]

\* An owner who asked for another review keeps it for two minutes: no poll
\* fails the publication in that time, not even one that was claimed or had
\* read "closed" before the owner asked.
GraceIsHonoured ==
  [][\A p \in Publications :
       state[p] = "reviewing" /\ state'[p] = "failed" => p \notin grace]_vars

\* A publication is called published only when its own files were merged
\* through its request and their row has reached the catalog, although a newer
\* revision, or another attempt of its own, may have written to the same request
\* before or after the merge.
AcceptedIsInCatalog ==
  \A p \in Publications :
    state[p] = "published" => pr[p] \in applied \intersect named /\ carries[pr[p]] = p

\* A cancelled publication comes back only by being queued again, or by a reopening
\* that looked at it before it was cancelled: no poll under way brings it back, and
\* no reopening that was asked for later.
NoUnaskedRevival ==
  [][\A p \in Publications :
       state[p] = "cancelled" =>
         \/ state'[p] \in {"cancelled", "pending"}
         \/ state'[p] = "reviewing" /\ busy = "asked" /\ subject = p]_vars

\* The review of p is over: the catalog has the row it expects, or a newer
\* publication is under review through the same request, as a reopening, which
\* looks only at newer publications, can bring about.
ReviewIsOver(p) ==
  /\ state[p] = "reviewing"
  /\ \/ ExpectedRow(p)
     \/ \E q \in Publications : q > p /\ state[q] = "reviewing" /\ pr[q] = pr[p]

\* A publication whose review is over does not stay under review, although
\* polls fail and pollers die holding the lease.
OverIsNoticed == \A p \in Publications : ReviewIsOver(p) ~> ~ReviewIsOver(p)
=============================================================================
