--------------------------- MODULE AstroBoxProofs ---------------------------
(***************************************************************************)
(* Proofs about the review of AstroBox publications: the polls, the         *)
(* reopening and the newer revision of one resource, for any number of      *)
(* revisions, of pull requests and of pollers.                              *)
(***************************************************************************)
EXTENDS AstroBoxReview, TLAPS

-----------------------------------------------------------------------------
(* The invariant *)

\* Only a publication under review has a lease: pollOne's later statements,
\* which ask for the state and the token, find the row as it was claimed.
LeasedIsUnderReview ==
  \A p \in Publications : lease[p] # None => state[p] = "reviewing"

\* Nothing is sent to AstroBox before the revision is approved.
UnapprovedIsUnsent ==
  \A p \in Publications : current < p => state[p] \in {"none", "pending", "cancelled"}

\* A reopening, while it waits and later, is of a publication that was sent, and
\* knows a request there is; it may know no more than that.
WaitingWasSent ==
  \A p \in Publications :
    asks[p] # 0 => p <= current /\ pr[p] # 0 /\ request[asks[p]] # "absent"

\* Who holds the lock works on a publication and, once it has chosen one, on a
\* request there is, which carries the publication's files when they are written.
HolderKnows ==
  /\ busy # "free" => subject \in Publications
  /\ busy \in {"asking", "asked"} => subject <= current /\ pr[subject] # 0
  /\ busy \notin {"free", "started"} => chosen \in Requests /\ request[chosen] # "absent"
  /\ busy = "written" => carries[chosen] = subject

\* The numbers that were written down are those of requests there are.
RequestsExist ==
  \A p \in Publications :
    /\ pr[p] # 0 => request[pr[p]] # "absent"
    /\ state[p] = "reviewing" => pr[p] # 0

\* The row that a publication expects in the catalog is of the request whose
\* number stands beside it: both are written together.
RowsAreOwn ==
  \A n \in named :
    carries[n] \in Publications /\ pr[carries[n]] = n /\ request[n] # "absent"

\* A poll under way works on a publication whose request it knows.
PollHasItem ==
  \A w \in Pollers : ppc[w] # "idle" => pitem[w] \in Publications /\ pr[pitem[w]] # 0

\* As long as a poll owns its lease, what it has read is still so: the catalog
\* has the row, and a reopening is only asked for when the poll knows of it.
SeenIsSo ==
  \A w \in Pollers : \A p \in Publications :
    ppc[w] = "read" /\ pseen[w] = "applied" /\ pitem[w] = p /\ lease[p] = w =>
      pr[p] \in applied \intersect named /\ carries[pr[p]] = p

GraceIsKnown ==
  \A w \in Pollers : \A p \in Publications :
    ppc[w] # "idle" /\ pitem[w] = p /\ lease[p] = w /\ p \in grace => psaw[w]

ReviewInv ==
  /\ TypeOK
  /\ LeasedIsUnderReview /\ UnapprovedIsUnsent
  /\ WaitingWasSent /\ HolderKnows
  /\ RequestsExist /\ RowsAreOwn /\ PollHasItem
  /\ SeenIsSo /\ GraceIsKnown
  /\ AcceptedIsInCatalog

-----------------------------------------------------------------------------
(* The types, by what is written together *)

ResourceTyped == latest \in 0..MaxRevisions /\ current \in 0..latest
StateTyped == state \in [Publications -> PublicationStates]
NumbersTyped ==
  /\ plan \in [Publications -> 0..MaxRequests]
  /\ pr \in [Publications -> 0..MaxRequests]
LeasesTyped ==
  /\ grace \subseteq Publications
  /\ lease \in [Publications -> Pollers \union {None}]
  /\ live \subseteq {p \in Publications : lease[p] # None}
RequestTyped == request \in [Requests -> {"absent", "open", "merged", "closed"}]
AppliedTyped ==
  /\ applied \subseteq {n \in Requests : request[n] = "merged"}
  /\ named \subseteq Requests /\ entry \in applied \union {0}
CarriesTyped == carries \in [Requests -> 0..MaxRevisions]
HolderTyped ==
  /\ busy \in {"free", "started", "chosen", "written", "missed", "asking", "asked"}
  /\ asks \in [Publications -> 0..MaxRequests]
  /\ reopenings \in 0..MaxReopenings
  /\ subject \in 0..MaxRevisions /\ chosen \in 0..MaxRequests
PollersTyped ==
  /\ ppc \in [Pollers -> {"idle", "claimed", "read"}]
  /\ pitem \in [Pollers -> 0..MaxRevisions]
  /\ psaw \in [Pollers -> BOOLEAN]
SeenTyped ==
  pseen \in [Pollers -> {"none", "open", "merged", "applied", "closed"}]

\* Nothing is there at the start.
LEMMA ReviewInvInit == Init => ReviewInv
<1> SUFFICES ASSUME Init PROVE ReviewInv
  OBVIOUS
<1> USE AstroBoxAssumption DEF Init, Publications, Requests
<1>1. TypeOK
  BY DEF TypeOK, PublicationStates
<1>2. LeasedIsUnderReview /\ UnapprovedIsUnsent /\ WaitingWasSent /\ HolderKnows
  BY DEF LeasedIsUnderReview, UnapprovedIsUnsent, WaitingWasSent, HolderKnows
<1>3. RequestsExist /\ RowsAreOwn /\ PollHasItem
  BY DEF RequestsExist, RowsAreOwn, PollHasItem
<1>4. SeenIsSo /\ GraceIsKnown /\ AcceptedIsInCatalog
  BY DEF SeenIsSo, GraceIsKnown, AcceptedIsInCatalog
<1> QED BY <1>1, <1>2, <1>3, <1>4 DEF ReviewInv

-----------------------------------------------------------------------------
(* Who writes what *)

\* The revisions are the business of two handlers.
LEMMA ResourceWriters ==
  ASSUME Next
  PROVE  \/ UNCHANGED resource
         \/ Submit \/ Approve
BY DEF Next, Review, Apply, GraceEnds, LeaseExpires, Retry, Cancel, Choose, OpenNew,
       StartPublish, Upload, FinishPublish, FailPublish, AskReopen, BeginReopen, DropReopen,
       AskGitHub, AbandonReopen, CommitReopen, PollClaim, PollRetire, PollRead, PollCommit,
       PollFails, PollStops, ClearLease, PollReturn, Hold, Release, rows, resource, github,
       holder, waiting, poller

\* Who writes the state of a publication,
LEMMA StateWriters ==
  ASSUME Next
  PROVE  \/ UNCHANGED state
         \/ Submit \/ Approve \/ FinishPublish \/ FailPublish \/ CommitReopen
         \/ \E p \in Publications : Retry(p) \/ Cancel(p) \/ StartPublish(p)
         \/ \E w \in Pollers : PollRetire(w) \/ PollCommit(w) \/ PollFails(w)
BY DEF Next, Review, Apply, GraceEnds, LeaseExpires, Choose, OpenNew, Upload, AskReopen,
       BeginReopen, DropReopen, AskGitHub, AbandonReopen, PollClaim, PollRead, PollStops,
       ClearLease, PollReturn, Hold, Release, rows, resource, github, holder, waiting, poller

\* the numbers,
LEMMA NumberWriters ==
  ASSUME Next
  PROVE  \/ UNCHANGED <<plan, pr>>
         \/ Submit \/ FinishPublish
BY DEF Next, Review, Apply, GraceEnds, LeaseExpires, Approve, Retry, Cancel, Choose, OpenNew,
       StartPublish, Upload, FailPublish, AskReopen, BeginReopen, DropReopen, AskGitHub,
       AbandonReopen, CommitReopen, PollClaim, PollRetire, PollRead, PollCommit, PollFails,
       PollStops, ClearLease, PollReturn, Hold, Release, rows, resource, github, holder,
       waiting, poller

\* the leases and the two minutes,
LEMMA LeaseWriters ==
  ASSUME Next
  PROVE  \/ UNCHANGED <<grace, lease, live>>
         \/ FinishPublish \/ CommitReopen
         \/ \E p \in Publications : GraceEnds(p) \/ LeaseExpires(p) \/ Cancel(p)
         \/ \E w \in Pollers, p \in Publications : PollClaim(w, p)
         \/ \E w \in Pollers : PollRetire(w) \/ PollCommit(w) \/ PollFails(w)
BY DEF Next, Review, Apply, Submit, Approve, Retry, Choose, OpenNew, StartPublish, Upload,
       FailPublish, AskReopen, BeginReopen, DropReopen, AskGitHub, AbandonReopen, PollRead,
       PollStops, ClearLease, PollReturn, Hold, Release, rows, resource, github, holder,
       waiting, poller

\* the requests on GitHub,
LEMMA RequestWriters ==
  ASSUME Next
  PROVE  \/ UNCHANGED request
         \/ AskGitHub \/ AbandonReopen
         \/ \E n \in Requests : Review(n) \/ OpenNew(n)
BY DEF Next, Apply, GraceEnds, LeaseExpires, Submit, Approve, Retry, Cancel, Choose,
       StartPublish, Upload, FinishPublish, FailPublish, AskReopen, BeginReopen, DropReopen,
       CommitReopen, PollClaim, PollRetire, PollRead, PollCommit, PollFails, PollStops,
       ClearLease, PollReturn, Hold, Release, rows, resource, github, holder, waiting, poller

\* their files and the catalog,
LEMMA CatalogWriters ==
  ASSUME Next
  PROVE  \/ UNCHANGED <<carries, named, applied, entry>>
         \/ Upload \/ FinishPublish
         \/ \E n \in Requests : Apply(n) \/ OpenNew(n)
BY DEF Next, Review, GraceEnds, LeaseExpires, Submit, Approve, Retry, Cancel, Choose,
       StartPublish, FailPublish, AskReopen, BeginReopen, DropReopen, AskGitHub, AbandonReopen,
       CommitReopen, PollClaim, PollRetire, PollRead, PollCommit, PollFails, PollStops,
       ClearLease, PollReturn, Hold, Release, rows, resource, github, holder, waiting, poller

\* the lock,
LEMMA HolderWriters ==
  ASSUME Next
  PROVE  \/ UNCHANGED holder
         \/ Upload \/ FinishPublish \/ FailPublish \/ AskGitHub \/ AbandonReopen \/ CommitReopen
         \/ \E n \in Requests : Choose(n) \/ OpenNew(n)
         \/ \E p \in Publications :
           StartPublish(p) \/ AskReopen(p) \/ BeginReopen(p) \/ DropReopen(p)
BY DEF Next, Review, Apply, GraceEnds, LeaseExpires, Submit, Approve, Retry, Cancel, PollClaim,
       PollRetire, PollRead, PollCommit, PollFails, PollStops, ClearLease, PollReturn, Hold,
       Release, rows, resource, github, holder, waiting, poller

\* and the polls.
LEMMA PollerWriters ==
  ASSUME Next
  PROVE  \/ UNCHANGED poller
         \/ \E w \in Pollers, p \in Publications : PollClaim(w, p)
         \/ \E w \in Pollers :
           PollRetire(w) \/ PollRead(w) \/ PollCommit(w) \/ PollFails(w) \/ PollStops(w)
BY DEF Next, Review, Apply, GraceEnds, LeaseExpires, Submit, Approve, Retry, Cancel, Choose,
       OpenNew, StartPublish, Upload, FinishPublish, FailPublish, AskReopen, BeginReopen,
       DropReopen, AskGitHub, AbandonReopen, CommitReopen, ClearLease, PollReturn, Hold,
       Release, rows, resource, github, holder, waiting, poller

-----------------------------------------------------------------------------
(* What the steps keep *)

\* The types are kept: of the revisions, which the handlers count,
LEMMA ResourceTypeKept == ReviewInv /\ Next => ResourceTyped'
<1> SUFFICES ASSUME ReviewInv, Next PROVE ResourceTyped'
  OBVIOUS
<1> USE AstroBoxAssumption DEF ReviewInv, ResourceTyped, TypeOK, Publications, Requests, rows,
    resource, github, holder, waiting, poller
<1>1. CASE Submit
  BY <1>1 DEF Submit, RowFree, PlanNumbers
<1>2. CASE Approve
  BY <1>2 DEF Approve
<1>3. CASE UNCHANGED <<resource>>
  BY <1>3 DEF resource, holder, waiting, poller
<1> QED BY <1>1, <1>2, <1>3, ResourceWriters DEF resource

\* of the states,
LEMMA StateTypeKept == ReviewInv /\ Next => StateTyped'
<1> SUFFICES ASSUME ReviewInv, Next PROVE StateTyped'
  OBVIOUS
<1> USE AstroBoxAssumption DEF ReviewInv, StateTyped, TypeOK, Publications, Requests,
    PublicationStates, rows, resource, github, holder, waiting, poller
<1>1. CASE Submit
  BY <1>1 DEF Submit, RowFree, PlanNumbers
<1>2. CASE Approve
  BY <1>2 DEF Approve
<1>3. ASSUME NEW p \in Publications, Retry(p)
      PROVE  StateTyped'
  BY <1>3 DEF Retry, RowFree
<1>4. ASSUME NEW p \in Publications, Cancel(p)
      PROVE  StateTyped'
  BY <1>4 DEF Cancel, ClearLease, RowFree
<1>5. ASSUME NEW p \in Publications, StartPublish(p)
      PROVE  StateTyped'
  BY <1>5 DEF StartPublish, Hold
<1>6. CASE FinishPublish
  BY <1>6 DEF FinishPublish, Release, Superseded
<1>7. CASE FailPublish
  <2>1. PICK s \in {"pending", "failed"} :
          state' = [state EXCEPT ![subject] = IF @ = "running" THEN s ELSE @]
    BY <1>7 DEF FailPublish
  <2> QED BY <2>1
<1>8. CASE CommitReopen
  BY <1>8 DEF CommitReopen, Release, ClearLease
<1>9. ASSUME NEW w \in Pollers, PollRetire(w)
      PROVE  StateTyped'
  BY <1>9 DEF PollRetire, ClearLease, PollReturn, OwnsLease
<1>10. ASSUME NEW w \in Pollers, PollCommit(w)
      PROVE  StateTyped'
  <2> DEFINE s == IF IsAccepted(w) THEN "published"
                  ELSE IF IsRejected(w) THEN "failed" ELSE "reviewing"
  <2>1. s \in {"published", "failed", "reviewing"}
    OBVIOUS
  <2>2. state' = [state EXCEPT ![pitem[w]] = s] \/ state' = state
    BY <1>10 DEF PollCommit, ClearLease
  <2> HIDE DEF s
  <2> QED BY <2>1, <2>2
<1>11. ASSUME NEW w \in Pollers, PollFails(w)
      PROVE  StateTyped'
  <2>1. state' = [state EXCEPT ![pitem[w]] = "reviewing"] \/ state' = state
    BY <1>11 DEF PollFails, ClearLease
  <2> QED BY <2>1
<1>12. CASE UNCHANGED <<state>>
  BY <1>12 DEF resource, holder, waiting, poller
<1> QED BY <1>1, <1>2, <1>3, <1>4, <1>5, <1>6, <1>7, <1>8, <1>9, <1>10, <1>11, <1>12,
       StateWriters

\* of the numbers, which come from requests there are,
LEMMA NumberTypeKept == ReviewInv /\ Next => NumbersTyped'
<1> SUFFICES ASSUME ReviewInv, Next PROVE NumbersTyped'
  OBVIOUS
<1> USE AstroBoxAssumption DEF ReviewInv, NumbersTyped, TypeOK, Publications, Requests,
    HolderTyped, rows, resource, github, holder, waiting, poller
<1>1. CASE Submit
  BY <1>1 DEF Submit, RowFree, PlanNumbers
<1>2. CASE FinishPublish
  BY <1>2 DEF FinishPublish, Release, Superseded
<1>3. CASE UNCHANGED <<plan, pr>>
  BY <1>3 DEF resource, holder, waiting, poller
<1> QED BY <1>1, <1>2, <1>3, NumberWriters

\* of the leases, which run out only when there is one,
LEMMA LeaseTypeKept == ReviewInv /\ Next => LeasesTyped'
<1> SUFFICES ASSUME ReviewInv, Next PROVE LeasesTyped'
  OBVIOUS
<1> USE AstroBoxAssumption DEF ReviewInv, LeasesTyped, TypeOK, Publications, Requests,
    HolderKnows, PollHasItem, rows, resource, github, holder, waiting, poller
<1>1. ASSUME NEW p \in Publications, GraceEnds(p)
      PROVE  LeasesTyped'
  BY <1>1 DEF GraceEnds
<1>2. ASSUME NEW p \in Publications, LeaseExpires(p)
      PROVE  LeasesTyped'
  BY <1>2 DEF LeaseExpires
<1>3. ASSUME NEW p \in Publications, Cancel(p)
      PROVE  LeasesTyped'
  BY <1>3 DEF Cancel, ClearLease, RowFree
<1>4. CASE FinishPublish
  BY <1>4 DEF FinishPublish, Release, Superseded
<1>5. CASE CommitReopen
  BY <1>5 DEF CommitReopen, Release, ClearLease
<1>6. ASSUME NEW w \in Pollers, NEW p \in Publications, PollClaim(w, p)
      PROVE  LeasesTyped'
  BY <1>6 DEF PollClaim, Leased
<1>7. ASSUME NEW w \in Pollers, PollRetire(w)
      PROVE  LeasesTyped'
  BY <1>7 DEF PollRetire, ClearLease, PollReturn, OwnsLease
<1>8. ASSUME NEW w \in Pollers, PollCommit(w)
      PROVE  LeasesTyped'
  BY <1>8 DEF PollCommit, ClearLease, PollReturn, OwnsLease, IsAccepted, IsRejected
<1>9. ASSUME NEW w \in Pollers, PollFails(w)
      PROVE  LeasesTyped'
  BY <1>9 DEF PollFails, ClearLease, PollReturn, OwnsLease
<1>10. CASE UNCHANGED <<grace, lease, live>>
  BY <1>10 DEF resource, holder, waiting, poller
<1> QED BY <1>1, <1>2, <1>3, <1>4, <1>5, <1>6, <1>7, <1>8, <1>9, <1>10, LeaseWriters

\* of the requests,
LEMMA RequestTypeKept == ReviewInv /\ Next => RequestTyped'
<1> SUFFICES ASSUME ReviewInv, Next PROVE RequestTyped'
  OBVIOUS
<1> USE AstroBoxAssumption DEF ReviewInv, RequestTyped, TypeOK, Publications, Requests, rows,
    resource, github, holder, waiting, poller
<1>1. ASSUME NEW n \in Requests, Review(n)
      PROVE  RequestTyped'
  <2>1. PICK s \in {"open", "merged", "closed"} : request' = [request EXCEPT ![n] = s]
    BY <1>1 DEF Review
  <2> QED BY <2>1
<1>2. ASSUME NEW n \in Requests, OpenNew(n)
      PROVE  RequestTyped'
  BY <1>2 DEF OpenNew
<1>3. CASE AskGitHub
  <2>1. request' = request \/ request' = [request EXCEPT ![chosen] = "open"]
    BY <1>3 DEF AskGitHub
  <2> QED BY <2>1
<1>4. CASE AbandonReopen
  <2>1. \/ request' = request
        \/ request' = [request EXCEPT ![chosen] = IF @ = "closed" THEN "open" ELSE @]
    BY <1>4 DEF AbandonReopen
  <2>2. \A n \in Requests : request'[n] \in {request[n], "open"}
    BY <2>1
  <2>3. DOMAIN request' = Requests /\ request' = [n \in Requests |-> request'[n]]
    BY <2>1
  <2> QED BY <2>2, <2>3
<1>5. CASE UNCHANGED <<request>>
  BY <1>5 DEF resource, holder, waiting, poller
<1> QED BY <1>1, <1>2, <1>3, <1>4, <1>5, RequestWriters

\* of the catalog: a merged request is never opened again,
LEMMA AppliedTypeKept == ReviewInv /\ Next => AppliedTyped'
<1> SUFFICES ASSUME ReviewInv, Next PROVE AppliedTyped'
  OBVIOUS
<1> USE AstroBoxAssumption DEF ReviewInv, AppliedTyped, TypeOK, Publications, Requests,
    RequestsExist, HolderKnows, rows, resource, github, holder, waiting, poller
<1>1. ASSUME NEW n \in Requests, Review(n)
      PROVE  AppliedTyped'
  BY <1>1 DEF Review
<1>2. ASSUME NEW n \in Requests, Apply(n)
      PROVE  AppliedTyped'
  BY <1>2 DEF Apply
<1>3. ASSUME NEW n \in Requests, OpenNew(n)
      PROVE  AppliedTyped'
  BY <1>3 DEF OpenNew
<1>4. CASE Upload
  BY <1>4 DEF Upload
<1>5. CASE FinishPublish
  BY <1>5 DEF FinishPublish, Release, Superseded
<1>6. CASE AskGitHub
  BY <1>6 DEF AskGitHub
<1>7. CASE AbandonReopen
  <2>1. \A n \in Requests : request[n] = "merged" => request'[n] = "merged"
    BY <1>7 DEF AbandonReopen
  <2>2. UNCHANGED <<named, applied, entry>>
    BY <1>7 DEF AbandonReopen
  <2> QED BY <2>1, <2>2
<1>8. CASE UNCHANGED <<request, carries, named, applied, entry>>
  BY <1>8 DEF resource, holder, waiting, poller
<1> QED BY <1>1, <1>2, <1>3, <1>4, <1>5, <1>6, <1>7, <1>8, RequestWriters, CatalogWriters

\* of what the requests carry,
LEMMA CarriesTypeKept == ReviewInv /\ Next => CarriesTyped'
<1> SUFFICES ASSUME ReviewInv, Next PROVE CarriesTyped'
  OBVIOUS
<1> USE AstroBoxAssumption DEF ReviewInv, CarriesTyped, TypeOK, Publications, Requests, rows,
    resource, github, holder, waiting, poller
<1>1. ASSUME NEW n \in Requests, Apply(n)
      PROVE  CarriesTyped'
  BY <1>1 DEF Apply
<1>2. ASSUME NEW n \in Requests, OpenNew(n)
      PROVE  CarriesTyped'
  BY <1>2 DEF OpenNew
<1>3. CASE Upload
  BY <1>3 DEF Upload
<1>4. CASE FinishPublish
  BY <1>4 DEF FinishPublish, Release, Superseded
<1>5. CASE UNCHANGED <<carries, named, applied, entry>>
  BY <1>5 DEF resource, holder, waiting, poller
<1> QED BY <1>1, <1>2, <1>3, <1>4, <1>5, CatalogWriters

\* of the holder of the lock,
LEMMA HolderTypeKept == ReviewInv /\ Next => HolderTyped'
<1> SUFFICES ASSUME ReviewInv, Next PROVE HolderTyped'
  OBVIOUS
<1> USE AstroBoxAssumption DEF ReviewInv, HolderTyped, TypeOK, Publications, Requests, rows,
    resource, github, holder, waiting, poller
<1>1. ASSUME NEW n \in Requests, Choose(n)
      PROVE  HolderTyped'
  BY <1>1 DEF Choose, OpenRequests
<1>2. ASSUME NEW n \in Requests, OpenNew(n)
      PROVE  HolderTyped'
  BY <1>2 DEF OpenNew
<1>3. ASSUME NEW p \in Publications, StartPublish(p)
      PROVE  HolderTyped'
  BY <1>3 DEF StartPublish, Hold
<1>4. CASE Upload
  BY <1>4 DEF Upload
<1>5. CASE FinishPublish
  BY <1>5 DEF FinishPublish, Release, Superseded
<1>6. CASE FailPublish
  BY <1>6 DEF FailPublish, Release
<1>7. ASSUME NEW p \in Publications, AskReopen(p)
      PROVE  HolderTyped'
  BY <1>7 DEF AskReopen, MayReopen
<1>8. ASSUME NEW p \in Publications, BeginReopen(p)
      PROVE  HolderTyped'
  BY <1>8 DEF BeginReopen, Hold
<1>9. ASSUME NEW p \in Publications, DropReopen(p)
      PROVE  HolderTyped'
  BY <1>9 DEF DropReopen
<1>10. CASE AskGitHub
  BY <1>10 DEF AskGitHub
<1>11. CASE AbandonReopen
  BY <1>11 DEF AbandonReopen, Release
<1>12. CASE CommitReopen
  BY <1>12 DEF CommitReopen, Release, ClearLease
<1>13. CASE UNCHANGED <<holder>>
  BY <1>13 DEF resource, holder, waiting, poller
<1> QED BY <1>1, <1>2, <1>3, <1>4, <1>5, <1>6, <1>7, <1>8, <1>9, <1>10, <1>11, <1>12, <1>13,
       HolderWriters DEF holder

\* of the polls,
LEMMA PollerTypeKept == ReviewInv /\ Next => PollersTyped'
<1> SUFFICES ASSUME ReviewInv, Next PROVE PollersTyped'
  OBVIOUS
<1> USE AstroBoxAssumption DEF ReviewInv, PollersTyped, TypeOK, Publications, Requests, rows,
    resource, github, holder, waiting, poller
<1>1. ASSUME NEW w \in Pollers, NEW p \in Publications, PollClaim(w, p)
      PROVE  PollersTyped'
  BY <1>1 DEF PollClaim, Leased
<1>2. ASSUME NEW w \in Pollers, PollRetire(w)
      PROVE  PollersTyped'
  BY <1>2 DEF PollRetire, ClearLease, PollReturn, OwnsLease
<1>3. ASSUME NEW w \in Pollers, PollRead(w)
      PROVE  PollersTyped'
  BY <1>3 DEF PollRead, OwnsLease, ExpectedRow
<1>4. ASSUME NEW w \in Pollers, PollCommit(w)
      PROVE  PollersTyped'
  BY <1>4 DEF PollCommit, ClearLease, PollReturn, OwnsLease, IsAccepted, IsRejected
<1>5. ASSUME NEW w \in Pollers, PollFails(w)
      PROVE  PollersTyped'
  BY <1>5 DEF PollFails, ClearLease, PollReturn, OwnsLease
<1>6. ASSUME NEW w \in Pollers, PollStops(w)
      PROVE  PollersTyped'
  BY <1>6 DEF PollStops, PollReturn
<1>7. CASE UNCHANGED <<poller>>
  BY <1>7 DEF resource, holder, waiting, poller
<1> QED BY <1>1, <1>2, <1>3, <1>4, <1>5, <1>6, <1>7, PollerWriters DEF poller

\* and of what they have seen: a request that is in a row is there to be seen.
LEMMA SeenTypeKept == ReviewInv /\ Next => SeenTyped'
<1> SUFFICES ASSUME ReviewInv, Next PROVE SeenTyped'
  OBVIOUS
<1> USE AstroBoxAssumption DEF ReviewInv, SeenTyped, TypeOK, Publications, Requests,
    PollHasItem, RequestsExist, rows, resource, github, holder, waiting, poller
<1>1. ASSUME NEW w \in Pollers, NEW p \in Publications, PollClaim(w, p)
      PROVE  SeenTyped'
  BY <1>1 DEF PollClaim, Leased
<1>2. ASSUME NEW w \in Pollers, PollRetire(w)
      PROVE  SeenTyped'
  BY <1>2 DEF PollRetire, ClearLease, PollReturn, OwnsLease
<1>3. ASSUME NEW w \in Pollers, PollRead(w)
      PROVE  SeenTyped'
  BY <1>3 DEF PollRead, OwnsLease, ExpectedRow
<1>4. ASSUME NEW w \in Pollers, PollCommit(w)
      PROVE  SeenTyped'
  BY <1>4 DEF PollCommit, ClearLease, PollReturn, OwnsLease, IsAccepted, IsRejected
<1>5. ASSUME NEW w \in Pollers, PollFails(w)
      PROVE  SeenTyped'
  BY <1>5 DEF PollFails, ClearLease, PollReturn, OwnsLease
<1>6. ASSUME NEW w \in Pollers, PollStops(w)
      PROVE  SeenTyped'
  BY <1>6 DEF PollStops, PollReturn
<1>7. CASE UNCHANGED <<poller>>
  BY <1>7 DEF resource, holder, waiting, poller
<1> QED BY <1>1, <1>2, <1>3, <1>4, <1>5, <1>6, <1>7, PollerWriters DEF poller

\* A row that leaves review loses its token; an approval finds none to keep, since
\* the revision it approves was never sent.
LEMMA LeasedKept == ReviewInv /\ Next => LeasedIsUnderReview'
<1> SUFFICES ASSUME ReviewInv, Next PROVE LeasedIsUnderReview'
  OBVIOUS
<1> USE AstroBoxAssumption DEF ReviewInv, LeasedIsUnderReview, UnapprovedIsUnsent, TypeOK, rows,
    resource, github, holder, waiting, poller
<1>1. ASSUME NEW p \in Publications, GraceEnds(p)
      PROVE  LeasedIsUnderReview'
  BY <1>1 DEF GraceEnds
<1>2. ASSUME NEW p \in Publications, LeaseExpires(p)
      PROVE  LeasedIsUnderReview'
  BY <1>2 DEF LeaseExpires
<1>3. CASE Submit
  BY <1>3 DEF Submit, RowFree, PlanNumbers
<1>4. CASE Approve
  BY <1>4 DEF Approve
<1>5. ASSUME NEW p \in Publications, Retry(p)
      PROVE  LeasedIsUnderReview'
  BY <1>5 DEF Retry, RowFree
<1>6. ASSUME NEW p \in Publications, Cancel(p)
      PROVE  LeasedIsUnderReview'
  BY <1>6 DEF Cancel, ClearLease, RowFree
<1>7. ASSUME NEW p \in Publications, StartPublish(p)
      PROVE  LeasedIsUnderReview'
  BY <1>7 DEF StartPublish, Hold
<1>8. CASE FinishPublish
  BY <1>8 DEF FinishPublish, Release, Superseded
<1>9. CASE FailPublish
  BY <1>9 DEF FailPublish, Release
<1>10. CASE CommitReopen
  BY <1>10 DEF CommitReopen, Release, ClearLease
<1>11. ASSUME NEW w \in Pollers, NEW p \in Publications, PollClaim(w, p)
      PROVE  LeasedIsUnderReview'
  BY <1>11 DEF PollClaim, Leased
<1>12. ASSUME NEW w \in Pollers, PollRetire(w)
      PROVE  LeasedIsUnderReview'
  BY <1>12 DEF PollRetire, ClearLease, PollReturn, OwnsLease
<1>13. ASSUME NEW w \in Pollers, PollCommit(w)
      PROVE  LeasedIsUnderReview'
  BY <1>13 DEF PollCommit, ClearLease, PollReturn, OwnsLease, IsAccepted, IsRejected
<1>14. ASSUME NEW w \in Pollers, PollFails(w)
      PROVE  LeasedIsUnderReview'
  BY <1>14 DEF PollFails, ClearLease, PollReturn, OwnsLease
<1>15. CASE UNCHANGED <<state, grace, lease, live>>
  BY <1>15 DEF resource, holder, waiting, poller
<1> QED BY <1>1, <1>2, <1>3, <1>4, <1>5, <1>6, <1>7, <1>8, <1>9, <1>10, <1>11, <1>12, <1>13,
       <1>14, <1>15, StateWriters, LeaseWriters

\* A publication runs only when its revision is the current one, and a reopening
\* brings back only what was sent before.
LEMMA UnsentKept == ReviewInv /\ Next => UnapprovedIsUnsent'
<1> SUFFICES ASSUME ReviewInv, Next PROVE UnapprovedIsUnsent'
  OBVIOUS
<1> USE AstroBoxAssumption DEF ReviewInv, UnapprovedIsUnsent, TypeOK, Publications, HolderKnows,
    rows, resource, github, holder, waiting, poller
<1>1. CASE Submit
  BY <1>1 DEF Submit, RowFree, PlanNumbers
<1>2. CASE Approve
  BY <1>2 DEF Approve
<1>3. ASSUME NEW p \in Publications, Retry(p)
      PROVE  UnapprovedIsUnsent'
  BY <1>3 DEF Retry, RowFree
<1>4. ASSUME NEW p \in Publications, Cancel(p)
      PROVE  UnapprovedIsUnsent'
  BY <1>4 DEF Cancel, ClearLease, RowFree
<1>5. ASSUME NEW p \in Publications, StartPublish(p)
      PROVE  UnapprovedIsUnsent'
  BY <1>5 DEF StartPublish, Hold
<1>6. CASE FinishPublish
  BY <1>6 DEF FinishPublish, Release, Superseded
<1>7. CASE FailPublish
  BY <1>7 DEF FailPublish, Release
<1>8. CASE CommitReopen
  BY <1>8 DEF CommitReopen, Release, ClearLease
<1>9. ASSUME NEW w \in Pollers, PollRetire(w)
      PROVE  UnapprovedIsUnsent'
  BY <1>9 DEF PollRetire, ClearLease, PollReturn, OwnsLease
<1>10. ASSUME NEW w \in Pollers, PollCommit(w)
      PROVE  UnapprovedIsUnsent'
  BY <1>10 DEF PollCommit, ClearLease, PollReturn, OwnsLease, IsAccepted, IsRejected
<1>11. ASSUME NEW w \in Pollers, PollFails(w)
      PROVE  UnapprovedIsUnsent'
  BY <1>11 DEF PollFails, ClearLease, PollReturn, OwnsLease
<1>12. CASE UNCHANGED <<state, resource>>
  BY <1>12 DEF resource, holder, waiting, poller
<1> QED BY <1>1, <1>2, <1>3, <1>4, <1>5, <1>6, <1>7, <1>8, <1>9, <1>10, <1>11, <1>12,
       StateWriters, ResourceWriters DEF resource

\* A request that a reopening waits with is of what was sent, and stays.
LEMMA WaitingKept == ReviewInv /\ Next => WaitingWasSent'
<1> SUFFICES ASSUME ReviewInv, Next PROVE WaitingWasSent'
  OBVIOUS
<1> USE AstroBoxAssumption DEF ReviewInv, WaitingWasSent, TypeOK, Publications, Requests,
    UnapprovedIsUnsent, RequestsExist, HolderKnows, rows, resource, github, holder, waiting,
    poller
<1>0. \A p \in Publications :
        (pr[p] # 0 => pr[p] \in Requests) /\ (asks[p] # 0 => asks[p] \in Requests)
  OBVIOUS
<1> USE <1>0
<1>1. ASSUME NEW n \in Requests, Review(n)
      PROVE  WaitingWasSent'
  <2>1. PICK s \in {"open", "merged", "closed"} : request' = [request EXCEPT ![n] = s]
    BY <1>1 DEF Review
  <2>2. \A m \in Requests : request[m] # "absent" => request'[m] # "absent"
    BY <2>1
  <2>3. UNCHANGED <<current, pr, asks, holder>>
    BY <1>1 DEF Review, resource, rows
  <2> QED BY <2>2, <2>3
<1>2. CASE Submit
  BY <1>2 DEF Submit, RowFree, PlanNumbers
<1>3. CASE Approve
  BY <1>3 DEF Approve
<1>4. ASSUME NEW n \in Requests, Choose(n)
      PROVE  WaitingWasSent'
  BY <1>4 DEF Choose, OpenRequests
<1>5. ASSUME NEW n \in Requests, OpenNew(n)
      PROVE  WaitingWasSent'
  BY <1>5 DEF OpenNew
<1>6. ASSUME NEW p \in Publications, StartPublish(p)
      PROVE  WaitingWasSent'
  BY <1>6 DEF StartPublish, Hold
<1>7. CASE Upload
  BY <1>7 DEF Upload
<1>8. CASE FinishPublish
  BY <1>8 DEF FinishPublish, Release, Superseded
<1>9. CASE FailPublish
  BY <1>9 DEF FailPublish, Release
<1>10. ASSUME NEW p \in Publications, AskReopen(p)
      PROVE  WaitingWasSent'
  <2>1. p <= current /\ pr[p] # 0 /\ request[pr[p]] # "absent"
    <3>1. state[p] \in {"reviewing", "failed"} /\ pr[p] # 0
      BY <1>10 DEF AskReopen, MayReopen
    <3>2. current \in Nat /\ p \in Nat
      OBVIOUS
    <3>3. ~(current < p)
      BY <3>1 DEF UnapprovedIsUnsent
    <3> QED BY <3>1, <3>2, <3>3
  <2>2. \A q \in Publications : asks'[q] = IF q = p THEN pr[p] ELSE asks[q]
    BY <1>10 DEF AskReopen
  <2>3. UNCHANGED <<current, pr, request>>
    BY <1>10 DEF AskReopen
  <2> QED BY <2>1, <2>2, <2>3
<1>11. ASSUME NEW p \in Publications, BeginReopen(p)
      PROVE  WaitingWasSent'
  BY <1>11 DEF BeginReopen, Hold
<1>12. ASSUME NEW p \in Publications, DropReopen(p)
      PROVE  WaitingWasSent'
  BY <1>12 DEF DropReopen
<1>13. CASE AskGitHub
  <2>1. request' = request \/ request' = [request EXCEPT ![chosen] = "open"]
    BY <1>13 DEF AskGitHub
  <2>2. \A n \in Requests : request[n] # "absent" => request'[n] # "absent"
    BY <2>1
  <2>3. UNCHANGED <<current, pr, asks, chosen>> /\ busy = "asking" /\ busy' = "asked"
    BY <1>13 DEF AskGitHub, waiting, resource, rows
  <2> QED BY <2>2, <2>3
<1>14. CASE AbandonReopen
  <2>1. \/ request' = request
        \/ request' = [request EXCEPT ![chosen] = IF @ = "closed" THEN "open" ELSE @]
    BY <1>14 DEF AbandonReopen
  <2>2. \A n \in Requests : request[n] # "absent" => request'[n] # "absent"
    BY <2>1
  <2>3. UNCHANGED <<current, pr, asks>> /\ busy' = "free"
    BY <1>14 DEF AbandonReopen, Release, waiting, resource, rows
  <2> QED BY <2>2, <2>3
<1>15. CASE CommitReopen
  BY <1>15 DEF CommitReopen, Release, ClearLease
<1>16. CASE UNCHANGED <<resource, plan, pr, request, holder>>
  BY <1>16 DEF resource, holder, waiting, poller
<1> QED BY <1>1, <1>2, <1>3, <1>4, <1>5, <1>6, <1>7, <1>8, <1>9, <1>10, <1>11, <1>12, <1>13,
       <1>14, <1>15, <1>16, ResourceWriters, NumberWriters, RequestWriters, HolderWriters DEF
       resource, holder

\* The lock is taken for a publication, and nobody else writes to the request
\* that its holder works on.
LEMMA HolderKept == ReviewInv /\ Next => HolderKnows'
<1> SUFFICES ASSUME ReviewInv, Next PROVE HolderKnows'
  OBVIOUS
<1> USE AstroBoxAssumption DEF ReviewInv, HolderKnows, TypeOK, Publications, Requests,
    WaitingWasSent, rows, resource, github, holder, waiting, poller
<1>1. ASSUME NEW n \in Requests, Review(n)
      PROVE  HolderKnows'
  <2>1. PICK s \in {"open", "merged", "closed"} : request' = [request EXCEPT ![n] = s]
    BY <1>1 DEF Review
  <2>2. \A m \in Requests : request[m] # "absent" => request'[m] # "absent"
    BY <2>1
  <2>3. UNCHANGED <<current, pr, subject, carries, holder>>
    BY <1>1 DEF Review, resource, rows
  <2> QED BY <2>2, <2>3
<1>2. ASSUME NEW n \in Requests, Apply(n)
      PROVE  HolderKnows'
  BY <1>2 DEF Apply
<1>3. CASE Submit
  BY <1>3 DEF Submit, RowFree, PlanNumbers
<1>4. CASE Approve
  BY <1>4 DEF Approve
<1>5. ASSUME NEW n \in Requests, Choose(n)
      PROVE  HolderKnows'
  BY <1>5 DEF Choose, OpenRequests
<1>6. ASSUME NEW n \in Requests, OpenNew(n)
      PROVE  HolderKnows'
  BY <1>6 DEF OpenNew
<1>7. ASSUME NEW p \in Publications, StartPublish(p)
      PROVE  HolderKnows'
  BY <1>7 DEF StartPublish, Hold
<1>8. CASE Upload
  BY <1>8 DEF Upload
<1>9. CASE FinishPublish
  BY <1>9 DEF FinishPublish, Release, Superseded
<1>10. CASE FailPublish
  BY <1>10 DEF FailPublish, Release
<1>11. ASSUME NEW p \in Publications, AskReopen(p)
      PROVE  HolderKnows'
  BY <1>11 DEF AskReopen, MayReopen
<1>12. ASSUME NEW p \in Publications, BeginReopen(p)
      PROVE  HolderKnows'
  BY <1>12 DEF BeginReopen, Hold
<1>13. ASSUME NEW p \in Publications, DropReopen(p)
      PROVE  HolderKnows'
  BY <1>13 DEF DropReopen
<1>14. CASE AskGitHub
  <2>1. request' = request \/ request' = [request EXCEPT ![chosen] = "open"]
    BY <1>14 DEF AskGitHub
  <2>2. \A n \in Requests : request[n] # "absent" => request'[n] # "absent"
    BY <2>1
  <2>3. UNCHANGED <<current, pr, subject, carries, chosen>> /\ busy = "asking" /\ busy' = "asked"
    BY <1>14 DEF AskGitHub, waiting, resource, rows
  <2> QED BY <2>2, <2>3
<1>15. CASE AbandonReopen
  BY <1>15 DEF AbandonReopen, Release
<1>16. CASE CommitReopen
  BY <1>16 DEF CommitReopen, Release, ClearLease
<1>17. CASE UNCHANGED <<resource, plan, pr, request, carries, named, applied, entry, holder>>
  BY <1>17 DEF resource, holder, waiting, poller
<1> QED BY <1>1, <1>2, <1>3, <1>4, <1>5, <1>6, <1>7, <1>8, <1>9, <1>10, <1>11, <1>12, <1>13,
       <1>14, <1>15, <1>16, <1>17, ResourceWriters, NumberWriters, RequestWriters,
       CatalogWriters, HolderWriters DEF resource, holder

\* No request is forgotten by GitHub, and a number is written with the state.
LEMMA RequestsKept == ReviewInv /\ Next => RequestsExist'
<1> SUFFICES ASSUME ReviewInv, Next PROVE RequestsExist'
  OBVIOUS
<1> USE AstroBoxAssumption DEF ReviewInv, RequestsExist, TypeOK, Publications, Requests,
    HolderKnows, rows, resource, github, holder, waiting, poller
<1>0. \A p \in Publications :
        (pr[p] # 0 => pr[p] \in Requests) /\ (asks[p] # 0 => asks[p] \in Requests)
  OBVIOUS
<1> USE <1>0
<1>1. ASSUME NEW n \in Requests, Review(n)
      PROVE  RequestsExist'
  <2>1. PICK s \in {"open", "merged", "closed"} : request' = [request EXCEPT ![n] = s]
    BY <1>1 DEF Review
  <2>2. \A m \in Requests : request[m] # "absent" => request'[m] # "absent"
    BY <2>1
  <2>3. UNCHANGED <<state, pr, holder>>
    BY <1>1 DEF Review, resource, rows
  <2> QED BY <2>2, <2>3
<1>2. CASE Submit
  BY <1>2 DEF Submit, RowFree, PlanNumbers
<1>3. CASE Approve
  BY <1>3 DEF Approve
<1>4. ASSUME NEW p \in Publications, Retry(p)
      PROVE  RequestsExist'
  BY <1>4 DEF Retry, RowFree
<1>5. ASSUME NEW p \in Publications, Cancel(p)
      PROVE  RequestsExist'
  BY <1>5 DEF Cancel, ClearLease, RowFree
<1>6. ASSUME NEW n \in Requests, Choose(n)
      PROVE  RequestsExist'
  BY <1>6 DEF Choose, OpenRequests
<1>7. ASSUME NEW n \in Requests, OpenNew(n)
      PROVE  RequestsExist'
  BY <1>7 DEF OpenNew
<1>8. ASSUME NEW p \in Publications, StartPublish(p)
      PROVE  RequestsExist'
  BY <1>8 DEF StartPublish, Hold
<1>9. CASE Upload
  BY <1>9 DEF Upload
<1>10. CASE FinishPublish
  <2>1. chosen \in Requests /\ request[chosen] # "absent" /\ chosen # 0
    BY <1>10 DEF FinishPublish
  <2>2. \A q \in Publications : pr'[q] = IF q = subject THEN chosen ELSE pr[q]
    BY <1>10 DEF FinishPublish
  <2>3. \A q \in Publications : state'[q] = "reviewing" => q = subject \/ state[q] = "reviewing"
    BY <1>10 DEF FinishPublish
  <2>4. UNCHANGED request
    BY <1>10 DEF FinishPublish
  <2> QED BY <2>1, <2>2, <2>3, <2>4
<1>11. CASE FailPublish
  BY <1>11 DEF FailPublish, Release
<1>12. ASSUME NEW p \in Publications, AskReopen(p)
      PROVE  RequestsExist'
  BY <1>12 DEF AskReopen, MayReopen
<1>13. ASSUME NEW p \in Publications, BeginReopen(p)
      PROVE  RequestsExist'
  BY <1>13 DEF BeginReopen, Hold
<1>14. ASSUME NEW p \in Publications, DropReopen(p)
      PROVE  RequestsExist'
  BY <1>14 DEF DropReopen
<1>15. CASE AskGitHub
  <2>1. request' = request \/ request' = [request EXCEPT ![chosen] = "open"]
    BY <1>15 DEF AskGitHub
  <2>2. \A n \in Requests : request[n] # "absent" => request'[n] # "absent"
    BY <2>1
  <2>3. UNCHANGED <<state, pr, chosen>> /\ busy = "asking" /\ busy' = "asked"
    BY <1>15 DEF AskGitHub, waiting, resource, rows
  <2> QED BY <2>2, <2>3
<1>16. CASE AbandonReopen
  <2>1. \/ request' = request
        \/ request' = [request EXCEPT ![chosen] = IF @ = "closed" THEN "open" ELSE @]
    BY <1>16 DEF AbandonReopen
  <2>2. \A n \in Requests : request[n] # "absent" => request'[n] # "absent"
    BY <2>1
  <2>3. UNCHANGED <<state, pr>> /\ busy' = "free"
    BY <1>16 DEF AbandonReopen, Release, waiting, resource, rows
  <2> QED BY <2>2, <2>3
<1>17. CASE CommitReopen
  BY <1>17 DEF CommitReopen, Release, ClearLease
<1>18. ASSUME NEW w \in Pollers, PollRetire(w)
      PROVE  RequestsExist'
  BY <1>18 DEF PollRetire, ClearLease, PollReturn, OwnsLease
<1>19. ASSUME NEW w \in Pollers, PollCommit(w)
      PROVE  RequestsExist'
  BY <1>19 DEF PollCommit, ClearLease, PollReturn, OwnsLease, IsAccepted, IsRejected
<1>20. ASSUME NEW w \in Pollers, PollFails(w)
      PROVE  RequestsExist'
  BY <1>20 DEF PollFails, ClearLease, PollReturn, OwnsLease
<1>21. CASE UNCHANGED <<state, plan, pr, request, holder>>
  BY <1>21 DEF resource, holder, waiting, poller
<1> QED BY <1>1, <1>2, <1>3, <1>4, <1>5, <1>6, <1>7, <1>8, <1>9, <1>10, <1>11, <1>12, <1>13,
       <1>14, <1>15, <1>16, <1>17, <1>18, <1>19, <1>20, <1>21, StateWriters, NumberWriters,
       RequestWriters, HolderWriters DEF holder

\* The row of the last commit is written down with its request's number; a newer
\* commit on the request makes it nobody's.
LEMMA RowsKept == ReviewInv /\ Next => RowsAreOwn'
<1> SUFFICES ASSUME ReviewInv, Next PROVE RowsAreOwn'
  OBVIOUS
<1> USE AstroBoxAssumption DEF ReviewInv, RowsAreOwn, TypeOK, Publications, Requests,
    HolderKnows, rows, resource, github, holder, waiting, poller
<1>0. \A p \in Publications :
        (pr[p] # 0 => pr[p] \in Requests) /\ (asks[p] # 0 => asks[p] \in Requests)
  OBVIOUS
<1> USE <1>0
<1>1. ASSUME NEW n \in Requests, Review(n)
      PROVE  RowsAreOwn'
  <2>1. PICK s \in {"open", "merged", "closed"} : request' = [request EXCEPT ![n] = s]
    BY <1>1 DEF Review
  <2>2. \A m \in Requests : request[m] # "absent" => request'[m] # "absent"
    BY <2>1
  <2>3. UNCHANGED <<named, carries, pr, holder>>
    BY <1>1 DEF Review, resource, rows
  <2> QED BY <2>2, <2>3
<1>2. ASSUME NEW n \in Requests, Apply(n)
      PROVE  RowsAreOwn'
  BY <1>2 DEF Apply
<1>3. CASE Submit
  BY <1>3 DEF Submit, RowFree, PlanNumbers
<1>4. ASSUME NEW n \in Requests, OpenNew(n)
      PROVE  RowsAreOwn'
  BY <1>4 DEF OpenNew
<1>5. CASE Upload
  <2>1. \A n \in named' : n \in named /\ carries'[n] = carries[n]
    <3>1. CASE request[chosen] = "merged"
      BY <1>5, <3>1 DEF Upload
    <3>2. CASE request[chosen] # "merged"
      <4>1. named' = named \ {chosen} /\ carries' = [carries EXCEPT ![chosen] = subject]
        BY <1>5, <3>2 DEF Upload
      <4> QED BY <4>1
    <3> QED BY <3>1, <3>2
  <2>2. UNCHANGED <<pr, request>>
    BY <1>5 DEF Upload
  <2> QED BY <2>1, <2>2
<1>6. CASE FinishPublish
  BY <1>6 DEF FinishPublish, Release, Superseded
<1>7. CASE AskGitHub
  <2>1. request' = request \/ request' = [request EXCEPT ![chosen] = "open"]
    BY <1>7 DEF AskGitHub
  <2>2. \A n \in Requests : request[n] # "absent" => request'[n] # "absent"
    BY <2>1
  <2>3. UNCHANGED <<named, carries, pr, chosen>> /\ busy = "asking" /\ busy' = "asked"
    BY <1>7 DEF AskGitHub, waiting, resource, rows
  <2> QED BY <2>2, <2>3
<1>8. CASE AbandonReopen
  <2>1. \/ request' = request
        \/ request' = [request EXCEPT ![chosen] = IF @ = "closed" THEN "open" ELSE @]
    BY <1>8 DEF AbandonReopen
  <2>2. \A n \in Requests : request[n] # "absent" => request'[n] # "absent"
    BY <2>1
  <2>3. UNCHANGED <<named, carries, pr>> /\ busy' = "free"
    BY <1>8 DEF AbandonReopen, Release, waiting, resource, rows
  <2> QED BY <2>2, <2>3
<1>9. CASE UNCHANGED <<plan, pr, request, carries, named, applied, entry>>
  BY <1>9 DEF resource, holder, waiting, poller
<1> QED BY <1>1, <1>2, <1>3, <1>4, <1>5, <1>6, <1>7, <1>8, <1>9, NumberWriters, RequestWriters,
       CatalogWriters

\* A number, once there, is replaced by another one only.
LEMMA ItemsKept == ReviewInv /\ Next => PollHasItem'
<1> SUFFICES ASSUME ReviewInv, Next PROVE PollHasItem'
  OBVIOUS
<1> USE AstroBoxAssumption DEF ReviewInv, PollHasItem, TypeOK, Publications, Requests,
    RequestsExist, HolderKnows, rows, resource, github, holder, waiting, poller
<1>1. CASE Submit
  BY <1>1 DEF Submit, RowFree, PlanNumbers
<1>2. CASE FinishPublish
  BY <1>2 DEF FinishPublish, Release, Superseded
<1>3. ASSUME NEW w \in Pollers, NEW p \in Publications, PollClaim(w, p)
      PROVE  PollHasItem'
  BY <1>3 DEF PollClaim, Leased
<1>4. ASSUME NEW w \in Pollers, PollRetire(w)
      PROVE  PollHasItem'
  BY <1>4 DEF PollRetire, ClearLease, PollReturn, OwnsLease
<1>5. ASSUME NEW w \in Pollers, PollRead(w)
      PROVE  PollHasItem'
  BY <1>5 DEF PollRead, OwnsLease, ExpectedRow
<1>6. ASSUME NEW w \in Pollers, PollCommit(w)
      PROVE  PollHasItem'
  BY <1>6 DEF PollCommit, ClearLease, PollReturn, OwnsLease, IsAccepted, IsRejected
<1>7. ASSUME NEW w \in Pollers, PollFails(w)
      PROVE  PollHasItem'
  BY <1>7 DEF PollFails, ClearLease, PollReturn, OwnsLease
<1>8. ASSUME NEW w \in Pollers, PollStops(w)
      PROVE  PollHasItem'
  BY <1>8 DEF PollStops, PollReturn
<1>9. CASE UNCHANGED <<plan, pr, poller>>
  BY <1>9 DEF resource, holder, waiting, poller
<1> QED BY <1>1, <1>2, <1>3, <1>4, <1>5, <1>6, <1>7, <1>8, <1>9, NumberWriters, PollerWriters
       DEF poller

\* What a poll has read stays so: the row cannot get another request or another
\* commit while the lease is held, and a merge is final.
LEMMA SeenKept == ReviewInv /\ Next => SeenIsSo'
<1> SUFFICES ASSUME ReviewInv, Next PROVE SeenIsSo'
  OBVIOUS
<1> USE AstroBoxAssumption DEF ReviewInv, SeenIsSo, TypeOK, LeasedIsUnderReview, HolderKnows,
    RequestsExist, PollHasItem, rows, resource, github, holder, waiting, poller
<1>1. ASSUME NEW n \in Requests, Review(n)
      PROVE  SeenIsSo'
  BY <1>1 DEF Review
<1>2. ASSUME NEW n \in Requests, Apply(n)
      PROVE  SeenIsSo'
  BY <1>2 DEF Apply
<1>3. ASSUME NEW p \in Publications, GraceEnds(p)
      PROVE  SeenIsSo'
  BY <1>3 DEF GraceEnds
<1>4. ASSUME NEW p \in Publications, LeaseExpires(p)
      PROVE  SeenIsSo'
  BY <1>4 DEF LeaseExpires
<1>5. CASE Submit
  BY <1>5 DEF Submit, RowFree, PlanNumbers
<1>6. CASE Approve
  BY <1>6 DEF Approve
<1>7. ASSUME NEW p \in Publications, Retry(p)
      PROVE  SeenIsSo'
  BY <1>7 DEF Retry, RowFree
<1>8. ASSUME NEW p \in Publications, Cancel(p)
      PROVE  SeenIsSo'
  BY <1>8 DEF Cancel, ClearLease, RowFree
<1>9. ASSUME NEW n \in Requests, OpenNew(n)
      PROVE  SeenIsSo'
  BY <1>9 DEF OpenNew
<1>10. ASSUME NEW p \in Publications, StartPublish(p)
      PROVE  SeenIsSo'
  BY <1>10 DEF StartPublish, Hold
<1>11. CASE Upload
  BY <1>11 DEF Upload
<1>12. CASE FinishPublish
  BY <1>12 DEF FinishPublish, Release, Superseded
<1>13. CASE FailPublish
  BY <1>13 DEF FailPublish, Release
<1>14. CASE AskGitHub
  BY <1>14 DEF AskGitHub
<1>15. CASE AbandonReopen
  BY <1>15 DEF AbandonReopen, Release
<1>16. CASE CommitReopen
  BY <1>16 DEF CommitReopen, Release, ClearLease
<1>17. ASSUME NEW w \in Pollers, NEW p \in Publications, PollClaim(w, p)
      PROVE  SeenIsSo'
  BY <1>17 DEF PollClaim, Leased
<1>18. ASSUME NEW w \in Pollers, PollRetire(w)
      PROVE  SeenIsSo'
  BY <1>18 DEF PollRetire, ClearLease, PollReturn, OwnsLease
<1>19. ASSUME NEW w \in Pollers, PollRead(w)
      PROVE  SeenIsSo'
  <2>1. pitem[w] \in Publications /\ pr[pitem[w]] # 0
    BY <1>19 DEF PollRead
  <2>2. pr[pitem[w]] \in Requests
    BY <2>1 DEF Requests
  <2>3. request[pr[pitem[w]]] # "applied"
    BY <2>2
  <2>4. pseen'[w] = "applied" => ExpectedRow(pitem[w])
    BY <1>19, <2>3 DEF PollRead
  <2>5. pseen'[w] = "applied" =>
          pr[pitem[w]] \in applied \intersect named /\ carries[pr[pitem[w]]] = pitem[w]
    BY <2>4 DEF ExpectedRow, RowsAreOwn
  <2>6. \A x \in Pollers \ {w} : pseen'[x] = pseen[x] /\ ppc'[x] = ppc[x]
    BY <1>19 DEF PollRead
  <2>7. UNCHANGED <<pr, lease, applied, named, carries, pitem>>
    BY <1>19 DEF PollRead
  <2> QED BY <2>5, <2>6, <2>7
<1>20. ASSUME NEW w \in Pollers, PollCommit(w)
      PROVE  SeenIsSo'
  BY <1>20 DEF PollCommit, ClearLease, PollReturn, OwnsLease, IsAccepted, IsRejected
<1>21. ASSUME NEW w \in Pollers, PollFails(w)
      PROVE  SeenIsSo'
  BY <1>21 DEF PollFails, ClearLease, PollReturn, OwnsLease
<1>22. ASSUME NEW w \in Pollers, PollStops(w)
      PROVE  SeenIsSo'
  BY <1>22 DEF PollStops, PollReturn
<1>23. CASE UNCHANGED <<state, plan, pr, grace, lease, live, request, carries, named, applied,
                       entry, poller>>
  BY <1>23 DEF resource, holder, waiting, poller
<1> QED BY <1>1, <1>2, <1>3, <1>4, <1>5, <1>6, <1>7, <1>8, <1>9, <1>10, <1>11, <1>12, <1>13,
       <1>14, <1>15, <1>16, <1>17, <1>18, <1>19, <1>20, <1>21, <1>22, <1>23, StateWriters,
       NumberWriters, LeaseWriters, RequestWriters, CatalogWriters, PollerWriters DEF poller

\* The two minutes start with a change that takes the lease away from the poll.
LEMMA GraceKept == ReviewInv /\ Next => GraceIsKnown'
<1> SUFFICES ASSUME ReviewInv, Next PROVE GraceIsKnown'
  OBVIOUS
<1> USE AstroBoxAssumption DEF ReviewInv, GraceIsKnown, TypeOK, LeasedIsUnderReview,
    HolderKnows, PollHasItem, rows, resource, github, holder, waiting, poller
<1>1. ASSUME NEW p \in Publications, GraceEnds(p)
      PROVE  GraceIsKnown'
  BY <1>1 DEF GraceEnds
<1>2. ASSUME NEW p \in Publications, LeaseExpires(p)
      PROVE  GraceIsKnown'
  BY <1>2 DEF LeaseExpires
<1>3. CASE Submit
  BY <1>3 DEF Submit, RowFree, PlanNumbers
<1>4. CASE Approve
  BY <1>4 DEF Approve
<1>5. ASSUME NEW p \in Publications, Retry(p)
      PROVE  GraceIsKnown'
  BY <1>5 DEF Retry, RowFree
<1>6. ASSUME NEW p \in Publications, Cancel(p)
      PROVE  GraceIsKnown'
  BY <1>6 DEF Cancel, ClearLease, RowFree
<1>7. ASSUME NEW p \in Publications, StartPublish(p)
      PROVE  GraceIsKnown'
  BY <1>7 DEF StartPublish, Hold
<1>8. CASE FinishPublish
  BY <1>8 DEF FinishPublish, Release, Superseded
<1>9. CASE FailPublish
  BY <1>9 DEF FailPublish, Release
<1>10. CASE CommitReopen
  BY <1>10 DEF CommitReopen, Release, ClearLease
<1>11. ASSUME NEW w \in Pollers, NEW p \in Publications, PollClaim(w, p)
      PROVE  GraceIsKnown'
  BY <1>11 DEF PollClaim, Leased
<1>12. ASSUME NEW w \in Pollers, PollRetire(w)
      PROVE  GraceIsKnown'
  BY <1>12 DEF PollRetire, ClearLease, PollReturn, OwnsLease
<1>13. ASSUME NEW w \in Pollers, PollRead(w)
      PROVE  GraceIsKnown'
  BY <1>13 DEF PollRead, OwnsLease, ExpectedRow
<1>14. ASSUME NEW w \in Pollers, PollCommit(w)
      PROVE  GraceIsKnown'
  BY <1>14 DEF PollCommit, ClearLease, PollReturn, OwnsLease, IsAccepted, IsRejected
<1>15. ASSUME NEW w \in Pollers, PollFails(w)
      PROVE  GraceIsKnown'
  BY <1>15 DEF PollFails, ClearLease, PollReturn, OwnsLease
<1>16. ASSUME NEW w \in Pollers, PollStops(w)
      PROVE  GraceIsKnown'
  BY <1>16 DEF PollStops, PollReturn
<1>17. CASE UNCHANGED <<state, grace, lease, live, poller>>
  BY <1>17 DEF resource, holder, waiting, poller
<1> QED BY <1>1, <1>2, <1>3, <1>4, <1>5, <1>6, <1>7, <1>8, <1>9, <1>10, <1>11, <1>12, <1>13,
       <1>14, <1>15, <1>16, <1>17, StateWriters, LeaseWriters, PollerWriters DEF poller

\* What was accepted stays so, and only a poll that owns its lease accepts.
LEMMA AcceptedKept == ReviewInv /\ Next => AcceptedIsInCatalog'
<1> SUFFICES ASSUME ReviewInv, Next PROVE AcceptedIsInCatalog'
  OBVIOUS
<1> USE AstroBoxAssumption DEF ReviewInv, AcceptedIsInCatalog, TypeOK, LeasedIsUnderReview,
    HolderKnows, PollHasItem, SeenIsSo, UnapprovedIsUnsent, rows, resource, github, holder,
    waiting, poller
<1>1. ASSUME NEW n \in Requests, Review(n)
      PROVE  AcceptedIsInCatalog'
  BY <1>1 DEF Review
<1>2. ASSUME NEW n \in Requests, Apply(n)
      PROVE  AcceptedIsInCatalog'
  BY <1>2 DEF Apply
<1>3. CASE Submit
  BY <1>3 DEF Submit, RowFree, PlanNumbers
<1>4. CASE Approve
  BY <1>4 DEF Approve
<1>5. ASSUME NEW p \in Publications, Retry(p)
      PROVE  AcceptedIsInCatalog'
  BY <1>5 DEF Retry, RowFree
<1>6. ASSUME NEW p \in Publications, Cancel(p)
      PROVE  AcceptedIsInCatalog'
  BY <1>6 DEF Cancel, ClearLease, RowFree
<1>7. ASSUME NEW n \in Requests, OpenNew(n)
      PROVE  AcceptedIsInCatalog'
  BY <1>7 DEF OpenNew
<1>8. ASSUME NEW p \in Publications, StartPublish(p)
      PROVE  AcceptedIsInCatalog'
  BY <1>8 DEF StartPublish, Hold
<1>9. CASE Upload
  BY <1>9 DEF Upload
<1>10. CASE FinishPublish
  BY <1>10 DEF FinishPublish, Release, Superseded
<1>11. CASE FailPublish
  BY <1>11 DEF FailPublish, Release
<1>12. CASE AskGitHub
  BY <1>12 DEF AskGitHub
<1>13. CASE AbandonReopen
  BY <1>13 DEF AbandonReopen, Release
<1>14. CASE CommitReopen
  BY <1>14 DEF CommitReopen, Release, ClearLease
<1>15. ASSUME NEW w \in Pollers, PollRetire(w)
      PROVE  AcceptedIsInCatalog'
  BY <1>15 DEF PollRetire, ClearLease, PollReturn, OwnsLease
<1>16. ASSUME NEW w \in Pollers, PollCommit(w)
      PROVE  AcceptedIsInCatalog'
  BY <1>16 DEF PollCommit, ClearLease, PollReturn, OwnsLease, IsAccepted, IsRejected
<1>17. ASSUME NEW w \in Pollers, PollFails(w)
      PROVE  AcceptedIsInCatalog'
  BY <1>17 DEF PollFails, ClearLease, PollReturn, OwnsLease
<1>18. CASE UNCHANGED <<state, plan, pr, request, carries, named, applied, entry>>
  BY <1>18 DEF resource, holder, waiting, poller
<1> QED BY <1>1, <1>2, <1>3, <1>4, <1>5, <1>6, <1>7, <1>8, <1>9, <1>10, <1>11, <1>12, <1>13,
       <1>14, <1>15, <1>16, <1>17, <1>18, StateWriters, NumberWriters, RequestWriters,
       CatalogWriters

\* Every step keeps the invariant.
LEMMA ReviewInvStep == ReviewInv /\ [Next]_vars => ReviewInv'
<1>1. ASSUME ReviewInv, Next
      PROVE  ReviewInv'
  <2>1. TypeOK'
    BY <1>1, ResourceTypeKept, StateTypeKept, NumberTypeKept, LeaseTypeKept, RequestTypeKept,
       AppliedTypeKept, CarriesTypeKept, HolderTypeKept, PollerTypeKept, SeenTypeKept DEF
       TypeOK, ResourceTyped, StateTyped, NumbersTyped, LeasesTyped, RequestTyped, AppliedTyped,
       CarriesTyped, HolderTyped, PollersTyped, SeenTyped
  <2>2. LeasedIsUnderReview' /\ UnapprovedIsUnsent' /\ WaitingWasSent' /\ HolderKnows'
    BY <1>1, LeasedKept, UnsentKept, WaitingKept, HolderKept
  <2>3. RequestsExist' /\ RowsAreOwn' /\ PollHasItem'
    BY <1>1, RequestsKept, RowsKept, ItemsKept
  <2>4. SeenIsSo' /\ GraceIsKnown' /\ AcceptedIsInCatalog'
    BY <1>1, SeenKept, GraceKept, AcceptedKept
  <2> QED BY <2>1, <2>2, <2>3, <2>4 DEF ReviewInv
<1>2. ASSUME ReviewInv, UNCHANGED vars
      PROVE  ReviewInv'
  BY <1>2 DEF ReviewInv, TypeOK, LeasedIsUnderReview, UnapprovedIsUnsent, WaitingWasSent,
       HolderKnows, RequestsExist, RowsAreOwn, PollHasItem, SeenIsSo, GraceIsKnown,
       AcceptedIsInCatalog, vars, rows, resource, github, holder, waiting, poller
<1> QED BY <1>1, <1>2

-----------------------------------------------------------------------------
(* The theorems *)

\* The inductive invariant: what polls, reopenings and handlers may rely on while
\* the others take their steps.
THEOREM ReviewInvariance == Spec => []ReviewInv
BY ReviewInvInit, ReviewInvStep, PTL DEF Spec

\* Every reachable state of rows, requests, lock and polls is well typed.
THEOREM ReviewTypeCorrect == Spec => []TypeOK
<1>1. ReviewInv => TypeOK
  BY DEF ReviewInv
<1> QED BY <1>1, ReviewInvariance, PTL

\* A publication is called published only when its own files were merged through
\* its request and the catalog has their row, whatever newer revisions and
\* reopenings did to the same request.
THEOREM AcceptedIsInCatalogAlways == Spec => []AcceptedIsInCatalog
<1>1. ReviewInv => AcceptedIsInCatalog
  BY DEF ReviewInv
<1> QED BY <1>1, ReviewInvariance, PTL

\* No poll fails a publication within two minutes of the owner's request: the
\* reopening takes its lease, and a poll that claimed later knows of it.
THEOREM GraceIsHonouredAlways == Spec => GraceIsHonoured
<1>1. ReviewInv /\ [Next]_vars =>
        [\A p \in Publications :
           state[p] = "reviewing" /\ state'[p] = "failed" => p \notin grace]_vars
  <2> SUFFICES ASSUME ReviewInv, Next, NEW p \in Publications,
                      state[p] = "reviewing", state'[p] = "failed"
               PROVE  p \notin grace
    OBVIOUS
  <2>1. TypeOK /\ GraceIsKnown
    BY DEF ReviewInv
  <2> USE <2>1 DEF TypeOK
  <2>2. ASSUME NEW w \in Pollers, PollCommit(w)
        PROVE  p \notin grace
    <3>1. pitem[w] = p /\ lease[p] = w /\ ~psaw[w] /\ ppc[w] = "read"
      BY <2>2 DEF PollCommit, OwnsLease, ClearLease, IsAccepted, IsRejected
    <3> QED BY <3>1 DEF GraceIsKnown
  <2>3. ASSUME NEW w \in Pollers, PollRetire(w) \/ PollFails(w)
        PROVE  FALSE
    BY <2>3 DEF PollRetire, PollFails, OwnsLease, ClearLease
  <2>4. ASSUME NEW q \in Publications, Retry(q) \/ Cancel(q) \/ StartPublish(q)
        PROVE  FALSE
    BY <2>4 DEF Retry, Cancel, ClearLease, StartPublish
  <2>5. CASE Submit
    BY <2>5 DEF Submit
  <2>6. CASE Approve
    BY <2>6 DEF Approve
  <2>7. CASE FinishPublish
    BY <2>7 DEF FinishPublish
  <2>8. CASE FailPublish
    <3>1. PICK s \in {"pending", "failed"} :
            state' = [state EXCEPT ![subject] = IF @ = "running" THEN s ELSE @]
      BY <2>8 DEF FailPublish
    <3> QED BY <3>1
  <2>9. CASE CommitReopen
    BY <2>9 DEF CommitReopen, ClearLease
  <2> QED BY <2>2, <2>3, <2>4, <2>5, <2>6, <2>7, <2>8, <2>9, StateWriters
<1> QED BY <1>1, ReviewInvariance, PTL DEF Spec, GraceIsHonoured

\* A cancelled publication is brought back only by being queued again or by a
\* reopening that holds the lock for it: a poll that comes back finds its lease
\* gone.
THEOREM NoUnaskedRevivalAlways == Spec => NoUnaskedRevival
<1>1. ReviewInv /\ [Next]_vars =>
        [\A p \in Publications :
           state[p] = "cancelled" =>
             \/ state'[p] \in {"cancelled", "pending"}
             \/ state'[p] = "reviewing" /\ busy = "asked" /\ subject = p]_vars
  <2> SUFFICES ASSUME ReviewInv, Next, NEW p \in Publications, state[p] = "cancelled"
               PROVE  \/ state'[p] \in {"cancelled", "pending"}
                      \/ state'[p] = "reviewing" /\ busy = "asked" /\ subject = p
    OBVIOUS
  <2>1. TypeOK
    BY DEF ReviewInv
  <2> USE <2>1 DEF TypeOK
  <2>2. ASSUME NEW w \in Pollers, PollRetire(w) \/ PollCommit(w) \/ PollFails(w)
        PROVE  state'[p] = "cancelled"
    BY <2>2 DEF PollRetire, PollCommit, PollFails, OwnsLease, ClearLease
  <2>3. ASSUME NEW q \in Publications, Retry(q) \/ Cancel(q) \/ StartPublish(q)
        PROVE  state'[p] \in {"cancelled", "pending"}
    BY <2>3 DEF Retry, Cancel, ClearLease, StartPublish
  <2>4. CASE Submit
    BY <2>4 DEF Submit
  <2>5. CASE Approve
    BY <2>5 DEF Approve
  <2>6. CASE FinishPublish
    BY <2>6 DEF FinishPublish, Superseded
  <2>7. CASE FailPublish
    <3>1. PICK s \in {"pending", "failed"} :
            state' = [state EXCEPT ![subject] = IF @ = "running" THEN s ELSE @]
      BY <2>7 DEF FailPublish
    <3> QED BY <3>1
  <2>8. CASE CommitReopen
    BY <2>8 DEF CommitReopen, ClearLease
  <2> QED BY <2>2, <2>3, <2>4, <2>5, <2>6, <2>7, <2>8, StateWriters
<1> QED BY <1>1, ReviewInvariance, PTL DEF Spec, NoUnaskedRevival
=============================================================================
