----------------------------- MODULE Coordinator -----------------------------
(***************************************************************************)
(* Module Catalog with the coordinators that execute publications against  *)
(* the external platforms.  publishOne is not one transaction: it claims a *)
(* row, takes the advisory lock of the resource on a connection of its     *)
(* own, checks again that the row may be published, writes to the platform *)
(* and records the outcome, and a handler of module Catalog may commit     *)
(* between any two of these steps.  A worker may stop at every step, which *)
(* is also what the cancelled context of a shutdown amounts to, and the    *)
(* database may drop the session that holds a worker's lock.               *)
(***************************************************************************)
EXTENDS Catalog

CONSTANTS
  MaxAttempts,  \* attempt number whose failure is permanent: 5 in the code
  MaxClaims     \* bound of the model on how often a publication is claimed

ASSUME CoordinatorAssumption ==
  /\ MaxAttempts \in Nat \ {0}
  /\ MaxClaims \in Nat

VARIABLES
  pc,           \* where each worker is in publishOne
  item,         \* the publication it works on, as claimed
  attempt,      \* item.Attempts: the attempt number read by the claim
  upstream,     \* revision whose content a resource's platform copy has
  pullRequest,  \* publications whose status_detail has a pull_request_number
  dropped       \* resources whose lock a dropped session has given away

workerVars == <<pc, item, attempt, upstream, pullRequest, dropped>>
vars == <<catalogVars, lock, workerVars>>

PC == {"idle", "claimed", "locked", "writing", "written", "failing", "unlocking"}

NoItem == <<<<None, 0>>, None>>

Resource(w) == ResourceOf(item[w])
Holds(w) == lock[Resource(w)] = w

Init ==
  /\ CatalogInit
  /\ lock = [r \in Resources |-> None]
  /\ pc = [w \in Workers |-> "idle"]
  /\ item = [w \in Workers |-> NoItem]
  /\ attempt = [w \in Workers |-> 0]
  /\ upstream = [x \in Resources \X Targets |-> None]
  /\ pullRequest = {}
  /\ dropped = {}

\* publishOne returns: the item is forgotten, a lock still held is released.
Return(w) ==
  /\ pc' = [pc EXCEPT ![w] = "idle"]
  /\ item' = [item EXCEPT ![w] = NoItem]
  /\ attempt' = [attempt EXCEPT ![w] = 0]
  /\ lock' = [r \in Resources |-> IF lock[r] = w THEN None ELSE lock[r]]

\* Mutant: the row changes, its history is not written.
Untold(p, s) ==
  /\ pubState' = [pubState EXCEPT ![p] = s]
  /\ UNCHANGED lastRow

\* A transition of the row and the row of publication_attempts telling it.
Record(p, s) ==
  /\ pubState' = [pubState EXCEPT ![p] = s]
  /\ lastRow' = [lastRow EXCEPT ![p] = s]

-----------------------------------------------------------------------------
(* publishOne, step by step *)

\* One statement selects, marks and logs a due pending publication.  Which
\* one is the oldest due depends on back-off times the model leaves open.
Claim(w, p) ==
  /\ pc[w] = "idle"
  /\ pubState[p] = "pending" /\ Dispatchable(p)
  /\ attempts[p] < MaxClaims
  /\ Record(p, "running")
  /\ attempts' = [attempts EXCEPT ![p] = @ + 1]
  /\ pc' = [pc EXCEPT ![w] = "claimed"]
  /\ item' = [item EXCEPT ![w] = p]
  /\ attempt' = [attempt EXCEPT ![w] = attempts[p] + 1]
  /\ UNCHANGED <<moderation, current, deletion, revState, caseState, lock, upstream, pullRequest, dropped>>

Acquire(w) ==
  /\ pc[w] = "claimed"
  /\ LockFree(Resource(w))
  /\ lock' = [lock EXCEPT ![Resource(w)] = w]
  /\ pc' = [pc EXCEPT ![w] = "locked"]
  /\ UNCHANGED <<catalogVars, item, attempt, upstream, pullRequest, dropped>>

\* failPublicationAttempt: nothing is recorded unless the row still runs.
FailAttempt(w, s) ==
  IF pubState[item[w]] = "running"
  THEN Record(item[w], s)
  ELSE UNCHANGED <<pubState, lastRow>>

\* The lock is busy, or the connection for it failed: try again later.
\* The attempt number plays no part.
Busy(w) ==
  /\ pc[w] = "claimed"
  /\ FailAttempt(w, "pending")
  /\ Return(w)
  /\ UNCHANGED <<moderation, current, deletion, revState, caseState, attempts, upstream, pullRequest, dropped>>

\* Mutant: the second look only asks whether the row still runs.
RowRuns(p) == pubState[p] = "running"

\* The second look, with the lock held.
Eligible(p) == pubState[p] = "running" /\ Dispatchable(p)

CheckEligible(w) ==
  /\ pc[w] = "locked"
  /\ Eligible(item[w])
  /\ pc' = [pc EXCEPT ![w] = "writing"]
  /\ UNCHANGED <<catalogVars, lock, item, attempt, upstream, pullRequest, dropped>>

\* Mutant: a row that is not eligible is left as it is.
LeaveRow(p) == p \in Publications /\ UNCHANGED pubState

CancelRow(p) == pubState' = [pubState EXCEPT ![p] = IF @ = "running" THEN "cancelled" ELSE @]

\* Not eligible any more: cancelled without a row in publication_attempts.
CheckIneligible(w) ==
  /\ pc[w] = "locked"
  /\ ~Eligible(item[w])
  /\ CancelRow(item[w])
  /\ pc' = [pc EXCEPT ![w] = "unlocking"]
  /\ UNCHANGED <<moderation, current, deletion, revState, caseState, attempts, lastRow, lock,
                 item, attempt, upstream, pullRequest, dropped>>

\* The platform applies the write; whether the worker learns of it is open.
Write(w) ==
  /\ pc[w] = "writing"
  /\ upstream' = [upstream EXCEPT ![<<Resource(w), item[w][2]>>] = item[w][1]]
  /\ \E next \in {"written", "failing"} : pc' = [pc EXCEPT ![w] = next]
  /\ UNCHANGED <<catalogVars, lock, item, attempt, pullRequest, dropped>>

\* The snapshot cannot be read, or the platform refuses before any effect.
WriteRefused(w) ==
  /\ pc[w] = "writing"
  /\ pc' = [pc EXCEPT ![w] = "failing"]
  /\ UNCHANGED <<catalogVars, lock, item, attempt, upstream, pullRequest, dropped>>

\* finish: the row must still run.  AstroBox publications of the resource that
\* share the new one's pull request (S) are superseded by it.
Finish(w, S) ==
  LET p == item[w]
      outcome == IF p[2] = "astrobox" THEN "reviewing" ELSE "published" IN
  /\ pc[w] = "written"
  /\ pubState[p] = "running"
  /\ S \subseteq {q \in PublicationsOf(Resource(w)) \ {p} :
                   p[2] = "astrobox" /\ q[2] = "astrobox" /\ pubState[q] = "reviewing"}
  /\ pubState' = [q \in Publications |->
       IF q = p THEN outcome ELSE IF q \in S THEN "cancelled" ELSE pubState[q]]
  /\ lastRow' = [lastRow EXCEPT ![p] = outcome]
  /\ pc' = [pc EXCEPT ![w] = "unlocking"]
  /\ pullRequest' = IF p[2] = "astrobox" THEN pullRequest \union {p} ELSE pullRequest
  /\ UNCHANGED <<moderation, current, deletion, revState, caseState, attempts, lock,
                 item, attempt, upstream, dropped>>

\* finish fails: the row no longer runs, the binding belongs to another
\* resource, or the transaction does not commit.  publishOne treats it like
\* every other error of the platform call.
FinishFailed(w) ==
  /\ pc[w] = "written"
  /\ pc' = [pc EXCEPT ![w] = "failing"]
  /\ UNCHANGED <<catalogVars, lock, item, attempt, upstream, pullRequest, dropped>>

StateAfterError(w) == IF attempt[w] >= MaxAttempts THEN "failed" ELSE "pending"

Fail(w) ==
  /\ pc[w] = "failing"
  /\ FailAttempt(w, StateAfterError(w))
  /\ pc' = [pc EXCEPT ![w] = "unlocking"]
  /\ UNCHANGED <<moderation, current, deletion, revState, caseState, attempts, lock,
                 item, attempt, upstream, pullRequest, dropped>>

Unlock(w) ==
  /\ pc[w] = "unlocking"
  /\ Return(w)
  /\ UNCHANGED <<catalogVars, upstream, pullRequest, dropped>>

\* The process dies, its context is cancelled, or the database refuses a query
\* of publishOne: the row stays as it is, the lock goes with the session.
Stop(w) ==
  /\ pc[w] # "idle"
  /\ Return(w)
  /\ UNCHANGED <<catalogVars, upstream, pullRequest, dropped>>

\* The session holding the lock is lost while its worker goes on.
DropSession(w) ==
  /\ pc[w] # "idle" /\ Holds(w)
  /\ lock' = [lock EXCEPT ![Resource(w)] = None]
  /\ dropped' = dropped \union {Resource(w)}
  /\ UNCHANGED <<catalogVars, pc, item, attempt, upstream, pullRequest>>

-----------------------------------------------------------------------------
(* The review on the AstroBox side, seen by pollOne *)

Newer(p) ==
  {q \in PublicationsOf(ResourceOf(p)) : q[2] = "astrobox" /\ NumberOf(q) > NumberOf(p)}

\* A newer submission with the same pull request retires this one, untold;
\* otherwise the request was merged or closed.
PollOutcome(p) ==
  /\ p[2] = "astrobox" /\ pubState[p] = "reviewing"
  /\ \/ /\ \E q \in Newer(p) : pubState[q] \in {"reviewing", "published"}
        /\ pubState' = [pubState EXCEPT ![p] = "cancelled"]
        /\ UNCHANGED lastRow
     \/ \E s \in {"published", "failed"} : Record(p, s)
  /\ UNCHANGED <<moderation, current, deletion, revState, caseState, attempts, lock, workerVars>>

\* RequestAstroBoxReopen of a publication that has a pull request: no row of
\* publication_attempts tells it.
Reopen(p) ==
  /\ p \in pullRequest /\ pubState[p] \in {"reviewing", "failed"}
  /\ moderation[ResourceOf(p)] = "visible"
  /\ \A q \in Newer(p) : pubState[q] \in {"none", "cancelled"}
  /\ LockFree(ResourceOf(p))
  /\ pubState' = [pubState EXCEPT ![p] = "reviewing"]
  /\ UNCHANGED <<moderation, current, deletion, revState, caseState, attempts, lastRow, lock,
                 workerVars>>

-----------------------------------------------------------------------------
WorkerStep(w) ==
  \/ Acquire(w) \/ Busy(w)
  \/ CheckEligible(w) \/ CheckIneligible(w)
  \/ Write(w) \/ WriteRefused(w)
  \/ \E S \in SUBSET Publications : Finish(w, S)
  \/ FinishFailed(w) \/ Fail(w) \/ Unlock(w)

SteadyNext ==
  \/ CatalogNext /\ UNCHANGED workerVars
  \/ \E w \in Workers, p \in Publications : Claim(w, p)
  \/ \E w \in Workers : WorkerStep(w)
  \/ \E p \in Publications : PollOutcome(p)
  \/ \E p \in Publications : Reopen(p)

Next ==
  \/ SteadyNext
  \/ \E w \in Workers : Stop(w)
  \/ \E w \in Workers : DropSession(w)

\* The coordinator's loop calls publishOne again and again and each call runs
\* to its end; nothing is assumed of requests, crashes or lost sessions.
Fairness == \A w \in Workers : WF_vars(WorkerStep(w))

Spec == Init /\ [][Next]_vars

\* A deployment whose process, context and database session stay up.
SteadySpec == Init /\ [][SteadyNext]_vars /\ Fairness
-----------------------------------------------------------------------------
(* Properties *)

\* Every variable has its type.
TypeOK ==
  /\ moderation \in [Resources -> Moderations]
  /\ current \in [Resources -> Revisions \union {None}]
  /\ deletion \subseteq Resources
  /\ revState \in [Revisions -> RevisionStates]
  /\ caseState \in [Revisions -> CaseStates]
  /\ pubState \in [Publications -> PublicationStates]
  /\ attempts \in [Publications -> Nat]
  /\ lastRow \in [Publications -> PublicationStates]
  /\ lock \in [Resources -> Workers \union {None}]
  /\ pc \in [Workers -> PC]
  /\ item \in [Workers -> Publications \union {NoItem}]
  /\ attempt \in [Workers -> Nat]
  /\ upstream \in [Resources \X Targets -> Revisions \union {None}]
  /\ pullRequest \subseteq Publications
  /\ dropped \subseteq Resources

\* While a worker that still holds the lock may write to a platform, the
\* revision it writes is the approved, current one and its resource has not
\* been deleted: the eligibility publishOne read stays true although reviews
\* and deletions go on beside it.
WritesOnlyCurrent ==
  \A w \in Workers :
    pc[w] \in {"writing", "written", "failing"} /\ Holds(w) =>
      /\ revState[item[w][1]] = "approved"
      /\ current[Resource(w)] = item[w][1]
      /\ moderation[Resource(w)] \notin {"deleted", "removed"}

\* What a current publication reports is on the platform: when the current
\* revision's publication is published or under review, the platform has that
\* revision and not an older one a slow worker wrote last.
UpstreamIsCurrent ==
  \A p \in Publications :
    /\ current[ResourceOf(p)] = p[1]
    /\ pubState[p] \in {"published", "reviewing"}
    /\ ResourceOf(p) \notin dropped
    => upstream[<<ResourceOf(p), p[2]>>] = p[1]

\* The current revision is the one approved revision of its resource.
CurrentIsApproved ==
  \A v \in Revisions : revState[v] = "approved" <=> current[v[1]] = v

\* A revision waits for review exactly while it is submitted, and a resource
\* has at most one such revision, whoever submits and discards around it.
OneOpenCase ==
  /\ \A v \in Revisions : caseState[v] = "pending" <=> revState[v] = "submitted"
  /\ \A u, v \in Revisions :
       u[1] = v[1] /\ revState[u] = "submitted" /\ revState[v] = "submitted" => u = v

\* Deleting a resource leaves nothing of it in the hands of a worker or of the
\* poller, and nothing may start there until an administrator restores it.
DeletedIsQuiet ==
  \A p \in Publications :
    moderation[ResourceOf(p)] = "deleted" => pubState[p] \notin {"running", "reviewing", "failed"}

\* The states a worker or the poller brings about are told by the newest row
\* of publication_attempts; only a reopened review is not.
OutcomeIsTold ==
  \A p \in Publications :
    pubState[p] \in {"running", "published", "failed"} => lastRow[p] = pubState[p]

\* Under SteadySpec a claimed publication is brought to another state: nothing
\* but the workers that claimed it ever takes up a running row.
RunningIsResolved ==
  \A p \in Publications : pubState[p] = "running" ~> pubState[p] # "running"

\* What the comment of AdminManageResource says of suspend and freeze: they
\* cancel the resource's pending and running publications.
HidingCancels ==
  [][\A p \in Publications :
       LET r == ResourceOf(p) IN
       /\ moderation'[r] # moderation[r]
       /\ moderation'[r] \in {"adminSuspended", "frozen"}
       => pubState'[p] \notin {"pending", "running"}]_vars

\* What the comment of AdminDiscardRevisionDraft says: submitted or historical
\* revisions can never be discarded through it.
SubmittedIsKept ==
  [][\A v \in Revisions :
       revState[v] \notin {"none", "draft", "adminDraft"} => revState'[v] # "none"]_vars
=============================================================================
