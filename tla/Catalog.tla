------------------------------- MODULE Catalog -------------------------------
(***************************************************************************)
(* The rows of the catalogue database that decide what is published: the   *)
(* moderation state of a resource, the states of its revisions and of      *)
(* their review cases, and one publication row per revision and external   *)
(* target.  Each action is one transaction of an HTTP handler (package     *)
(* creator, store and store/resources); a request that is refused rolls    *)
(* its transaction back and is therefore no step at all.  The background   *)
(* worker that executes publications is added by module Coordinator.       *)
(***************************************************************************)
EXTENDS Naturals, FiniteSets

CONSTANTS
  Resources,    \* resource rows created by their owners
  MaxRevisions, \* bound of the model on revision_no
  Targets,      \* external publication targets; the local target 'oronbox'
                \* is published by the approval itself and never dispatched
  None,         \* the SQL NULL of current_revision_id
  Workers       \* publication coordinators sharing the database

ASSUME CatalogAssumption ==
  /\ MaxRevisions \in Nat
  /\ Targets \subseteq {"bandbbs", "astrobox"}
  /\ None \notin Resources \X (1..MaxRevisions)
  /\ None \notin Workers

VARIABLES
  moderation,   \* resources.moderation_state, with moderation_by for "suspended"
  current,      \* resources.current_revision_id
  deletion,     \* resources that own a row of resource_deletion_operations
  revState,     \* resource_revisions.state; "none" is an id not in use
  caseState,    \* review_cases.state of the revision's case
  pubState,     \* publications.state
  attempts,     \* publications.attempts
  lastRow,      \* state_to of the newest publication_attempts row
  lock          \* holder of the session advisory lock of a resource

catalogVars ==
  <<moderation, current, deletion, revState, caseState, pubState, attempts, lastRow>>

\* A revision is <<resource, revision_no>>: the code keeps the number unique
\* within the resource.  A publication is <<revision, target>>: unique as well.
Revisions == Resources \X (1..MaxRevisions)
Publications == Revisions \X Targets

ResourceOf(p) == p[1][1]
NumberOf(p) == p[1][2]

\* moderation_state, 'suspended' split by moderation_by; "removed": row deleted.
Moderations ==
  {"visible", "ownerSuspended", "adminSuspended", "frozen", "deleted", "removed"}

\* state, 'draft' split by created_via, which nothing reads after submission
\* except to copy governance data.
RevisionStates ==
  {"none", "draft", "adminDraft", "submitted", "approved", "rejected", "superseded"}

CaseStates == {"none", "pending", "approved", "rejected", "superseded"}

PublicationStates ==
  {"none", "pending", "running", "published", "reviewing", "failed", "cancelled"}

RevisionsOf(r) == {v \in Revisions : v[1] = r}
PublicationsOf(r) == {p \in Publications : ResourceOf(p) = r}

\* Mutant: the handler does not ask for the advisory lock.
LockNotAsked(r) == r \in Resources

\* A transaction-level advisory lock is taken and released inside one action.
LockFree(r) == lock[r] = None

Exists(r) == moderation[r] # "removed"

\* publishOne's condition on the row, and AdminRetry's: what may be dispatched.
Dispatchable(p) ==
  /\ revState[p[1]] = "approved"
  /\ current[ResourceOf(p)] = p[1]
  /\ moderation[ResourceOf(p)] = "visible"

CatalogInit ==
  /\ moderation = [r \in Resources |-> "visible"]
  /\ current = [r \in Resources |-> None]
  /\ deletion = {}
  /\ revState = [v \in Revisions |-> "none"]
  /\ caseState = [v \in Revisions |-> "none"]
  /\ pubState = [p \in Publications |-> "none"]
  /\ attempts = [p \in Publications |-> 0]
  /\ lastRow = [p \in Publications |-> "none"]

-----------------------------------------------------------------------------
(* Writing revisions *)

Drafts(r) == {v \in RevisionsOf(r) : revState[v] \in {"draft", "adminDraft"}}

\* revision_no of an inserted row: one more than the greatest of the rows kept.
NextRevision(r, kept) ==
  {v \in RevisionsOf(r) :
     /\ \A u \in kept : u[2] < v[2]
     /\ v[2] = 1 \/ \E u \in kept : v[2] = u[2] + 1}

Used(r) == {v \in RevisionsOf(r) : revState[v] # "none"}

\* The creator saves without submitting: every draft row goes, one is inserted.
SaveDraft(r, v) ==
  /\ moderation[r] \in {"visible", "ownerSuspended", "adminSuspended"}
  /\ v \in NextRevision(r, Used(r) \ Drafts(r))
  /\ revState' = [u \in Revisions |->
       IF u = v THEN "draft" ELSE IF u \in Drafts(r) THEN "none" ELSE revState[u]]
  /\ UNCHANGED <<moderation, current, deletion, caseState, pubState, attempts, lastRow, lock>>

\* Both submissions close the case of an earlier one and open their own.
CasesSuperseded(r, v) ==
  [u \in Revisions |->
     IF u = v THEN "pending"
     ELSE IF u \in RevisionsOf(r) /\ caseState[u] = "pending" THEN "superseded"
     ELSE caseState[u]]

\* They insert a publication per target of the plan and cancel those of the
\* other revisions that are in one of the given states.
PublicationsReplaced(r, v, T, cancelled) ==
  [p \in Publications |->
     IF p[1] = v THEN IF p[2] \in T THEN "pending" ELSE "none"
     ELSE IF p \in PublicationsOf(r) /\ pubState[p] \in cancelled THEN "cancelled"
     ELSE pubState[p]]

\* The creator submits: other drafts go, an earlier submission and its case are
\* superseded, unfinished publications of the other revisions are cancelled,
\* and the case and one publication per chosen target are inserted.
Submit(r, v, T) ==
  /\ moderation[r] \in {"visible", "ownerSuspended", "adminSuspended"}
  /\ v \in NextRevision(r, Used(r) \ Drafts(r))
  /\ revState' = [u \in Revisions |->
       IF u = v THEN "submitted"
       ELSE IF u \in Drafts(r) THEN "none"
       ELSE IF u \in RevisionsOf(r) /\ revState[u] = "submitted" THEN "superseded"
       ELSE revState[u]]
  /\ caseState' = CasesSuperseded(r, v)
  /\ pubState' = PublicationsReplaced(r, v, T, {"pending", "running"})
  /\ UNCHANGED <<moderation, current, deletion, attempts, lastRow, lock>>

\* An administrator starts a draft from an existing revision, or, as a
\* rollback, from a historical one; at most one admin draft at a time.
AdminSaveDraft(r, v) ==
  /\ Exists(r)
  /\ Used(r) # {}
  /\ \A u \in RevisionsOf(r) : revState[u] # "adminDraft"
  /\ v \in NextRevision(r, Used(r))
  /\ revState' = [revState EXCEPT ![v] = "adminDraft"]
  /\ UNCHANGED <<moderation, current, deletion, caseState, pubState, attempts, lastRow, lock>>

\* The administrator submits the draft.  Unlike Submit it cancels only the
\* pending publications of the other revisions, and other drafts stay.
AdminSubmit(r, v, T) ==
  /\ v \in RevisionsOf(r) /\ revState[v] = "adminDraft"
  /\ revState' = [u \in Revisions |->
       IF u = v THEN "submitted"
       ELSE IF u \in RevisionsOf(r) /\ revState[u] = "submitted" THEN "superseded"
       ELSE revState[u]]
  /\ caseState' = CasesSuperseded(r, v)
  /\ pubState' = PublicationsReplaced(r, v, T, {"pending"})
  /\ UNCHANGED <<moderation, current, deletion, attempts, lastRow, lock>>

\* lockAdminDraft also accepts a submission whose case is pending; the delete
\* cascades to its case and publications, and is refused by the trigger that
\* keeps publication_attempts immutable when one of them has a row there.
AdminDiscard(v) ==
  /\ \/ revState[v] = "adminDraft"
     \/ revState[v] = "submitted" /\ caseState[v] = "pending"
  /\ \A t \in Targets : lastRow[<<v, t>>] = "none"
  /\ revState' = [revState EXCEPT ![v] = "none"]
  /\ caseState' = [caseState EXCEPT ![v] = "none"]
  /\ pubState' = [p \in Publications |-> IF p[1] = v THEN "none" ELSE pubState[p]]
  /\ UNCHANGED <<moderation, current, deletion, attempts, lastRow, lock>>

-----------------------------------------------------------------------------
(* Reviewing *)

\* Mutant: the revision that was current stays approved.
PredecessorKept(v) == [revState EXCEPT ![v] = "approved"]

RevisionsApproved(v) ==
  [u \in Revisions |->
     IF u = v THEN "approved"
     ELSE IF u = current[v[1]] /\ revState[u] = "approved" THEN "superseded"
     ELSE revState[u]]

\* The current revision gives way, the approved one becomes current, every
\* publication of it is queued whatever its state was, and a suspension ends.
Approve(v) ==
  LET r == v[1] IN
  /\ caseState[v] = "pending"
  /\ LockFree(r)
  /\ caseState' = [caseState EXCEPT ![v] = "approved"]
  /\ revState' = RevisionsApproved(v)
  /\ current' = [current EXCEPT ![r] = v]
  /\ pubState' = [p \in Publications |->
       IF p[1] = v /\ pubState[p] # "none" THEN "pending" ELSE pubState[p]]
  /\ moderation' = [moderation EXCEPT ![r] =
       IF @ \in {"ownerSuspended", "adminSuspended"} THEN "visible" ELSE @]
  /\ UNCHANGED <<deletion, attempts, lastRow, lock>>

Reject(v) ==
  /\ caseState[v] = "pending"
  /\ LockFree(v[1])
  /\ caseState' = [caseState EXCEPT ![v] = "rejected"]
  /\ revState' = [revState EXCEPT ![v] = "rejected"]
  /\ pubState' = [p \in Publications |->
       IF p[1] = v /\ pubState[p] # "none" THEN "cancelled" ELSE pubState[p]]
  /\ UNCHANGED <<moderation, current, deletion, attempts, lastRow, lock>>

-----------------------------------------------------------------------------
(* Moderation and deletion of a resource *)

\* Neither takes the advisory lock.  Taking down a resource its owner has
\* already suspended rewrites the same values and is no step.
Takedown(r) ==
  /\ moderation[r] = "visible"
  /\ moderation' = [moderation EXCEPT ![r] = "ownerSuspended"]
  /\ pubState' = [p \in Publications |->
       IF p \in PublicationsOf(r) /\ pubState[p] \in {"pending", "running"}
       THEN "cancelled" ELSE pubState[p]]
  /\ UNCHANGED <<current, deletion, revState, caseState, attempts, lastRow, lock>>

Restore(r) ==
  /\ moderation[r] = "ownerSuspended"
  /\ moderation' = [moderation EXCEPT ![r] = "visible"]
  /\ UNCHANGED <<current, deletion, revState, caseState, pubState, attempts, lastRow, lock>>

\* suspend and freeze: only 'pending' publications are cancelled.  An owner's
\* suspension is 'suspended' already, so suspending it changes nothing.
AdminHide(r, m) ==
  /\ m \in {"adminSuspended", "frozen"}
  /\ Exists(r) /\ moderation[r] # m
  /\ ~(m = "adminSuspended" /\ moderation[r] = "ownerSuspended")
  /\ moderation' = [moderation EXCEPT ![r] = m]
  /\ pubState' = [p \in Publications |->
       IF p \in PublicationsOf(r) /\ pubState[p] = "pending" THEN "cancelled" ELSE pubState[p]]
  /\ UNCHANGED <<current, deletion, revState, caseState, attempts, lastRow, lock>>

\* restore and unfreeze: from every state, 'deleted' included.
AdminShow(r) ==
  /\ Exists(r) /\ moderation[r] # "visible"
  /\ moderation' = [moderation EXCEPT ![r] = "visible"]
  /\ UNCHANGED <<current, deletion, revState, caseState, pubState, attempts, lastRow, lock>>

\* delete: only a resource without revisions.
AdminRemove(r) ==
  /\ Exists(r)
  /\ \A v \in RevisionsOf(r) : revState[v] = "none"
  /\ moderation' = [moderation EXCEPT ![r] = "removed"]
  /\ UNCHANGED <<current, deletion, revState, caseState, pubState, attempts, lastRow, lock>>

\* A submission always inserts at least the local 'oronbox' publication.
EverSubmitted(v) == revState[v] \notin {"none", "draft", "adminDraft"}

\* Mutant: a deletion cancels no more than a takedown does.
CancelledByTakedown == {"pending", "running"}

CancelledByDeletion == {"pending", "running", "reviewing", "failed"}

\* The owner deletes.  A second call finds the operation row and does nothing.
\* The resource row itself goes when it never had a publication, unless an
\* imported binding left a remote step to execute (keepRow).
Delete(r, keepRow) ==
  LET history == \E v \in RevisionsOf(r) : EverSubmitted(v) IN
  /\ Exists(r) /\ r \notin deletion
  /\ LockFree(r)
  /\ deletion' = deletion \union {r}
  /\ pubState' = [p \in Publications |->
       IF p \in PublicationsOf(r) /\ pubState[p] \in CancelledByDeletion
       THEN "cancelled" ELSE pubState[p]]
  /\ IF history \/ keepRow
     THEN /\ moderation' = [moderation EXCEPT ![r] = "deleted"]
          /\ UNCHANGED <<current, revState, caseState>>
     ELSE /\ moderation' = [moderation EXCEPT ![r] = "removed"]
          /\ current' = [current EXCEPT ![r] = None]
          /\ revState' = [v \in Revisions |-> IF v \in RevisionsOf(r) THEN "none" ELSE revState[v]]
          /\ caseState' = [v \in Revisions |-> IF v \in RevisionsOf(r) THEN "none" ELSE caseState[v]]
  /\ UNCHANGED <<attempts, lastRow, lock>>

-----------------------------------------------------------------------------
(* Managing publications by hand *)

\* retry and requeue, by an administrator or the owner.  attempts is kept.
RetryPublication(p) ==
  /\ pubState[p] \in {"failed", "cancelled"}
  /\ Dispatchable(p)
  /\ pubState' = [pubState EXCEPT ![p] = "pending"]
  /\ lastRow' = [lastRow EXCEPT ![p] = "pending"]
  /\ UNCHANGED <<moderation, current, deletion, revState, caseState, attempts, lock>>

CancelPublication(p) ==
  /\ pubState[p] \in {"pending", "failed", "reviewing"}
  /\ pubState' = [pubState EXCEPT ![p] = "cancelled"]
  /\ lastRow' = [lastRow EXCEPT ![p] = "cancelled"]
  /\ UNCHANGED <<moderation, current, deletion, revState, caseState, attempts, lock>>

\* AdminRetryFailedPublications: every failed publication the filter matches.
RetryFailed(S) ==
  /\ S # {}
  /\ \A p \in S : pubState[p] = "failed" /\ Dispatchable(p)
  /\ pubState' = [p \in Publications |-> IF p \in S THEN "pending" ELSE pubState[p]]
  /\ lastRow' = [p \in Publications |-> IF p \in S THEN "pending" ELSE lastRow[p]]
  /\ UNCHANGED <<moderation, current, deletion, revState, caseState, attempts, lock>>

-----------------------------------------------------------------------------
CatalogNext ==
  \/ \E r \in Resources, v \in Revisions : SaveDraft(r, v)
  \/ \E r \in Resources, v \in Revisions, T \in SUBSET Targets : Submit(r, v, T)
  \/ \E r \in Resources, v \in Revisions : AdminSaveDraft(r, v)
  \/ \E r \in Resources, v \in Revisions, T \in SUBSET Targets : AdminSubmit(r, v, T)
  \/ \E v \in Revisions : AdminDiscard(v)
  \/ \E v \in Revisions : Approve(v)
  \/ \E v \in Revisions : Reject(v)
  \/ \E r \in Resources : Takedown(r)
  \/ \E r \in Resources : Restore(r)
  \/ \E r \in Resources, m \in Moderations : AdminHide(r, m)
  \/ \E r \in Resources : AdminShow(r)
  \/ \E r \in Resources : AdminRemove(r)
  \/ \E r \in Resources, keepRow \in BOOLEAN : Delete(r, keepRow)
  \/ \E p \in Publications : RetryPublication(p)
  \/ \E p \in Publications : CancelPublication(p)
  \/ \E S \in SUBSET Publications : RetryFailed(S)
=============================================================================
