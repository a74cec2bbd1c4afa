-------------------------- MODULE CoordinatorProofs --------------------------
(***************************************************************************)
(* Proofs about module Coordinator, for every number of resources,         *)
(* revisions, targets and workers.                                         *)
(***************************************************************************)
EXTENDS Coordinator, TLAPS

(* What the pairs that name revisions and publications are made of. *)
LEMMA PairParts ==
  /\ \A v \in Revisions : v[1] \in Resources
  /\ \A p \in Publications : p[1] \in Revisions /\ p[2] \in Targets
  /\ \A p \in Publications : ResourceOf(p) \in Resources /\ ResourceOf(p) = p[1][1]
  /\ \A v \in Revisions, t \in Targets : <<v, t>> \in Publications
  BY DEF Revisions, Publications, ResourceOf

(* A worker inside publishOne has a publication in hand.  TypeOK alone is not
   inductive: what Write stores on the platform is the revision in hand. *)
ItemInHand == \A w \in Workers : pc[w] # "idle" => item[w] \in Publications

(* A catalogue handler keeps the types of the catalogue's rows. *)
LEMMA CatalogTypes ==
  ASSUME TypeOK, CatalogNext, UNCHANGED workerVars
  PROVE  TypeOK'
<1> USE CatalogAssumption DEF Moderations, RevisionStates, CaseStates, PublicationStates
<1>1. CASE \E r \in Resources, v \in Revisions : SaveDraft(r, v)
  BY <1>1 DEF SaveDraft, TypeOK, workerVars
<1>2. CASE \E r \in Resources, v \in Revisions, T \in SUBSET Targets : Submit(r, v, T)
  BY <1>2 DEF Submit, CasesSuperseded, PublicationsReplaced, TypeOK, workerVars
<1>3. CASE \E r \in Resources, v \in Revisions : AdminSaveDraft(r, v)
  BY <1>3 DEF AdminSaveDraft, TypeOK, workerVars
<1>4. CASE \E r \in Resources, v \in Revisions, T \in SUBSET Targets : AdminSubmit(r, v, T)
  BY <1>4 DEF AdminSubmit, CasesSuperseded, PublicationsReplaced, TypeOK, workerVars
<1>5. CASE \E v \in Revisions : AdminDiscard(v)
  BY <1>5 DEF AdminDiscard, TypeOK, workerVars
<1>6. CASE \E v \in Revisions : Approve(v)
  BY <1>6, PairParts DEF Approve, RevisionsApproved, TypeOK, workerVars
<1>7. CASE \E v \in Revisions : Reject(v)
  BY <1>7 DEF Reject, TypeOK, workerVars
<1>8. CASE \E r \in Resources : Takedown(r) \/ Restore(r) \/ AdminShow(r) \/ AdminRemove(r)
  BY <1>8 DEF Takedown, Restore, AdminShow, AdminRemove, TypeOK, workerVars
<1>9. CASE \E r \in Resources, m \in Moderations : AdminHide(r, m)
  BY <1>9 DEF AdminHide, TypeOK, workerVars
<1>10. CASE \E r \in Resources, keepRow \in BOOLEAN : Delete(r, keepRow)
  BY <1>10 DEF Delete, TypeOK, workerVars
<1>11. CASE \E p \in Publications : RetryPublication(p) \/ CancelPublication(p)
  BY <1>11 DEF RetryPublication, CancelPublication, TypeOK, workerVars
<1>12. CASE \E S \in SUBSET Publications : RetryFailed(S)
  BY <1>12 DEF RetryFailed, TypeOK, workerVars
<1> QED
  BY <1>1, <1>2, <1>3, <1>4, <1>5, <1>6, <1>7, <1>8, <1>9, <1>10, <1>11, <1>12 DEF CatalogNext

(* A step of a worker, of its death or of the poller keeps every type. *)
LEMMA WorkerTypes ==
  ASSUME TypeOK, ItemInHand,
         \/ \E w \in Workers, p \in Publications : Claim(w, p)
         \/ \E w \in Workers : WorkerStep(w) \/ Stop(w) \/ DropSession(w)
         \/ \E p \in Publications : PollOutcome(p) \/ Reopen(p)
  PROVE  TypeOK' /\ ItemInHand'
<1> USE CatalogAssumption, PairParts DEF PublicationStates, PC, catalogVars, ItemInHand
<1>1. CASE \E w \in Workers, p \in Publications : Claim(w, p)
  BY <1>1 DEF Claim, Record, TypeOK
<1>2. CASE \E w \in Workers : WorkerStep(w) \/ Stop(w) \/ DropSession(w)
  <2> PICK w \in Workers : WorkerStep(w) \/ Stop(w) \/ DropSession(w)
    BY <1>2
  <2>1. CASE Acquire(w)
    BY <2>1 DEF Acquire, TypeOK
  <2>2. CASE Busy(w)
    BY <2>2 DEF Busy, FailAttempt, Record, Return, TypeOK
  <2>3. CASE CheckEligible(w)
    BY <2>3 DEF CheckEligible, TypeOK
  <2>4. CASE CheckIneligible(w)
    BY <2>4 DEF CheckIneligible, CancelRow, TypeOK
  <2>5. CASE Write(w)
    BY <2>5 DEF Write, Resource, TypeOK
  <2>6. CASE WriteRefused(w) \/ FinishFailed(w)
    BY <2>6 DEF WriteRefused, FinishFailed, TypeOK
  <2>7. CASE \E S \in SUBSET Publications : Finish(w, S)
    BY <2>7 DEF Finish, TypeOK
  <2>8. CASE Fail(w)
    BY <2>8 DEF Fail, FailAttempt, StateAfterError, Record, TypeOK
  <2>9. CASE Unlock(w) \/ Stop(w)
    <3>1. Return(w) /\ UNCHANGED <<catalogVars, upstream, pullRequest, dropped>>
      BY <2>9 DEF Unlock, Stop
    <3>2. lock' \in [Resources -> Workers \union {None}]
      BY <3>1 DEF Return, TypeOK
    <3>3. /\ pc' = [pc EXCEPT ![w] = "idle"] /\ item' = [item EXCEPT ![w] = NoItem]
          /\ attempt' = [attempt EXCEPT ![w] = 0]
      BY <3>1 DEF Return
    <3> QED
      BY <3>1, <3>2, <3>3 DEF TypeOK
  <2>10. CASE DropSession(w)
    BY <2>10 DEF DropSession, Holds, Resource, TypeOK
  <2> QED
    BY <2>1, <2>2, <2>3, <2>4, <2>5, <2>6, <2>7, <2>8, <2>9, <2>10 DEF WorkerStep
<1>3. CASE \E p \in Publications : PollOutcome(p) \/ Reopen(p)
  <2> PICK p \in Publications : PollOutcome(p) \/ Reopen(p)
    BY <1>3
  <2>1. UNCHANGED <<moderation, current, deletion, revState, caseState, attempts, lock, workerVars>>
    BY DEF PollOutcome, Reopen
  <2>2. \/ \E s \in {"cancelled", "reviewing"} : pubState' = [pubState EXCEPT ![p] = s] /\ UNCHANGED lastRow
        \/ \E s \in {"published", "failed"} : Record(p, s)
    BY DEF PollOutcome, Reopen
  <2>3. pubState' \in [Publications -> PublicationStates] /\ lastRow' \in [Publications -> PublicationStates]
    <3>1. CASE \E s \in {"cancelled", "reviewing"} : pubState' = [pubState EXCEPT ![p] = s] /\ UNCHANGED lastRow
      BY <3>1 DEF TypeOK
    <3>2. CASE \E s \in {"published", "failed"} : Record(p, s)
      <4> PICK s \in {"published", "failed"} : Record(p, s)
        BY <3>2
      <4> s \in PublicationStates
        OBVIOUS
      <4> QED
        BY DEF Record, TypeOK
    <3> QED
      BY <2>2, <3>1, <3>2
  <2> QED
    BY <2>1, <2>3 DEF workerVars, TypeOK
<1> QED
  BY <1>1, <1>2, <1>3

(* Every variable keeps its type. *)
THEOREM TypeCorrect == Spec => []TypeOK
<1>1. Init => TypeOK /\ ItemInHand
  BY CatalogAssumption DEF Init, CatalogInit, TypeOK, ItemInHand, Moderations, RevisionStates,
     CaseStates, PublicationStates, PC
<1>2. TypeOK /\ ItemInHand /\ [Next]_vars => TypeOK' /\ ItemInHand'
  <2> SUFFICES ASSUME TypeOK, ItemInHand, [Next]_vars
               PROVE  TypeOK' /\ ItemInHand'
    OBVIOUS
  <2>1. CASE CatalogNext /\ UNCHANGED workerVars
    BY <2>1, CatalogTypes DEF ItemInHand, workerVars
  <2>2. CASE UNCHANGED vars
    BY <2>2 DEF vars, catalogVars, workerVars, TypeOK, ItemInHand
  <2> QED
    BY <2>1, <2>2, WorkerTypes DEF Next, SteadyNext
<1> QED
  BY <1>1, <1>2, PTL DEF Spec

-----------------------------------------------------------------------------
(* The lock is held only inside publishOne, past its acquisition, for the
   resource of the publication in hand. *)
LockInv ==
  \A r \in Resources, w \in Workers :
    lock[r] = w => /\ pc[w] \in {"locked", "writing", "written", "failing", "unlocking"}
                   /\ Resource(w) = r

(* A resource points to a revision of its own. *)
CurrentOwn == \A r \in Resources : current[r] # None => current[r][1] = r

(* What the catalogue's rows satisfy whatever the workers do. *)
CatalogInv == TypeOK /\ CurrentOwn /\ CurrentIsApproved /\ OneOpenCase

(* The inductive invariant. *)
IInv == CatalogInv /\ ItemInHand /\ LockInv /\ WritesOnlyCurrent

(* The row saveBundle inserts is numbered past every row that stays. *)
LEMMA FreshRevision ==
  ASSUME NEW r \in Resources, NEW K, NEW v \in NextRevision(r, K)
  PROVE  v \in Revisions /\ v[1] = r /\ v \notin K
  BY DEF NextRevision, RevisionsOf, Revisions

(* No handler puts another revision in the place of the current one, demotes
   it, or deletes its resource while a worker holds the resource's lock. *)
LEMMA LockProtects ==
  ASSUME CatalogInv, CatalogNext,
         NEW r \in Resources, lock[r] # None,
         NEW v \in Revisions, current[r] = v,
         moderation[r] \notin {"deleted", "removed"}
  PROVE  /\ current'[r] = v
         /\ revState'[v] = "approved"
         /\ moderation'[r] \notin {"deleted", "removed"}
<1> USE CatalogAssumption, PairParts
<1> DEFINE Goal == /\ current'[r] = v
                   /\ revState'[v] = "approved"
                   /\ moderation'[r] \notin {"deleted", "removed"}
<1>0. revState[v] = "approved" /\ v[1] = r
  <2>1. v # None
    BY DEF Revisions
  <2> QED
    BY <2>1 DEF CatalogInv, CurrentOwn, CurrentIsApproved
<1>1. ASSUME NEW s \in Resources, NEW u \in Revisions, SaveDraft(s, u) PROVE Goal
  BY <1>0, <1>1, FreshRevision DEF SaveDraft, Used, Drafts, RevisionsOf, CatalogInv, TypeOK
<1>2. ASSUME NEW s \in Resources, NEW u \in Revisions, NEW T, Submit(s, u, T) PROVE Goal
  BY <1>0, <1>2, FreshRevision DEF Submit, Used, Drafts, RevisionsOf, CatalogInv, TypeOK
<1>3. ASSUME NEW s \in Resources, NEW u \in Revisions, AdminSaveDraft(s, u) PROVE Goal
  BY <1>0, <1>3, FreshRevision DEF AdminSaveDraft, Used, RevisionsOf, CatalogInv, TypeOK
<1>4. ASSUME NEW s \in Resources, NEW u \in Revisions, NEW T, AdminSubmit(s, u, T) PROVE Goal
  BY <1>0, <1>4 DEF AdminSubmit, CatalogInv, TypeOK
<1>5. ASSUME NEW u \in Revisions, AdminDiscard(u) PROVE Goal
  BY <1>0, <1>5 DEF AdminDiscard, CatalogInv, TypeOK
<1>6. ASSUME NEW u \in Revisions, Approve(u) \/ Reject(u) PROVE Goal
  <2>1. u[1] # r
    BY <1>6 DEF Approve, Reject, LockFree
  <2>2. u # v /\ v # current[u[1]]
    <3>1. u[1] \in Resources /\ v # None
      BY DEF Revisions
    <3> QED
      BY <2>1, <1>0, <3>1 DEF CatalogInv, CurrentOwn
  <2> QED
    BY <1>0, <1>6, <2>1, <2>2 DEF Approve, Reject, RevisionsApproved, CatalogInv, TypeOK
<1>7. ASSUME NEW s \in Resources, Takedown(s) \/ Restore(s) \/ AdminShow(s) PROVE Goal
  BY <1>0, <1>7 DEF Takedown, Restore, AdminShow, CatalogInv, TypeOK
<1>8. ASSUME NEW s \in Resources, NEW m \in Moderations, AdminHide(s, m) PROVE Goal
  BY <1>0, <1>8 DEF AdminHide, CatalogInv, TypeOK
<1>9. ASSUME NEW s \in Resources, AdminRemove(s) PROVE Goal
  BY <1>0, <1>9 DEF AdminRemove, RevisionsOf, CatalogInv, TypeOK
<1>10. ASSUME NEW s \in Resources, NEW k \in BOOLEAN, Delete(s, k) PROVE Goal
  <2>1. s # r
    BY <1>10 DEF Delete, LockFree
  <2> QED
    BY <1>0, <1>10, <2>1 DEF Delete, RevisionsOf, CatalogInv, TypeOK
<1>11. ASSUME NEW p \in Publications, RetryPublication(p) \/ CancelPublication(p) PROVE Goal
  BY <1>0, <1>11 DEF RetryPublication, CancelPublication
<1>12. ASSUME NEW S \in SUBSET Publications, RetryFailed(S) PROVE Goal
  BY <1>0, <1>12 DEF RetryFailed
<1> QED
  BY <1>1, <1>2, <1>3, <1>4, <1>5, <1>6, <1>7, <1>8, <1>9, <1>10, <1>11, <1>12 DEF CatalogNext

(* A handler keeps the current revision the one approved revision, and the
   submitted revision the one with an open case. *)
LEMMA CatalogKeeps ==
  ASSUME CatalogInv, CatalogNext
  PROVE  (CurrentOwn /\ CurrentIsApproved /\ OneOpenCase)'
<1> USE CatalogAssumption, PairParts DEF CatalogInv, TypeOK
<1> DEFINE Goal == (CurrentOwn /\ CurrentIsApproved /\ OneOpenCase)'
<1>0. \A v \in Revisions : v # None
  BY DEF Revisions
<1>1. ASSUME NEW s \in Resources, NEW u \in Revisions, SaveDraft(s, u) PROVE Goal
  <2>1. u[1] = s /\ revState[u] \in {"none", "draft", "adminDraft"}
    BY <1>1, FreshRevision DEF SaveDraft, Used, Drafts, RevisionsOf
  <2>2. \A x \in Revisions : revState'[x] # revState[x] =>
            revState'[x] \in {"none", "draft"} /\ revState[x] \in {"none", "draft", "adminDraft"}
    BY <1>1, <2>1 DEF SaveDraft, Drafts
  <2>3. \A x \in Revisions, t \in {"approved", "submitted"} : revState'[x] = t <=> revState[x] = t
    BY <2>2
  <2> QED
    BY <1>1, <2>3 DEF SaveDraft, CurrentOwn, CurrentIsApproved, OneOpenCase
<1>2. ASSUME NEW s \in Resources, NEW u \in Revisions, NEW T,
             Submit(s, u, T) \/ AdminSubmit(s, u, T)
      PROVE  Goal
  <2>1. u[1] = s /\ revState[u] \in {"none", "draft", "adminDraft"}
    BY <1>2, FreshRevision DEF Submit, AdminSubmit, Used, Drafts, RevisionsOf
  <2>2. \A x \in Revisions : revState'[x] = "approved" <=> revState[x] = "approved"
    BY <1>2, <2>1 DEF Submit, AdminSubmit, Drafts
  <2>3. \A x \in Revisions : revState'[x] = "submitted" <=>
            x = u \/ (x[1] # s /\ revState[x] = "submitted")
    BY <1>2, <2>1 DEF Submit, AdminSubmit, Drafts, RevisionsOf
  <2>4. \A x \in Revisions : caseState'[x] = "pending" <=>
            x = u \/ (x[1] # s /\ caseState[x] = "pending")
    BY <1>2, <2>1 DEF Submit, AdminSubmit, CasesSuperseded, RevisionsOf
  <2>5. UNCHANGED current
    BY <1>2 DEF Submit, AdminSubmit
  <2> QED
    BY <2>1, <2>2, <2>3, <2>4, <2>5 DEF CurrentOwn, CurrentIsApproved, OneOpenCase
<1>3. ASSUME NEW s \in Resources, NEW u \in Revisions, AdminSaveDraft(s, u) PROVE Goal
  <2>1. revState[u] = "none"
    BY <1>3, FreshRevision DEF AdminSaveDraft, Used, RevisionsOf
  <2> QED
    BY <1>3, <2>1 DEF AdminSaveDraft, CurrentOwn, CurrentIsApproved, OneOpenCase
<1>4. ASSUME NEW u \in Revisions, AdminDiscard(u) PROVE Goal
  BY <1>4 DEF AdminDiscard, CurrentOwn, CurrentIsApproved, OneOpenCase
<1>5. ASSUME NEW u \in Revisions, Approve(u) PROVE Goal
  <2>1. revState[u] = "submitted" /\ current[u[1]] # u
    BY <1>5 DEF Approve, CurrentIsApproved, OneOpenCase
  <2>2. \A x \in Revisions : revState'[x] = "approved" <=>
            x = u \/ (x[1] # u[1] /\ revState[x] = "approved")
    <3> TAKE x \in Revisions
    <3>1. CASE x[1] = u[1]
      BY <1>5, <3>1 DEF Approve, RevisionsApproved, CurrentIsApproved
    <3>2. CASE x[1] # u[1]
      <4>1. x # current[u[1]]
        BY <3>2, <1>0 DEF CurrentOwn
      <4> QED
        BY <1>5, <3>2, <4>1 DEF Approve, RevisionsApproved
    <3> QED
      BY <3>1, <3>2
  <2>3. \A x \in Revisions : revState'[x] = "submitted" <=> x # u /\ revState[x] = "submitted"
    BY <1>5 DEF Approve, RevisionsApproved
  <2>4. \A x \in Revisions : caseState'[x] = "pending" <=> x # u /\ caseState[x] = "pending"
    BY <1>5 DEF Approve
  <2>5. current' = [current EXCEPT ![u[1]] = u]
    BY <1>5 DEF Approve
  <2>6. CurrentOwn' /\ CurrentIsApproved'
    BY <2>2, <2>5 DEF CurrentOwn, CurrentIsApproved
  <2>7. OneOpenCase'
    BY <2>3, <2>4 DEF OneOpenCase
  <2> QED
    BY <2>6, <2>7
<1>6. ASSUME NEW u \in Revisions, Reject(u) PROVE Goal
  BY <1>6 DEF Reject, CurrentOwn, CurrentIsApproved, OneOpenCase
<1>7. ASSUME UNCHANGED <<current, revState, caseState>> PROVE Goal
  BY <1>7 DEF CurrentOwn, CurrentIsApproved, OneOpenCase
<1>8. ASSUME NEW s \in Resources, NEW k \in BOOLEAN, Delete(s, k) PROVE Goal
  <2>1. CASE UNCHANGED <<current, revState, caseState>>
    BY <2>1, <1>7
  <2>2. CASE ~UNCHANGED <<current, revState, caseState>>
    <3>1. \A v \in RevisionsOf(s) : ~EverSubmitted(v)
      BY <1>8, <2>2 DEF Delete
    <3>2. /\ current' = [current EXCEPT ![s] = None]
          /\ revState' = [v \in Revisions |-> IF v \in RevisionsOf(s) THEN "none" ELSE revState[v]]
          /\ caseState' = [v \in Revisions |-> IF v \in RevisionsOf(s) THEN "none" ELSE caseState[v]]
      BY <1>8, <2>2 DEF Delete
    <3> QED
      BY <3>1, <3>2, <1>0 DEF EverSubmitted, RevisionsOf, CurrentOwn, CurrentIsApproved, OneOpenCase
  <2> QED
    BY <2>1, <2>2
<1>9. ASSUME \/ \E r \in Resources : Takedown(r) \/ Restore(r) \/ AdminShow(r) \/ AdminRemove(r)
             \/ \E r \in Resources, m \in Moderations : AdminHide(r, m)
             \/ \E p \in Publications : RetryPublication(p) \/ CancelPublication(p)
             \/ \E S \in SUBSET Publications : RetryFailed(S)
      PROVE  Goal
  BY <1>7, <1>9 DEF Takedown, Restore, AdminShow, AdminRemove, AdminHide, RetryPublication,
     CancelPublication, RetryFailed
<1> QED
  BY <1>1, <1>2, <1>3, <1>4, <1>5, <1>6, <1>8, <1>9 DEF CatalogNext

(* No step but a handler's touches these rows. *)
LEMMA WorkerLeaves ==
  ASSUME \/ \E w \in Workers, p \in Publications : Claim(w, p)
         \/ \E w \in Workers : WorkerStep(w) \/ Stop(w) \/ DropSession(w)
         \/ \E p \in Publications : PollOutcome(p) \/ Reopen(p)
  PROVE  UNCHANGED <<moderation, current, deletion, revState, caseState>>
  BY DEF Claim, WorkerStep, Acquire, Busy, CheckEligible, CheckIneligible, Write, WriteRefused,
     Finish, FinishFailed, Fail, Unlock, Stop, DropSession, PollOutcome, Reopen, catalogVars

(* publishOne takes, keeps and gives back the lock as LockInv says, and what
   it read under the lock holds until it gives it back. *)
LEMMA WorkerKeeps ==
  ASSUME IInv, (ItemInHand /\ TypeOK)',
         \/ \E w \in Workers, p \in Publications : Claim(w, p)
         \/ \E w \in Workers : WorkerStep(w) \/ Stop(w) \/ DropSession(w)
         \/ \E p \in Publications : PollOutcome(p) \/ Reopen(p)
  PROVE  (LockInv /\ WritesOnlyCurrent)'
<1> USE CatalogAssumption, PairParts, WorkerLeaves
    DEF IInv, CatalogInv, TypeOK, LockInv, WritesOnlyCurrent, ItemInHand, Holds, Resource
<1> DEFINE Goal == (LockInv /\ WritesOnlyCurrent)'
<1>0. UNCHANGED <<moderation, current, revState>>
  OBVIOUS
<1>1. ASSUME NEW w \in Workers, NEW p \in Publications, Claim(w, p) PROVE Goal
  BY <1>0, <1>1 DEF Claim
<1>2. ASSUME NEW w \in Workers, Acquire(w) PROVE Goal
  BY <1>0, <1>2 DEF Acquire
<1>3. ASSUME NEW w \in Workers, Return(w) PROVE Goal
  BY <1>0, <1>3 DEF Return
<1>4. ASSUME NEW w \in Workers, CheckEligible(w) PROVE Goal
  <2>1. /\ revState[item[w][1]] = "approved"
        /\ current[Resource(w)] = item[w][1]
        /\ moderation[Resource(w)] = "visible"
    BY <1>4 DEF CheckEligible, Eligible, Dispatchable
  <2> QED
    BY <1>0, <1>4, <2>1 DEF CheckEligible
<1>5. ASSUME NEW w \in Workers,
             \/ CheckIneligible(w) \/ Fail(w)
             \/ \E S \in SUBSET Publications : Finish(w, S)
      PROVE  Goal
  BY <1>0, <1>5 DEF CheckIneligible, Fail, Finish
<1>6. ASSUME NEW w \in Workers, Write(w) \/ WriteRefused(w) \/ FinishFailed(w) PROVE Goal
  <2>1. UNCHANGED <<lock, item>>
    BY <1>6 DEF Write, WriteRefused, FinishFailed
  <2>2. PICK n \in {"written", "failing"} : pc' = [pc EXCEPT ![w] = n]
    BY <1>6 DEF Write, WriteRefused, FinishFailed
  <2>3. pc[w] \in {"writing", "written"}
    BY <1>6 DEF Write, WriteRefused, FinishFailed
  <2> QED
    BY <1>0, <2>1, <2>2, <2>3
<1>7. ASSUME NEW w \in Workers, DropSession(w) PROVE Goal
  BY <1>0, <1>7 DEF DropSession
<1>8. ASSUME NEW p \in Publications, PollOutcome(p) \/ Reopen(p) PROVE Goal
  BY <1>0, <1>8 DEF PollOutcome, Reopen, workerVars
<1> QED
  BY <1>1, <1>2, <1>3, <1>4, <1>5, <1>6, <1>7, <1>8 DEF WorkerStep, Busy, Unlock, Stop

(* A handler disturbs no worker that holds the lock. *)
LEMMA CatalogSpares ==
  ASSUME IInv, CatalogNext, UNCHANGED workerVars
  PROVE  (LockInv /\ WritesOnlyCurrent)'
<1>1. UNCHANGED <<lock, pc, item>>
  BY DEF CatalogNext, SaveDraft, Submit, AdminSaveDraft, AdminSubmit, AdminDiscard, Approve, Reject,
     Takedown, Restore, AdminHide, AdminShow, AdminRemove, Delete, RetryPublication,
     CancelPublication, RetryFailed, workerVars
<1>2. LockInv'
  BY <1>1 DEF IInv, LockInv, Resource
<1>3. WritesOnlyCurrent'
  <2> SUFFICES ASSUME NEW w \in Workers,
                      pc[w] \in {"writing", "written", "failing"}, Holds(w)
               PROVE  /\ revState'[item[w][1]] = "approved"
                      /\ current'[Resource(w)] = item[w][1]
                      /\ moderation'[Resource(w)] \notin {"deleted", "removed"}
    BY <1>1 DEF WritesOnlyCurrent, Holds, Resource
  <2>1. item[w] \in Publications
    BY DEF IInv, ItemInHand
  <2>2. Resource(w) \in Resources /\ item[w][1] \in Revisions
    BY <2>1, PairParts DEF Resource
  <2>3. lock[Resource(w)] # None
    BY CatalogAssumption DEF Holds
  <2> QED
    BY <2>2, <2>3, LockProtects DEF IInv, WritesOnlyCurrent
<1> QED
  BY <1>2, <1>3

(* The invariant every behaviour satisfies. *)
THEOREM Invariance == Spec => []IInv
<1>1. Init => IInv
  BY CatalogAssumption, PairParts DEF Init, CatalogInit, IInv, CatalogInv, TypeOK, ItemInHand, LockInv,
     CurrentOwn, CurrentIsApproved, OneOpenCase, WritesOnlyCurrent, Moderations, RevisionStates,
     CaseStates, PublicationStates, PC, Revisions
<1>2. IInv /\ [Next]_vars => IInv'
  <2> SUFFICES ASSUME IInv, [Next]_vars
               PROVE  IInv'
    OBVIOUS
  <2>1. CASE CatalogNext /\ UNCHANGED workerVars
    <3>1. TypeOK' /\ ItemInHand'
      BY <2>1, CatalogTypes DEF IInv, CatalogInv, ItemInHand, workerVars
    <3> QED
      BY <2>1, <3>1, CatalogKeeps, CatalogSpares DEF IInv, CatalogInv
  <2>2. CASE UNCHANGED vars
    BY <2>2 DEF vars, catalogVars, workerVars, IInv, CatalogInv, TypeOK, ItemInHand, LockInv, CurrentOwn,
       CurrentIsApproved, OneOpenCase, WritesOnlyCurrent, Holds, Resource
  <2>3. CASE \/ \E w \in Workers, p \in Publications : Claim(w, p)
             \/ \E w \in Workers : WorkerStep(w) \/ Stop(w) \/ DropSession(w)
             \/ \E p \in Publications : PollOutcome(p) \/ Reopen(p)
    <3>1. TypeOK' /\ ItemInHand'
      BY <2>3, WorkerTypes DEF IInv, CatalogInv
    <3>2. CurrentOwn' /\ CurrentIsApproved' /\ OneOpenCase'
      BY <2>3, WorkerLeaves DEF IInv, CatalogInv, CurrentOwn, CurrentIsApproved, OneOpenCase
    <3> QED
      BY <2>3, <3>1, <3>2, WorkerKeeps DEF IInv, CatalogInv
  <2> QED
    BY <2>1, <2>2, <2>3 DEF Next, SteadyNext
<1> QED
  BY <1>1, <1>2, PTL DEF Spec

(* A worker that may still write to a platform writes the approved, current
   revision of a resource that is not deleted, however reviews, submissions,
   moderation, deletions, lost sessions and deaths of workers interleave with
   publishOne. *)
THEOREM WritesOnlyCurrentAlways == Spec => []WritesOnlyCurrent
<1>1. IInv => WritesOnlyCurrent
  BY DEF IInv
<1> QED
  BY <1>1, Invariance, PTL

(* The revision a resource shows is its one approved revision. *)
THEOREM CurrentIsApprovedAlways == Spec => []CurrentIsApproved
<1>1. IInv => CurrentIsApproved
  BY DEF IInv, CatalogInv
<1> QED
  BY <1>1, Invariance, PTL

(* A resource has at most one revision waiting for review, and its case is the
   open one. *)
THEOREM OneOpenCaseAlways == Spec => []OneOpenCase
<1>1. IInv => OneOpenCase
  BY DEF IInv, CatalogInv
<1> QED
  BY <1>1, Invariance, PTL

-----------------------------------------------------------------------------
(* What is on the platform.  UpstreamIsCurrent speaks of rows and platform
   only; the invariant adds the workers in between: a worker past the
   acquisition has the lock unless a session was dropped, what it has written
   is still there, and work is only ever done for revisions once approved. *)
SessionInv ==
  \A w \in Workers :
    pc[w] \in {"locked", "writing", "written", "failing", "unlocking"} =>
      Holds(w) \/ Resource(w) \in dropped

WorkedOnApproved ==
  /\ \A w \in Workers : pc[w] # "idle" => revState[item[w][1]] \in {"approved", "superseded"}
  /\ \A p \in pullRequest : revState[p[1]] \in {"approved", "superseded"}

WrittenIsThere ==
  \A w \in Workers :
    pc[w] = "written" /\ Resource(w) \notin dropped =>
      upstream[<<Resource(w), item[w][2]>>] = item[w][1]

PullRequestIsThere ==
  \A p \in pullRequest :
    current[ResourceOf(p)] = p[1] /\ ResourceOf(p) \notin dropped =>
      upstream[<<ResourceOf(p), p[2]>>] = p[1]

PlatformInv ==
  SessionInv /\ WorkedOnApproved /\ WrittenIsThere /\ PullRequestIsThere /\ UpstreamIsCurrent

(* An approved revision stays approved or is superseded. *)
LEMMA ApprovedStays ==
  ASSUME CatalogInv, CatalogNext, NEW v \in Revisions, revState[v] \in {"approved", "superseded"}
  PROVE  revState'[v] \in {"approved", "superseded"}
<1> USE PairParts DEF CatalogInv, TypeOK
<1>1. ASSUME NEW s \in Resources, NEW u \in Revisions, NEW T,
             SaveDraft(s, u) \/ Submit(s, u, T) \/ AdminSaveDraft(s, u) \/ AdminSubmit(s, u, T)
      PROVE  revState'[v] \in {"approved", "superseded"}
  <2>1. revState[u] \in {"none", "draft", "adminDraft"}
    BY <1>1, FreshRevision DEF SaveDraft, Submit, AdminSaveDraft, AdminSubmit, Used, Drafts, RevisionsOf
  <2> QED
    BY <1>1, <2>1 DEF SaveDraft, Submit, AdminSaveDraft, AdminSubmit, Drafts
<1>2. ASSUME NEW u \in Revisions, AdminDiscard(u) \/ Approve(u) \/ Reject(u)
      PROVE  revState'[v] \in {"approved", "superseded"}
  BY <1>2 DEF AdminDiscard, Approve, Reject, RevisionsApproved, OneOpenCase
<1>3. ASSUME NEW s \in Resources, NEW k \in BOOLEAN, Delete(s, k)
      PROVE  revState'[v] \in {"approved", "superseded"}
  BY <1>3 DEF Delete, EverSubmitted
<1>4. ASSUME UNCHANGED revState
      PROVE  revState'[v] \in {"approved", "superseded"}
  BY <1>4
<1>5. CatalogNext => \/ \E s \in Resources, u \in Revisions, T \in SUBSET Targets :
                          SaveDraft(s, u) \/ Submit(s, u, T) \/ AdminSaveDraft(s, u) \/ AdminSubmit(s, u, T)
                     \/ \E u \in Revisions : AdminDiscard(u) \/ Approve(u) \/ Reject(u)
                     \/ \E s \in Resources, k \in BOOLEAN : Delete(s, k)
                     \/ UNCHANGED revState
  BY DEF CatalogNext, Takedown, Restore, AdminHide, AdminShow, AdminRemove, RetryPublication,
     CancelPublication, RetryFailed
<1> QED
  BY <1>1, <1>2, <1>3, <1>4, <1>5

(* A handler makes no publication published or under review, and the pointer
   it moves goes to a revision without either. *)
LEMMA CatalogPublishesNothing ==
  ASSUME CatalogInv, CatalogNext, NEW p \in Publications, current'[ResourceOf(p)] = p[1]
  PROVE  /\ pubState'[p] \in {"published", "reviewing"} => pubState'[p] = pubState[p]
         /\ \/ current[ResourceOf(p)] = p[1]
            \/ pubState'[p] \notin {"published", "reviewing"} /\ revState[p[1]] = "submitted"
<1> USE CatalogAssumption, PairParts DEF CatalogInv, TypeOK
<1> DEFINE Goal == /\ pubState'[p] \in {"published", "reviewing"} => pubState'[p] = pubState[p]
                   /\ \/ current[ResourceOf(p)] = p[1]
                      \/ pubState'[p] \notin {"published", "reviewing"} /\ revState[p[1]] = "submitted"
<1>1. ASSUME NEW s \in Resources, NEW u \in Revisions, NEW T, Submit(s, u, T) \/ AdminSubmit(s, u, T)
      PROVE  Goal
  BY <1>1 DEF Submit, AdminSubmit, PublicationsReplaced
<1>2. ASSUME NEW u \in Revisions, Approve(u) PROVE Goal
  BY <1>2 DEF Approve, OneOpenCase
<1>3. ASSUME NEW s \in Resources, NEW k \in BOOLEAN, Delete(s, k) PROVE Goal
  <2>1. p[1] # None
    BY DEF Revisions
  <2> QED
    BY <1>3, <2>1 DEF Delete, CancelledByDeletion
<1>4. ASSUME UNCHANGED current,
             \/ UNCHANGED pubState
             \/ \A q \in Publications : pubState'[q] \in {"none", "pending", "cancelled", pubState[q]}
      PROVE  Goal
  BY <1>4
<1>5. ASSUME NEW u \in Revisions, AdminDiscard(u) \/ Reject(u) PROVE Goal
  BY <1>4, <1>5 DEF AdminDiscard, Reject
<1>6. ASSUME NEW s \in Resources, Takedown(s) \/ \E m \in Moderations : AdminHide(s, m) PROVE Goal
  BY <1>4, <1>6 DEF Takedown, AdminHide
<1>7. ASSUME NEW q \in Publications, RetryPublication(q) \/ CancelPublication(q) PROVE Goal
  BY <1>4, <1>7 DEF RetryPublication, CancelPublication
<1>8. ASSUME NEW S \in SUBSET Publications, RetryFailed(S) PROVE Goal
  BY <1>4, <1>8 DEF RetryFailed
<1>9. CatalogNext => \/ \E s \in Resources, u \in Revisions, T \in SUBSET Targets :
                          Submit(s, u, T) \/ AdminSubmit(s, u, T)
                     \/ \E u \in Revisions : Approve(u) \/ AdminDiscard(u) \/ Reject(u)
                     \/ \E s \in Resources, k \in BOOLEAN : Delete(s, k)
                     \/ \E s \in Resources : Takedown(s) \/ \E m \in Moderations : AdminHide(s, m)
                     \/ \E q \in Publications : RetryPublication(q) \/ CancelPublication(q)
                     \/ \E S \in SUBSET Publications : RetryFailed(S)
                     \/ UNCHANGED <<current, pubState>>
  BY DEF CatalogNext, SaveDraft, AdminSaveDraft, Restore, AdminShow, AdminRemove
<1> QED
  BY <1>1, <1>2, <1>3, <1>4, <1>5, <1>6, <1>7, <1>8, <1>9

LEMMA CatalogKeepsPlatform ==
  ASSUME IInv, PlatformInv, CatalogNext, UNCHANGED workerVars
  PROVE  PlatformInv'
<1> USE PairParts
<1>1. UNCHANGED <<lock, pc, item, upstream, pullRequest, dropped>>
  BY DEF CatalogNext, SaveDraft, Submit, AdminSaveDraft, AdminSubmit, AdminDiscard, Approve, Reject,
     Takedown, Restore, AdminHide, AdminShow, AdminRemove, Delete, RetryPublication,
     CancelPublication, RetryFailed, workerVars
<1>2. SessionInv' /\ WrittenIsThere'
  BY <1>1 DEF PlatformInv, SessionInv, WrittenIsThere, Holds, Resource
<1>3. WorkedOnApproved'
  BY <1>1, ApprovedStays DEF PlatformInv, WorkedOnApproved, IInv, CatalogInv, TypeOK, ItemInHand
<1>4. PullRequestIsThere'
  <2> SUFFICES ASSUME NEW p \in pullRequest, current'[ResourceOf(p)] = p[1], ResourceOf(p) \notin dropped
               PROVE  upstream[<<ResourceOf(p), p[2]>>] = p[1]
    BY <1>1 DEF PullRequestIsThere
  <2>1. p \in Publications /\ revState[p[1]] # "submitted"
    BY DEF PlatformInv, WorkedOnApproved, IInv, CatalogInv, TypeOK
  <2> QED
    BY <2>1, CatalogPublishesNothing DEF PlatformInv, PullRequestIsThere, IInv
<1>5. UpstreamIsCurrent'
  BY <1>1, CatalogPublishesNothing DEF PlatformInv, UpstreamIsCurrent, IInv
<1> QED
  BY <1>2, <1>3, <1>4, <1>5 DEF PlatformInv

LEMMA WorkerKeepsPlatform ==
  ASSUME IInv, IInv', PlatformInv,
         \/ \E w \in Workers, p \in Publications : Claim(w, p)
         \/ \E w \in Workers : WorkerStep(w) \/ Stop(w) \/ DropSession(w)
         \/ \E p \in Publications : PollOutcome(p) \/ Reopen(p)
  PROVE  PlatformInv'
<1> USE CatalogAssumption, PairParts
    DEF IInv, CatalogInv, TypeOK, ItemInHand, PlatformInv, Holds, Resource
<1>0. UNCHANGED <<moderation, current, revState>>
  BY WorkerLeaves
<1>1. ASSUME NEW w \in Workers, NEW p \in Publications, Claim(w, p) PROVE PlatformInv'
  <2>1. SessionInv' /\ WrittenIsThere'
    BY <1>1 DEF Claim, SessionInv, WrittenIsThere
  <2>2. WorkedOnApproved' /\ PullRequestIsThere' /\ UpstreamIsCurrent'
    BY <1>0, <1>1 DEF Claim, Record, Dispatchable, WorkedOnApproved, PullRequestIsThere, UpstreamIsCurrent
  <2> QED
    BY <2>1, <2>2
<1>2. ASSUME NEW w \in Workers, Acquire(w) \/ CheckEligible(w) \/ WriteRefused(w) \/ FinishFailed(w)
      PROVE  PlatformInv'
  <2>1. UNCHANGED <<pubState, item, upstream, pullRequest, dropped>>
    BY <1>2 DEF Acquire, CheckEligible, WriteRefused, FinishFailed, catalogVars
  <2>2. SessionInv'
    BY <1>2 DEF Acquire, CheckEligible, WriteRefused, FinishFailed, SessionInv, LockFree
  <2>3. WrittenIsThere'
    BY <1>2, <2>1 DEF Acquire, CheckEligible, WriteRefused, FinishFailed, WrittenIsThere
  <2>4. WorkedOnApproved'
    BY <1>0, <1>2, <2>1 DEF Acquire, CheckEligible, WriteRefused, FinishFailed, WorkedOnApproved
  <2> QED
    BY <1>0, <2>1, <2>2, <2>3, <2>4 DEF PullRequestIsThere, UpstreamIsCurrent
<1>3. ASSUME NEW w \in Workers, Return(w), UNCHANGED <<upstream, pullRequest, dropped>>,
             \A q \in Publications : pubState'[q] \in {"published", "reviewing"} => pubState'[q] = pubState[q]
      PROVE  PlatformInv'
  <2>1. \A x \in Workers : x # w => pc'[x] = pc[x] /\ item'[x] = item[x]
    BY <1>3 DEF Return
  <2>2. pc'[w] = "idle"
    BY <1>3 DEF Return
  <2>3. \A r \in Resources, x \in Workers : x # w /\ lock[r] = x => lock'[r] = x
    BY <1>3 DEF Return
  <2>4. SessionInv'
    <3> SUFFICES ASSUME NEW x \in Workers,
                        pc'[x] \in {"locked", "writing", "written", "failing", "unlocking"}
                 PROVE  lock'[ResourceOf(item'[x])] = x \/ ResourceOf(item'[x]) \in dropped'
      BY DEF SessionInv
    <3>1. x # w /\ pc'[x] = pc[x] /\ item'[x] = item[x]
      BY <2>1, <2>2
    <3>2. item[x] \in Publications
      BY <3>1
    <3>3. lock[ResourceOf(item[x])] = x \/ ResourceOf(item[x]) \in dropped
      BY <3>1 DEF SessionInv
    <3> QED
      BY <1>3, <2>3, <3>1, <3>2, <3>3
  <2>5. WrittenIsThere' /\ WorkedOnApproved'
    BY <1>0, <1>3, <2>1, <2>2 DEF WrittenIsThere, WorkedOnApproved
  <2> QED
    BY <1>0, <1>3, <2>4, <2>5 DEF PullRequestIsThere, UpstreamIsCurrent
<1>4. ASSUME NEW w \in Workers, CheckIneligible(w) \/ Fail(w) PROVE PlatformInv'
  <2>1. UNCHANGED <<lock, item, upstream, pullRequest, dropped>> /\ pc' = [pc EXCEPT ![w] = "unlocking"]
    BY <1>4 DEF CheckIneligible, Fail
  <2>2. \A q \in Publications : pubState'[q] \in {"published", "reviewing"} => pubState'[q] = pubState[q]
    BY <1>4 DEF CheckIneligible, CancelRow, Fail, FailAttempt, StateAfterError, Record
  <2>3. pc[w] \in {"locked", "failing"}
    BY <1>4 DEF CheckIneligible, Fail
  <2>4. SessionInv' /\ WrittenIsThere' /\ WorkedOnApproved'
    BY <1>0, <2>1, <2>3 DEF SessionInv, WrittenIsThere, WorkedOnApproved
  <2> QED
    BY <1>0, <2>1, <2>2, <2>4 DEF PullRequestIsThere, UpstreamIsCurrent
<1>5. ASSUME NEW w \in Workers, Write(w) PROVE PlatformInv'
  <2> DEFINE r == Resource(w)
  <2>1. /\ UNCHANGED <<lock, item, pubState, pullRequest, dropped>>
        /\ upstream' = [upstream EXCEPT ![<<r, item[w][2]>>] = item[w][1]]
        /\ pc[w] = "writing"
    BY <1>5 DEF Write, catalogVars
  <2>2. PICK n \in {"written", "failing"} : pc' = [pc EXCEPT ![w] = n]
    BY <1>5 DEF Write
  <2>3. item[w] \in Publications /\ r \in Resources /\ item[w][2] \in Targets
    BY <2>1
  <2>4. r \in dropped \/ (lock[r] = w /\ current[r] = item[w][1])
    BY <2>1 DEF SessionInv, WritesOnlyCurrent
  <2>5. \A x \in Workers : x # w /\ pc[x] = "written" /\ Resource(x) \notin dropped => Resource(x) # r
    BY <2>4 DEF SessionInv
  <2>6. \A s \in Resources, t \in Targets : s # r => upstream'[<<s, t>>] = upstream[<<s, t>>]
    BY <2>1
  <2>7. upstream'[<<r, item[w][2]>>] = item[w][1]
    BY <2>1, <2>3
  <2>8. \A t \in Targets : upstream'[<<r, t>>] \in {item[w][1], upstream[<<r, t>>]}
    BY <2>1, <2>3
  <2>9. SessionInv' /\ WorkedOnApproved'
    BY <1>0, <2>1, <2>2 DEF SessionInv, WorkedOnApproved
  <2>10. WrittenIsThere'
    BY <2>1, <2>2, <2>5, <2>6, <2>7 DEF WrittenIsThere
  <2>11. PullRequestIsThere' /\ UpstreamIsCurrent'
    BY <1>0, <2>1, <2>4, <2>6, <2>8 DEF PullRequestIsThere, UpstreamIsCurrent
  <2> QED
    BY <2>9, <2>10, <2>11
<1>6. ASSUME NEW w \in Workers, NEW S \in SUBSET Publications, Finish(w, S) PROVE PlatformInv'
  <2>1. /\ UNCHANGED <<lock, item, upstream, dropped>> /\ pc' = [pc EXCEPT ![w] = "unlocking"]
        /\ pc[w] = "written"
        /\ pullRequest' \in {pullRequest, pullRequest \union {item[w]}}
    BY <1>6 DEF Finish
  <2>2. \A q \in Publications :
          pubState'[q] \in {"published", "reviewing"} => pubState'[q] = pubState[q] \/ q = item[w]
    BY <1>6 DEF Finish
  <2>3. SessionInv' /\ WrittenIsThere' /\ WorkedOnApproved'
    BY <1>0, <2>1 DEF SessionInv, WrittenIsThere, WorkedOnApproved
  <2> QED
    BY <1>0, <2>1, <2>2, <2>3 DEF WrittenIsThere, PullRequestIsThere, UpstreamIsCurrent
<1>7. ASSUME NEW w \in Workers, DropSession(w) PROVE PlatformInv'
  <2>1. UNCHANGED <<pubState, pc, item, upstream, pullRequest>> /\ dropped' = dropped \union {Resource(w)}
    BY <1>7 DEF DropSession, catalogVars
  <2>2. SessionInv'
    BY <1>7, <2>1 DEF DropSession, SessionInv
  <2> QED
    BY <1>0, <2>1, <2>2 DEF WrittenIsThere, WorkedOnApproved, PullRequestIsThere, UpstreamIsCurrent
<1>8. ASSUME NEW p \in Publications, PollOutcome(p) \/ Reopen(p) PROVE PlatformInv'
  <2>1. UNCHANGED <<lock, workerVars>>
    BY <1>8 DEF PollOutcome, Reopen
  <2>2. \A q \in Publications :
          pubState'[q] \in {"published", "reviewing"} =>
            \/ pubState[q] \in {"published", "reviewing"}
            \/ q \in pullRequest
    BY <1>8 DEF PollOutcome, Reopen, Record
  <2>3. SessionInv' /\ WrittenIsThere' /\ WorkedOnApproved' /\ PullRequestIsThere'
    BY <1>0, <2>1 DEF workerVars, SessionInv, WrittenIsThere, WorkedOnApproved, PullRequestIsThere
  <2>4. UpstreamIsCurrent'
    BY <1>0, <2>1, <2>2 DEF workerVars, UpstreamIsCurrent, PullRequestIsThere
  <2> QED
    BY <2>3, <2>4
<1>9. ASSUME NEW w \in Workers, Busy(w) \/ Unlock(w) \/ Stop(w) PROVE PlatformInv'
  <2>1. Return(w) /\ UNCHANGED <<upstream, pullRequest, dropped>>
    BY <1>9 DEF Busy, Unlock, Stop
  <2>2. \A q \in Publications : pubState'[q] \in {"published", "reviewing"} => pubState'[q] = pubState[q]
    BY <1>9 DEF Busy, Unlock, Stop, FailAttempt, Record, catalogVars
  <2> QED
    BY <1>3, <2>1, <2>2
<1> QED
  BY <1>1, <1>2, <1>4, <1>5, <1>6, <1>7, <1>8, <1>9 DEF WorkerStep

(* When the current revision's publication is published or under review, the
   platform has that revision, unless a database session was lost under a
   worker: no slow worker overwrites a newer revision with an older one. *)
THEOREM UpstreamIsCurrentAlways == Spec => []UpstreamIsCurrent
<1>1. Init => PlatformInv
  BY DEF Init, CatalogInit, PlatformInv, SessionInv, WorkedOnApproved, WrittenIsThere,
     PullRequestIsThere, UpstreamIsCurrent
<1>2. IInv /\ IInv' /\ PlatformInv /\ [Next]_vars => PlatformInv'
  <2> SUFFICES ASSUME IInv, IInv', PlatformInv, [Next]_vars
               PROVE  PlatformInv'
    OBVIOUS
  <2>1. CASE UNCHANGED vars
    BY <2>1 DEF vars, catalogVars, workerVars, PlatformInv, SessionInv, WorkedOnApproved,
       WrittenIsThere, PullRequestIsThere, UpstreamIsCurrent, Holds, Resource
  <2> QED
    BY <2>1, CatalogKeepsPlatform, WorkerKeepsPlatform DEF Next, SteadyNext
<1>3. PlatformInv => UpstreamIsCurrent
  BY DEF PlatformInv
<1> QED
  BY <1>1, <1>2, <1>3, Invariance, PTL DEF Spec

-----------------------------------------------------------------------------
(* What is told of a publication, and what a deletion leaves of it.  Both are
   kept by every step alone, whoever takes it. *)
LEMMA CatalogTells ==
  ASSUME TypeOK, OutcomeIsTold, CatalogNext
  PROVE  OutcomeIsTold'
<1> SUFFICES ASSUME NEW p \in Publications, pubState'[p] \in {"running", "published", "failed"}
             PROVE  lastRow'[p] = pubState'[p]
  BY DEF OutcomeIsTold
<1> USE DEF TypeOK, OutcomeIsTold
<1>1. CASE UNCHANGED lastRow /\ pubState'[p] = pubState[p]
  BY <1>1
<1>2. CASE \E r \in Resources, v \in Revisions, T \in SUBSET Targets :
             Submit(r, v, T) \/ AdminSubmit(r, v, T)
  BY <1>1, <1>2 DEF Submit, AdminSubmit, PublicationsReplaced
<1>3. CASE \E v \in Revisions : AdminDiscard(v) \/ Approve(v) \/ Reject(v)
  BY <1>1, <1>3 DEF AdminDiscard, Approve, Reject
<1>4. CASE \E r \in Resources : Takedown(r) \/ (\E m \in Moderations : AdminHide(r, m))
                                \/ (\E keepRow \in BOOLEAN : Delete(r, keepRow))
  BY <1>1, <1>4 DEF Takedown, AdminHide, Delete
<1>5. CASE \E q \in Publications : RetryPublication(q) \/ CancelPublication(q)
  BY <1>5 DEF RetryPublication, CancelPublication
<1>6. CASE \E S \in SUBSET Publications : RetryFailed(S)
  BY <1>6 DEF RetryFailed
<1>7. CASE \E r \in Resources : Restore(r) \/ AdminShow(r) \/ AdminRemove(r)
                                \/ \E v \in Revisions : SaveDraft(r, v) \/ AdminSaveDraft(r, v)
  BY <1>1, <1>7 DEF Restore, AdminShow, AdminRemove, SaveDraft, AdminSaveDraft
<1> QED
  BY <1>2, <1>3, <1>4, <1>5, <1>6, <1>7 DEF CatalogNext

LEMMA CatalogQuiets ==
  ASSUME TypeOK, DeletedIsQuiet, CatalogNext
  PROVE  DeletedIsQuiet'
<1> SUFFICES ASSUME NEW p \in Publications, moderation'[ResourceOf(p)] = "deleted"
             PROVE  pubState'[p] \notin {"running", "reviewing", "failed"}
  BY DEF DeletedIsQuiet
<1>0. ResourceOf(p) \in Resources
  BY PairParts
<1> USE DEF TypeOK, DeletedIsQuiet
<1>1. CASE moderation[ResourceOf(p)] = "deleted"
           /\ pubState'[p] \in {"none", "pending", "cancelled", pubState[p]}
  BY <1>1
<1>2. CASE \E r \in Resources, v \in Revisions, T \in SUBSET Targets :
             Submit(r, v, T) \/ AdminSubmit(r, v, T)
  BY <1>1, <1>2 DEF Submit, AdminSubmit, PublicationsReplaced
<1>3. CASE \E v \in Revisions : AdminDiscard(v) \/ Reject(v)
  BY <1>1, <1>3 DEF AdminDiscard, Reject
<1>4. CASE \E v \in Revisions : Approve(v)
  BY <1>0, <1>1, <1>4 DEF Approve
<1>5. CASE \E r \in Resources : Takedown(r) \/ (\E m \in Moderations : AdminHide(r, m))
  BY <1>0, <1>1, <1>5 DEF Takedown, AdminHide
<1>6. CASE \E r \in Resources, keepRow \in BOOLEAN : Delete(r, keepRow)
  BY <1>0, <1>1, <1>6 DEF Delete, CancelledByDeletion, PublicationsOf, PublicationStates
<1>7. CASE \E q \in Publications : RetryPublication(q) \/ CancelPublication(q)
  BY <1>1, <1>7 DEF RetryPublication, CancelPublication
<1>8. CASE \E S \in SUBSET Publications : RetryFailed(S)
  BY <1>1, <1>8 DEF RetryFailed
<1>9. CASE \E r \in Resources : Restore(r) \/ AdminShow(r) \/ AdminRemove(r)
                                \/ \E v \in Revisions : SaveDraft(r, v) \/ AdminSaveDraft(r, v)
  BY <1>0, <1>1, <1>9 DEF Restore, AdminShow, AdminRemove, SaveDraft, AdminSaveDraft
<1> QED
  BY <1>2, <1>3, <1>4, <1>5, <1>6, <1>7, <1>8, <1>9 DEF CatalogNext

(* A worker or the poller tells what it brings about, and brings nothing about
   for a deleted resource: what it starts from is not there any more. *)
LEMMA WorkerTellsAndQuiets ==
  ASSUME TypeOK, ItemInHand, OutcomeIsTold, DeletedIsQuiet,
         \/ \E w \in Workers, p \in Publications : Claim(w, p)
         \/ \E w \in Workers : WorkerStep(w) \/ Stop(w) \/ DropSession(w)
         \/ \E p \in Publications : PollOutcome(p) \/ Reopen(p)
  PROVE  OutcomeIsTold' /\ DeletedIsQuiet'
<1> USE DEF TypeOK, ItemInHand
<1>1. moderation' = moderation
  BY DEF Claim, WorkerStep, Acquire, Busy, CheckEligible, CheckIneligible, Write, WriteRefused,
         Finish, FinishFailed, Fail, Unlock, Stop, DropSession, PollOutcome, Reopen, catalogVars
<1>2. ASSUME NEW p \in Publications, NEW s \in PublicationStates, Record(p, s),
             pubState[p] \in {"running", "reviewing"} \/ moderation[ResourceOf(p)] = "visible"
      PROVE  OutcomeIsTold' /\ DeletedIsQuiet'
  BY <1>1, <1>2 DEF Record, OutcomeIsTold, DeletedIsQuiet
<1>3. ASSUME NEW p \in Publications, NEW s \in {"cancelled", "reviewing"}, UNCHANGED lastRow,
             pubState' = [pubState EXCEPT ![p] = s],
             s = "cancelled" \/ moderation[ResourceOf(p)] = "visible"
      PROVE  OutcomeIsTold' /\ DeletedIsQuiet'
  BY <1>1, <1>3 DEF OutcomeIsTold, DeletedIsQuiet
<1>4. CASE UNCHANGED <<pubState, lastRow>>
  BY <1>1, <1>4 DEF OutcomeIsTold, DeletedIsQuiet
<1>5. CASE \E w \in Workers, p \in Publications : Claim(w, p)
  BY <1>2, <1>5 DEF Claim, Dispatchable, PublicationStates
<1>6. CASE \E w \in Workers : Busy(w) \/ Fail(w)
  <2> PICK w \in Workers : Busy(w) \/ Fail(w)
    BY <1>6
  <2>1. item[w] \in Publications
    BY DEF Busy, Fail
  <2>2. \E s \in PublicationStates : FailAttempt(w, s)
    BY DEF Busy, Fail, StateAfterError, PublicationStates
  <2> QED
    BY <1>2, <1>4, <2>1, <2>2 DEF FailAttempt
<1>7. CASE \E w \in Workers : CheckIneligible(w)
  <2> PICK w \in Workers : CheckIneligible(w)
    BY <1>7
  <2>1. item[w] \in Publications /\ UNCHANGED lastRow
    BY DEF CheckIneligible
  <2>2. pubState' = [pubState EXCEPT ![item[w]] = IF pubState[item[w]] = "running" THEN "cancelled"
                                                  ELSE pubState[item[w]]]
    BY DEF CheckIneligible, CancelRow
  <2> QED
    BY <1>3, <1>4, <2>1, <2>2
<1>8. CASE \E w \in Workers : \E S \in SUBSET Publications : Finish(w, S)
  <2> PICK w \in Workers, S \in SUBSET Publications : Finish(w, S)
    BY <1>8
  <2>1. item[w] \in Publications /\ pubState[item[w]] = "running"
    BY DEF Finish
  <2> QED
    BY <1>1, <2>1 DEF Finish, OutcomeIsTold, DeletedIsQuiet
<1>9. CASE \E p \in Publications : PollOutcome(p) \/ Reopen(p)
  <2> PICK p \in Publications : PollOutcome(p) \/ Reopen(p)
    BY <1>9
  <2>1. CASE \E s \in {"published", "failed"} : Record(p, s) /\ pubState[p] = "reviewing"
    BY <1>2, <2>1 DEF PublicationStates
  <2> QED
    BY <1>3, <2>1 DEF PollOutcome, Reopen
<1> QED
  BY <1>4, <1>5, <1>6, <1>7, <1>8, <1>9
     DEF WorkerStep, Acquire, CheckEligible, Write, WriteRefused, FinishFailed, Unlock, Stop,
         DropSession, catalogVars

TellingInv == TypeOK /\ ItemInHand /\ OutcomeIsTold /\ DeletedIsQuiet

LEMMA TellingInvariance == Spec => []TellingInv
<1>1. Init => TellingInv
  BY CatalogAssumption, PairParts
     DEF Init, CatalogInit, TellingInv, TypeOK, ItemInHand, Moderations, RevisionStates,
         CaseStates, PublicationStates, PC, OutcomeIsTold, DeletedIsQuiet
<1>2. TellingInv /\ [Next]_vars => TellingInv'
  <2> SUFFICES ASSUME TellingInv, [Next]_vars
               PROVE  TellingInv'
    OBVIOUS
  <2>1. CASE CatalogNext /\ UNCHANGED workerVars
    BY <2>1, CatalogTypes, CatalogTells, CatalogQuiets DEF TellingInv, ItemInHand, workerVars
  <2>2. CASE UNCHANGED vars
    BY <2>2 DEF vars, catalogVars, workerVars, TellingInv, TypeOK, ItemInHand, OutcomeIsTold, DeletedIsQuiet
  <2> QED
    BY <2>1, <2>2, WorkerTypes, WorkerTellsAndQuiets DEF TellingInv, Next, SteadyNext
<1> QED
  BY <1>1, <1>2, PTL DEF Spec

(* The newest row of a publication's history tells the state a worker or the
   poller brought about, over any interleaving of some fifteen places that write
   states. *)
THEOREM OutcomeIsToldAlways == Spec => []OutcomeIsTold
<1>1. TellingInv => OutcomeIsTold
  BY DEF TellingInv
<1> QED
  BY <1>1, TellingInvariance, PTL

(* Of a deleted resource nothing runs, waits for a review or can be retried as
   failed, whatever workers had in hand when it was deleted. *)
THEOREM DeletedIsQuietAlways == Spec => []DeletedIsQuiet
<1>1. TellingInv => DeletedIsQuiet
  BY DEF TellingInv
<1> QED
  BY <1>1, TellingInvariance, PTL
=============================================================================
