------------------------------- MODULE Deletion -------------------------------
(***************************************************************************)
(* What follows the deletion of a resource by its owner: one step for each *)
(* forum resource and one for the AstroBox item the resource was bound to. *)
(* ProcessDeletionStep claims a due step with a lease, talks to the        *)
(* platform and saves the outcome if the lease is still its own.  A worker *)
(* may die, a call may be refused or its answer lost, and the reviewers of *)
(* the AstroBox catalog merge and close requests meanwhile.                *)
(***************************************************************************)
EXTENDS Naturals, Sequences

CONSTANTS
  ForumIds,     \* the BandBBS resources the binding named
  Item,         \* the step of the AstroBox item
  Pulls,        \* the pull requests that would put the item into the catalog, of
                \* those the publications remember
  Workers,      \* running calls of ProcessDeletionStep
  None,         \* no worker, no step
  MaxAttempts,  \* 5 in the code: an error of this attempt or a later one is final
  MaxRemovals   \* bound of the model on the removal requests ever opened

ASSUME DeletionAssumption ==
  /\ Item \notin ForumIds
  /\ None \notin Workers \union ForumIds \union {Item}
  /\ MaxAttempts \in Nat \ {0} /\ MaxRemovals \in Nat

VARIABLES
  row,       \* resource_deletion_steps: state, lease_token, whether the lease
             \* has not expired, attempts, and receipt (a removal request, 0: none)
  forum,     \* the forum resources that still exist
  listed,    \* whether the catalog lists the item
  pull,      \* state of every pull request of Pulls
  removal,   \* the removal requests on GitHub, in order
  worker     \* per worker: how far it is, its step, the attempt, the receipt
             \* it goes by and the outcome it will save

github == <<listed, pull, removal>>
vars == <<row, forum, github, worker>>

Steps == ForumIds \union {Item}
StepStates == {"pending", "running", "failed", "awaiting_external", "completed"}
RequestStates == {"open", "closed", "merged"}
Outcomes == StepStates \union {"closed_unmerged", "error"}

Idle == [pc |-> "idle", step |-> None, attempt |-> 0, receipt |-> 0, outcome |-> "pending"]

\* Delete has hidden the resource and written the steps.
Init ==
  /\ row = [s \in Steps |->
       [state |-> "pending", lease |-> None, live |-> FALSE, attempts |-> 0, receipt |-> 0]]
  /\ forum = ForumIds
  /\ listed \in BOOLEAN
  /\ pull \in [Pulls -> {"open", "closed"}]
  /\ removal = <<>>
  /\ worker = [w \in Workers |-> Idle]

-----------------------------------------------------------------------------
(* BandBBS, GitHub and time *)

\* A reviewer accepts a request, and the catalog lists the item, or declines it.
DecidePull(p) ==
  /\ pull[p] = "open"
  /\ \/ pull' = [pull EXCEPT ![p] = "merged"] /\ listed' = TRUE
     \/ pull' = [pull EXCEPT ![p] = "closed"] /\ UNCHANGED listed
  /\ UNCHANGED <<row, forum, removal, worker>>

\* The removal is accepted, or declined.
DecideRemoval(r) ==
  /\ removal[r] = "open"
  /\ \/ removal' = [removal EXCEPT ![r] = "merged"] /\ listed' = FALSE
     \/ removal' = [removal EXCEPT ![r] = "closed"] /\ UNCHANGED listed
  /\ UNCHANGED <<row, forum, pull, worker>>

\* Ten minutes pass.
LeaseExpires(s) ==
  /\ row[s].live
  /\ row' = [row EXCEPT ![s].live = FALSE]
  /\ UNCHANGED <<forum, github, worker>>

-----------------------------------------------------------------------------
(* ProcessDeletionStep *)

Due(s) ==
  \/ row[s].state \in {"pending", "awaiting_external"}
  \/ row[s].state = "running" /\ ~row[s].live

\* The claim.  Which due step is the next depends on times left out.  Beyond
\* MaxAttempts the number of the attempt makes no difference any more.
Claim(w, s) ==
  /\ worker[w].pc = "idle" /\ Due(s)
  /\ LET attempt == IF row[s].attempts < MaxAttempts THEN row[s].attempts + 1 ELSE MaxAttempts IN
     /\ row' = [row EXCEPT ![s].state = "running", ![s].lease = w, ![s].live = TRUE,
                           ![s].attempts = attempt]
     /\ worker' = [worker EXCEPT ![w] =
          [pc |-> IF s \in ForumIds THEN "forum"
                  ELSE IF row[s].receipt = 0 THEN "pulls" ELSE "status",
           step |-> s, attempt |-> attempt, receipt |-> row[s].receipt,
           outcome |-> "completed"]]
  /\ UNCHANGED <<forum, github>>

\* The worker goes on at pc with an outcome in hand.
Goto(w, pc, outcome) ==
  worker' = [worker EXCEPT ![w].pc = pc, ![w].outcome = outcome]

\* DeleteBandBBSResources; a resource that is gone already counts as deleted.
DeleteForum(w) ==
  /\ worker[w].pc = "forum"
  /\ forum' = forum \ {worker[w].step}
  /\ Goto(w, "save", "completed")
  /\ UNCHANGED <<row, github>>

\* Mutant: a request is only closed when the catalog lists the item.
ClosableIfListed == {p \in Pulls : pull[p] = "open" /\ listed}

\* The requests the publications remember and that are still open.
Closable == {p \in Pulls : pull[p] = "open"}

\* RemoveAstroBoxItem closes them, one call after the other.
ClosePull(w, p) ==
  /\ worker[w].pc = "pulls" /\ p \in Closable
  /\ pull' = [pull EXCEPT ![p] = "closed"]
  /\ UNCHANGED <<row, forum, listed, removal, worker>>

\* Remove reads the catalog: an item that is not listed needs no request.
ReadCatalog(w) ==
  /\ worker[w].pc = "pulls" /\ Closable = {}
  /\ IF listed THEN Goto(w, "lookup", "completed") ELSE Goto(w, "save", "completed")
  /\ UNCHANGED <<row, forum, github>>

OpenRemovals == {r \in DOMAIN removal : removal[r] = "open"}

\* A pending request of the removal branch is taken up.
FindRemoval(w) ==
  /\ worker[w].pc = "lookup"
  /\ IF OpenRemovals = {}
     THEN worker' = [worker EXCEPT ![w].pc = "opening"]
     ELSE \E r \in OpenRemovals :
            worker' = [worker EXCEPT ![w].pc = "status", ![w].receipt = r]
  /\ UNCHANGED <<row, forum, github>>

\* GitHub has at most one open request of a branch.
CanOpen == OpenRemovals = {} /\ Len(removal) < MaxRemovals

OpenRemoval(w) ==
  /\ worker[w].pc = "opening" /\ CanOpen
  /\ removal' = Append(removal, "open")
  /\ worker' = [worker EXCEPT ![w].pc = "status", ![w].receipt = Len(removal) + 1]
  /\ UNCHANGED <<row, forum, listed, pull>>

\* AstroBoxRemovalStatus
AskStatus(w) ==
  /\ worker[w].pc = "status"
  /\ LET state == removal[worker[w].receipt] IN
     Goto(w, "save", CASE state = "merged" -> "completed"
                       [] state = "closed" -> "closed_unmerged"
                       [] OTHER -> "awaiting_external")
  /\ UNCHANGED <<row, forum, github>>

\* A call is refused, or what it asked for is done and the answer is lost.
CallFails(w) ==
  /\ worker[w].pc \in {"forum", "pulls", "lookup", "opening", "status"}
  /\ \/ UNCHANGED <<forum, github>>
     \/ /\ worker[w].pc = "forum"
        /\ forum' = forum \ {worker[w].step}
        /\ UNCHANGED github
     \/ /\ worker[w].pc = "pulls"
        /\ \E p \in Closable : pull' = [pull EXCEPT ![p] = "closed"]
        /\ UNCHANGED <<forum, listed, removal>>
     \/ /\ worker[w].pc = "opening" /\ CanOpen
        /\ removal' = Append(removal, "open")
        /\ UNCHANGED <<forum, listed, pull>>
  /\ Goto(w, "save", "error")
  /\ UNCHANGED row

\* Mutant: an error is tried again whatever the attempt.
DecidedLate(w) ==
  CASE worker[w].outcome = "closed_unmerged" -> "failed"
    [] worker[w].outcome = "error" -> "pending"
    [] OTHER -> worker[w].outcome

\* The state to save: a declined removal and an exhausted error are failures.
Decided(w) ==
  CASE worker[w].outcome = "closed_unmerged" -> "failed"
    [] worker[w].outcome = "error" ->
         IF worker[w].attempt < MaxAttempts THEN "pending" ELSE "failed"
    [] OTHER -> worker[w].outcome

\* A declined removal is forgotten, so that a retry opens another.
ReceiptToSave(w) == IF worker[w].outcome = "closed_unmerged" THEN 0 ELSE worker[w].receipt

\* Mutant: the token is not compared.
AnyLease(w, s) == TRUE

OwnsLease(w, s) == row[s].lease = w

\* The update: a worker whose lease was taken over writes nothing.
Save(w) ==
  LET s == worker[w].step IN
  /\ worker[w].pc = "save"
  /\ row' = IF OwnsLease(w, s)
            THEN [row EXCEPT ![s].state = Decided(w), ![s].receipt = ReceiptToSave(w),
                             ![s].lease = None, ![s].live = FALSE]
            ELSE row
  /\ worker' = [worker EXCEPT ![w] = Idle]
  /\ UNCHANGED <<forum, github>>

\* The worker dies, or its update is refused: the step waits for its lease.
Die(w) ==
  /\ worker[w].pc # "idle"
  /\ worker' = [worker EXCEPT ![w] = Idle]
  /\ UNCHANGED <<row, forum, github>>

-----------------------------------------------------------------------------
\* RetryDeletion by the owner or an administrator: every failed step again.
RetryDeletion ==
  /\ \E s \in Steps : row[s].state = "failed"
  /\ row' = [s \in Steps |->
       IF row[s].state = "failed" /\ ~row[s].live
       THEN [row[s] EXCEPT !.state = "pending", !.attempts = 0]
       ELSE row[s]]
  /\ UNCHANGED <<forum, github, worker>>

Next ==
  \/ \E p \in Pulls : DecidePull(p)
  \/ \E r \in DOMAIN removal : DecideRemoval(r)
  \/ \E s \in Steps : LeaseExpires(s)
  \/ \E w \in Workers :
       \/ \E s \in Steps : Claim(w, s)
       \/ \E p \in Pulls : ClosePull(w, p)
       \/ DeleteForum(w) \/ ReadCatalog(w) \/ FindRemoval(w) \/ OpenRemoval(w)
       \/ AskStatus(w) \/ CallFails(w) \/ Save(w) \/ Die(w)
  \/ RetryDeletion

Spec == Init /\ [][Next]_vars

\* What a running worker does.
Proceeds(w) ==
  \/ \E p \in Pulls : ClosePull(w, p)
  \/ DeleteForum(w) \/ ReadCatalog(w) \/ FindRemoval(w) \/ OpenRemoval(w)
  \/ AskStatus(w) \/ CallFails(w) \/ Save(w)

\* A worker is lost: it dies, or its lease runs out while it is working.
Loses(w) ==
  \/ Die(w)
  \/ \E s \in Steps : worker[w].step = s /\ OwnsLease(w, s) /\ LeaseExpires(s)

\* The loop claims the step due longest, so each in its turn; the calls are
\* bounded by timeouts; time passes; workers are not lost for ever.
Fairness ==
  /\ \A s \in Steps : WF_vars(LeaseExpires(s)) /\ SF_vars(\E w \in Workers : Claim(w, s))
  /\ \A w \in Workers : WF_vars(Proceeds(w))
  /\ <>[][~\E w \in Workers : Loses(w)]_vars

FairSpec == Spec /\ Fairness
-----------------------------------------------------------------------------
(* Properties *)

StepRows ==
  [state : StepStates, lease : Workers \union {None}, live : BOOLEAN,
   attempts : 0..MaxAttempts, receipt : 0..Len(removal)]

BusyWorkers ==
  [pc : {"forum", "pulls", "lookup", "opening", "status", "save"}, step : Steps,
   attempt : 1..MaxAttempts, receipt : 0..Len(removal), outcome : Outcomes]

PlatformsOK ==
  /\ forum \subseteq ForumIds
  /\ listed \in BOOLEAN /\ pull \in [Pulls -> RequestStates]
  /\ removal \in Seq(RequestStates) /\ Len(removal) <= MaxRemovals

\* Every variable has its type.
TypeOK ==
  /\ PlatformsOK
  /\ row \in [Steps -> StepRows]
  /\ worker \in [Workers -> BusyWorkers \union {Idle}]

\* "completed" is true and stays true: the forum resource is gone; the item is
\* not in the catalog and no request that could bring it back is open.
CompletedIsGone ==
  /\ \A s \in ForumIds : row[s].state = "completed" => s \notin forum
  /\ row[Item].state = "completed" =>
       ~listed /\ \A p \in Pulls : pull[p] # "open"

\* What is left of the resource: forum resources, and the item as long as the
\* catalog lists it or a request is open that would bring it back.
Present == forum \union (IF listed \/ \E p \in Pulls : pull[p] = "open" THEN {Item} ELSE {})

Completed == {s \in Steps : row[s].state = "completed"}

Promise == INSTANCE Removal WITH Things <- Steps, present <- Present, reported <- Completed

\* The steps keep the promise of a removal, over reviewers, retries, deaths and
\* workers that outlive their lease: what is gone stays gone, a step that says
\* "completed" is right, and no later report takes it back.
RemovesForGood == Promise!Spec

\* Every step is decided or waits for the reviewers, although workers die,
\* leases run out and calls fail; it is neither stuck nor tried for ever.
StepIsDecided ==
  \A s \in Steps :
    row[s].state \in {"pending", "running"} ~>
      row[s].state \in {"completed", "failed", "awaiting_external"}
=============================================================================
