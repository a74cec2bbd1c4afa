--------------------------- MODULE BandBBSDispatch ---------------------------
(***************************************************************************)
(* publishBandBBS for the publications of one resource: one forum resource *)
(* per category is found, created or edited, given the revision's version  *)
(* and an update, one call after the other.  Each call may be refused, or  *)
(* take effect without the answer arriving.  What was reached is recorded  *)
(* in the publication (status_detail) and in the resource's binding, and   *)
(* a later attempt resumes from there.  Module Coordinator has what is     *)
(* around it: the lock, the claim and the decision to retry.               *)
(***************************************************************************)
EXTENDS Naturals, Sequences, FiniteSets, SequencesExt

CONSTANTS
  Categories,    \* BandBBS categories every revision is published to
  None,          \* no category in hand
  Claimed,       \* the categories of the imported binding, if there is one
  Plans,         \* what a revision may ask for, see PlanType
  MaxRevisions,  \* bound of the model on the revisions of the resource
  MaxClaims,     \* bound of the model on the attempts of a publication
  MaxForum       \* bound of the model on the forum resources of the creator

\* name, version, and file (its name and size) of the revision; whether it asks
\* to overwrite the newest version; its update, "" for none.
PlanType ==
  [name : STRING, version : STRING, file : STRING, overwrite : BOOLEAN, notes : STRING]

ASSUME DispatchAssumption ==
  /\ IsFiniteSet(Categories) /\ Claimed \subseteq Categories /\ None \notin Categories
  /\ Plans \subseteq PlanType
  /\ MaxRevisions \in Nat /\ MaxClaims \in Nat /\ MaxForum \in Nat
  /\ Cardinality(Claimed) <= MaxForum

VARIABLES
  plan,       \* the submitted revisions, in order
  current,    \* current_revision_id, 0 before the first approval
  state,      \* publications.state of the current revision: no other is dispatched
  claims,     \* its attempts
  progress,   \* its status_detail.completed_categories
  binding,    \* external_bindings.external_id: forum resource per category
  forum,      \* the creator's forum resources in the order of creation
  pc,         \* how far publishBandBBS is; "idle" when nobody holds the lock
  existing,   \* the binding read at its start
  result,     \* Result.Resources
  todo,       \* the categories not done with
  category    \* the category in hand

rows == <<plan, current, state, claims, progress, binding>>
local == <<existing, result, todo, category>>
vars == <<rows, forum, pc, local>>

PublicationStates == {"none", "pending", "running", "published", "failed", "cancelled"}

\* CategoryResult: resource (0: absent), and whether version and update are set.
CategoryResults == [resource : 0..MaxForum, version : BOOLEAN, update : BOOLEAN]
Nothing == [resource |-> 0, version |-> FALSE, update |-> FALSE]
NoResult == [c \in Categories |-> Nothing]
Unbound == [c \in Categories |-> 0]

\* A forum resource: its live versions and its updates, oldest first, by the
\* revision they were made for; 0 is a version made outside OronBox.
ForumResource(c, name, versions) ==
  [category |-> c, name |-> name, versions |-> versions, updates |-> <<>>]

\* The resources to import exist beforehand.
Imported ==
  LET order == SetToSeq(Claimed) IN
  [i \in 1..Cardinality(Claimed) |-> ForumResource(order[i], "imported", <<0>>)]

ClaimedBinding ==
  [c \in Categories |->
     IF c \in Claimed THEN CHOOSE f \in DOMAIN Imported : Imported[f].category = c ELSE 0]

Init ==
  /\ plan = <<>> /\ current = 0
  /\ state = "none" /\ claims = 0 /\ progress = NoResult
  /\ binding = Unbound
  /\ forum = Imported
  /\ pc = "idle"
  /\ existing = Unbound /\ result = NoResult /\ todo = {}
  /\ category = None

-----------------------------------------------------------------------------
(* Handlers.  Only the approval needs the lock. *)

\* The creator submits: an unfinished publication is cancelled.  The claim made
\* with the import, when the bundle names no bindings of its own, is copied from
\* the revision before and saved over the binding, which forgets the categories
\* published to since.
Submit(p) ==
  /\ Len(plan) < MaxRevisions
  /\ plan' = Append(plan, p)
  /\ state' = IF state \in {"pending", "running"} THEN "cancelled" ELSE state
  /\ \/ Claimed # {} /\ binding' = ClaimedBinding
     \/ (Claimed # {} => plan # <<>>) /\ UNCHANGED binding
  /\ UNCHANGED <<current, claims, progress, forum, pc, local>>

Approve ==
  /\ pc = "idle" /\ current < Len(plan)
  /\ current' = Len(plan)
  /\ state' = "pending" /\ claims' = 0 /\ progress' = NoResult
  /\ UNCHANGED <<plan, binding, forum, pc, local>>

\* A takedown, or a cancellation by hand.
Cancel ==
  /\ state \in {"pending", "running", "failed"}
  /\ state' = "cancelled"
  /\ UNCHANGED <<plan, current, claims, progress, binding, forum, pc, local>>

Retry ==
  /\ state \in {"failed", "cancelled"}
  /\ state' = "pending"
  /\ UNCHANGED <<plan, current, claims, progress, binding, forum, pc, local>>

-----------------------------------------------------------------------------
(* publishBandBBS *)

Plan == plan[current]

\* filterBandBBSConfig: a category with its version and its update is done.
FullyDone(r) == r.version /\ (Plan.notes # "" => r.update)

\* The row is claimed and locked, binding and progress are read.  Something is
\* always to do: the category a failed attempt stopped at was not done.
Begin ==
  /\ pc = "idle"
  /\ state = "pending" /\ claims < MaxClaims
  /\ state' = "running"
  /\ claims' = claims + 1
  /\ existing' = binding
  /\ result' = progress
  /\ todo' = {c \in Categories : ~FullyDone(progress[c])}
  /\ pc' = "choosing"
  /\ UNCHANGED <<plan, current, progress, binding, forum, category>>

\* findResource: the creator's resources of this name in the category.
Found(c) == {f \in DOMAIN forum : forum[f].category = c /\ forum[f].name = Plan.name}

\* Mutant: a resource that neither binding nor progress knows is not looked for.
KnownTarget(c) == {IF existing[c] # 0 THEN existing[c] ELSE result[c].resource}

\* The forum resource to write to, 0 to create one; none when the search finds
\* several and gives up.
Target(c) ==
  IF existing[c] # 0 THEN {existing[c]}
  ELSE IF result[c].resource # 0 THEN {result[c].resource}
  ELSE IF Found(c) = {} THEN {0}
  ELSE IF Cardinality(Found(c)) = 1 THEN Found(c)
  ELSE {}

\* The forum after the resource was created, with its first version, or edited.
Posted(c, f) ==
  IF f = 0 THEN Append(forum, ForumResource(c, Plan.name, <<current>>))
  ELSE [forum EXCEPT ![f].name = Plan.name]

\* The id of the target goes to the result before the first call that writes.
Post(c) ==
  /\ pc = "choosing" /\ c \in todo
  /\ \E f \in Target(c) :
       /\ f = 0 => Len(forum) < MaxForum
       /\ forum' = Posted(c, f)
       /\ result' = [result EXCEPT
            ![c].resource = IF f = 0 THEN Len(forum) + 1 ELSE f,
            ![c].version = @ \/ f = 0]
  /\ category' = c
  /\ pc' = "versioning"
  /\ UNCHANGED <<rows, existing, todo>>

\* Mutant: the next id is taken for the one of a resource to be created.
PresumedId(f) == IF f = 0 THEN Len(forum) + 1 ELSE f

\* What is known when the post fails: a resource that was there before.
IdKnown(f) == f

\* The search, the upload of the file or the post fails, or its answer is lost.
PostFails(c) ==
  /\ pc = "choosing" /\ c \in todo
  /\ \/ UNCHANGED <<forum, result>>
     \/ \E f \in Target(c) :
          /\ f = 0 => Len(forum) < MaxForum
          /\ forum' \in {forum, Posted(c, f)}
          /\ result' = [result EXCEPT ![c].resource = IdKnown(f)]
  /\ pc' = "failing"
  /\ UNCHANGED <<rows, existing, todo, category>>

InHand == result[category]

Versions == forum[InHand.resource].versions

\* A version made outside OronBox has none of our version strings.
SameVersion(n) == n # 0 /\ plan[n].version = Plan.version /\ Plan.version # ""

\* findMatchingVersion: version string and file look the same.
LooksTheSame(n) == SameVersion(n) /\ plan[n].file = Plan.file

\* An earlier attempt knew the resource and not the version.
ReconcileVersion ==
  progress[category].resource # 0 /\ ~progress[category].version

\* replaceVersion adopts a version that looks the same, if it may.
Adopts == ReconcileVersion /\ ~Plan.overwrite /\ \E i \in DOMAIN Versions : LooksTheSame(Versions[i])

\* Mutant: nothing goes but what is overwritten.
StaysUnlessOverwritten(i) == ~Plan.overwrite \/ i # Len(Versions)

\* The versions that stay beside the one at place i, or, with none adopted, the
\* one just made: an overwritten one is the newest, otherwise all with the same
\* version string go.
Stays(i) ==
  IF Plan.overwrite THEN i # Len(Versions) ELSE ~SameVersion(Versions[i])

\* The versions at the places S, in order.
InOrder(S) ==
  CHOOSE o \in [1..Cardinality(S) -> S] : \A i, j \in 1..Cardinality(S) : i < j => o[i] < o[j]
Pick(S) == [i \in 1..Cardinality(S) |-> Versions[InOrder(S)[i]]]

Kept == {i \in DOMAIN Versions : Stays(i)}

AddVersion ==
  /\ pc = "versioning"
  /\ IF InHand.version THEN UNCHANGED forum
     ELSE \/ /\ ~Adopts
             /\ forum' = [forum EXCEPT ![InHand.resource].versions = Append(Pick(Kept), current)]
          \/ /\ Adopts
             /\ \E i \in DOMAIN Versions :
                  /\ LooksTheSame(Versions[i])
                  /\ forum' = [forum EXCEPT ![InHand.resource].versions = Pick(Kept \union {i})]
  /\ result' = [result EXCEPT ![category].version = TRUE]
  /\ pc' = "updating"
  /\ UNCHANGED <<rows, existing, todo, category>>

\* A call of replaceVersion fails: before the version is made, or with some of
\* the previous ones still to remove.
AddVersionFails ==
  /\ pc = "versioning" /\ ~InHand.version
  /\ \/ UNCHANGED forum
     \/ \E S \in SUBSET DOMAIN Versions :
          /\ Kept \subseteq S
          /\ \/ ~Adopts /\ forum' = [forum EXCEPT ![InHand.resource].versions =
                                       Append(Pick(S), current)]
             \/ Adopts /\ (\E i \in S : LooksTheSame(Versions[i]))
                /\ forum' = [forum EXCEPT ![InHand.resource].versions = Pick(S)]
  /\ pc' = "failing"
  /\ UNCHANGED <<rows, local>>

Updates == forum[InHand.resource].updates

\* createUpdate looks for the update of an earlier attempt by its text.
UpdateFound ==
  /\ progress[category].resource # 0 /\ ~progress[category].update
  /\ \E i \in DOMAIN Updates : plan[Updates[i]].notes = Plan.notes

UpdateNeeded == Plan.notes # "" /\ ~InHand.update

WithUpdate == [forum EXCEPT ![InHand.resource].updates = Append(@, current)]

AddUpdate ==
  /\ pc = "updating"
  /\ forum' = IF UpdateNeeded /\ ~UpdateFound THEN WithUpdate ELSE forum
  /\ result' = [result EXCEPT ![category].update = @ \/ UpdateNeeded]
  /\ todo' = todo \ {category}
  /\ category' = None
  /\ pc' = "choosing"
  /\ UNCHANGED <<rows, existing>>

AddUpdateFails ==
  /\ pc = "updating" /\ UpdateNeeded
  /\ forum' \in IF UpdateFound THEN {forum} ELSE {forum, WithUpdate}
  /\ pc' = "failing"
  /\ UNCHANGED <<rows, local>>

\* upsertBandBBSBinding refuses to lose or to move a category.
MayBind(new) == \A c \in Categories : binding[c] # 0 => new[c] = binding[c]

\* The result over a binding read before.
Merged(old) ==
  [c \in Categories |-> IF result[c].resource # 0 THEN result[c].resource ELSE old[c]]

\* Mutant: a publication is finished with a category still to do.
SomeDone == todo # Categories

AllDone == todo = {}

Return ==
  /\ pc' = "idle"
  /\ existing' = Unbound /\ result' = NoResult /\ todo' = {}
  /\ category' = None

\* finish: the row must still run and the binding must not move.
Finish ==
  /\ pc = "choosing" /\ AllDone
  /\ state = "running" /\ MayBind(Merged(existing))
  /\ state' = "published"
  /\ progress' = NoResult
  /\ binding' = Merged(existing)
  /\ Return
  /\ UNCHANGED <<plan, current, claims, forum>>

\* failPublicationAttempt, with the attempts left abstracted.
AttemptFailed ==
  state' \in IF state = "running" THEN {"pending", "failed"} ELSE {state}

\* finish fails: what was reached is not recorded.
FinishFails ==
  /\ pc = "choosing" /\ AllDone
  /\ AttemptFailed
  /\ Return
  /\ UNCHANGED <<plan, current, claims, progress, binding, forum>>

\* An error of publishing: recordBandBBSPartial keeps what was reached, the
\* binding in any case, the progress if the row still runs; it may fail too.
Fail ==
  /\ pc = "failing"
  /\ AttemptFailed
  /\ \/ /\ result # NoResult /\ MayBind(Merged(binding))
        /\ binding' = Merged(binding)
        /\ progress' = IF state = "running" THEN result ELSE progress
     \/ UNCHANGED <<binding, progress>>
  /\ Return
  /\ UNCHANGED <<plan, current, claims, forum>>

\* The process stops: the row keeps running until somebody cancels it.
Stop ==
  /\ pc # "idle"
  /\ Return
  /\ UNCHANGED <<rows, forum>>

Next ==
  \/ \E p \in Plans : Submit(p)
  \/ Approve \/ Retry \/ Begin
  \/ Cancel
  \/ \E c \in Categories : Post(c) \/ PostFails(c)
  \/ AddVersion \/ AddVersionFails \/ AddUpdate \/ AddUpdateFails
  \/ Finish \/ FinishFails \/ Fail \/ Stop

Spec == Init /\ [][Next]_vars
-----------------------------------------------------------------------------
(* Properties *)

\* Every variable has its type.
TypeOK ==
  /\ plan \in Seq(Plans) /\ Len(plan) <= MaxRevisions
  /\ current \in 0..Len(plan)
  /\ state \in PublicationStates
  /\ claims \in 0..MaxClaims
  /\ progress \in [Categories -> CategoryResults]
  /\ binding \in [Categories -> 0..Len(forum)]
  /\ \A f \in DOMAIN forum :
       /\ forum[f].category \in Categories
       /\ Range(forum[f].versions) \subseteq 0..current
       /\ Range(forum[f].updates) \subseteq 1..current
  /\ pc \in {"idle", "choosing", "versioning", "updating", "failing"}
  /\ existing \in [Categories -> 0..Len(forum)]
  /\ result \in [Categories -> CategoryResults]
  /\ todo \subseteq Categories /\ category \in Categories \union {None}

Publishes == state # "published" /\ state' = "published"

\* An earlier revision had a file that looks the same under the same version.
HasTwin(n) ==
  \E m \in 1..(n - 1) :
    plan[m].version # "" /\ plan[m].version = plan[n].version /\ plan[m].file = plan[n].file

\* "published" is said when every category is bound to a forum resource that
\* has the revision's own version and its update, whatever was resumed, adopted
\* or lost before; only a look-alike of an earlier revision may be taken for it.
PublishedCarries ==
  [][Publishes =>
       \A c \in Categories :
         /\ binding'[c] # 0
         /\ forum[binding'[c]].category = c
         /\ Contains(forum[binding'[c]].versions, current) \/ HasTwin(current)
         /\ \/ Plan.notes = ""
            \/ \E i \in DOMAIN forum[binding'[c]].updates :
                 plan[forum[binding'[c]].updates[i]].notes = Plan.notes]_vars

\* When a revision is published, no forum resource of it shows two versions with
\* the revision's version string, although attempts were repeated and answers
\* were lost; the overwriting mode and an empty string promise less.
OneLiveVersion ==
  [][Publishes /\ Plan.version # "" /\ ~Plan.overwrite =>
       \A c \in Categories :
         LET versions == forum[binding'[c]].versions IN
         Cardinality({i \in DOMAIN versions : SameVersion(versions[i])}) = 1]_vars

\* While the resource keeps its name, a category never gets a second forum
\* resource, although answers are lost, workers die and bindings are forgotten.
OneResourcePerCategory ==
  (\A m, n \in DOMAIN plan : plan[m].name = plan[n].name) =>
    \A f, g \in DOMAIN forum : forum[f].category = forum[g].category => f = g
=============================================================================
