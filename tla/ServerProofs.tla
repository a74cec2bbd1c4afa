---------------------------- MODULE ServerProofs ----------------------------
(***************************************************************************)
(* Proofs about what the service keeps for its operators: the objects of the *)
(* bucket, the installed console and the policies, for any number of         *)
(* uploaders, installers, changers and values.                              *)
(***************************************************************************)
EXTENDS Storage, ConsoleUpdate, Policies, TLAPS

-----------------------------------------------------------------------------
(* Storage *)

\* The rows: also those a coordinator works on are there, and only content that
\* nothing holds is collected.
RowsKept ==
  /\ use # "none" => row # "absent"
  /\ row = "absent" => replica = NoReplica
  /\ job # "idle" => row # "absent"
  /\ Collecting => use = "none"

\* The replica: whoever works on it at the bucket has marked it, and ready says
\* that the key is written.
ReplicaMarked ==
  /\ replica.state = "ready" \/ job = "pruning" => replica.key
  /\ job \in {"uploading", "uploaded", "pruning", "pruned"} => replica.state = "uploading"

\* The object, as long as no step was cut off.
ObjectKnown ==
  ~torn =>
    /\ job \in {"idle", "collecting"} => (object <=> replica.state = "ready")
    /\ job \in {"uploading", "pruned", "unreplicated", "removed"} => ~object
    /\ job \in {"uploaded", "pruning"} => object

BucketInv == StorageTypeOK /\ RowsKept /\ ReplicaMarked /\ ObjectKnown

\* The invariant says what the property says.
LEMMA BucketInvSuffices == BucketInv => BucketFollowsRows
BY DEF BucketInv, StorageTypeOK, RowsKept, ReplicaMarked, ObjectKnown, BucketFollowsRows,
       SentToBucket, PublicBlob, Prunable, NotPublic, Collecting, NoReplica

\* Nothing is stored at the start.
LEMMA BucketInvInit == StorageInit => BucketInv
<1> SUFFICES ASSUME StorageInit PROVE BucketInv
  OBVIOUS
<1> USE DEF StorageInit, NoReplica, Collecting
<1>1. StorageTypeOK
  <2>1. uploads \in 0..MaxUploads /\ faults \in 0..MaxFaults
    BY StorageAssumption, SMT
  <2>2. replica \in [state : {"none", "pending", "uploading", "ready", "failed"}, key : BOOLEAN]
    OBVIOUS
  <2>3. file \in BOOLEAN /\ object \in BOOLEAN /\ torn \in BOOLEAN
    OBVIOUS
  <2> QED BY <2>1, <2>2, <2>3 DEF StorageTypeOK
<1>2. RowsKept
  BY DEF RowsKept
<1>3. ReplicaMarked
  BY DEF ReplicaMarked
<1>4. ObjectKnown
  BY DEF ObjectKnown
<1> QED BY <1>1, <1>2, <1>3, <1>4 DEF BucketInv

\* The steps of the handlers, and of those who review and moderate.
HandlerStep ==
  \/ PutFile \/ EnsureBlob \/ Refer \/ GiveUp
  \/ \E to \in {"none", "private", "public"} : ChangeUse(to)
  \/ RowAges \/ Requeue

\* A handler touches no object: what it may disturb are the row and its use.
LEMMA HandlerKeepsBucketInv == BucketInv /\ HandlerStep => BucketInv'
<1> SUFFICES ASSUME BucketInv, HandlerStep PROVE BucketInv'
  OBVIOUS
<1> USE StorageAssumption DEF BucketInv, RowsKept, ReplicaMarked, ObjectKnown, StorageTypeOK, Collecting
<1>1. CASE PutFile
  BY <1>1 DEF PutFile
<1>2. CASE EnsureBlob
  BY <1>2 DEF EnsureBlob
<1>3. CASE Refer
  BY <1>3 DEF Refer
<1>4. CASE GiveUp
  BY <1>4 DEF GiveUp
<1>5. ASSUME NEW to \in {"none", "private", "public"}, ChangeUse(to) PROVE BucketInv'
  BY <1>5 DEF ChangeUse
<1>6. CASE RowAges
  BY <1>6 DEF RowAges, NoReplica
<1>7. CASE Requeue
  BY <1>7 DEF Requeue, NoReplica
<1> QED BY <1>1, <1>2, <1>3, <1>4, <1>5, <1>6, <1>7 DEF HandlerStep

\* The steps of the coordinator at the bucket.
ReplicationStep ==
  \/ ClaimReplica \/ PutObject \/ PutObjectFails \/ FinishReplica
  \/ ClaimPrune \/ DeleteObject \/ DeleteObjectFails \/ FinishPrune

\* A fault stays within its bound.
LEMMA FaultBounded == StorageTypeOK /\ Fault => faults' \in 0..MaxFaults
BY StorageAssumption, SMT DEF StorageTypeOK, Fault

\* A replica that is marked anew is a replica.
LEMMA MarkedIsReplica ==
  ASSUME StorageTypeOK,
         NEW state \in {"none", "pending", "uploading", "ready", "failed"},
         replica' = [replica EXCEPT !.state = state]
  PROVE  /\ replica' \in [state : {"none", "pending", "uploading", "ready", "failed"}, key : BOOLEAN]
         /\ replica'.state = state /\ replica'.key = replica.key
BY DEF StorageTypeOK

\* Unless something is torn, an answer that was lost changed nothing.
LEMMA LostAnswerTears ==
  ASSUME torn' = (torn \/ object' # object), ~torn'
  PROVE  ~torn /\ object' = object
OBVIOUS

\* Each step at the bucket leaves the object where the next one expects it.
LEMMA ReplicationKeepsBucketInv == BucketInv /\ ReplicationStep => BucketInv'
<1> SUFFICES ASSUME BucketInv, ReplicationStep PROVE BucketInv'
  OBVIOUS
<1> USE StorageAssumption
    DEF BucketInv, RowsKept, ReplicaMarked, ObjectKnown, StorageTypeOK,
        Collecting, NoReplica, Fault
<1>1. CASE ClaimReplica
  BY <1>1 DEF ClaimReplica, Claimable
<1>2. CASE PutObject
  BY <1>2 DEF PutObject
<1>3. CASE PutObjectFails
  <2>1. job = "uploading" /\ job' = "idle" /\ UNCHANGED <<file, row, use, upload, uploads>>
    BY <1>3 DEF PutObjectFails
  <2>2. replica'.state = "failed" /\ replica'.key = replica.key /\ replica' \in
          [state : {"none", "pending", "uploading", "ready", "failed"}, key : BOOLEAN]
    BY <1>3, MarkedIsReplica DEF PutObjectFails
  <2>3. faults' \in 0..MaxFaults
    BY <1>3, FaultBounded DEF PutObjectFails
  <2>4. object' \in BOOLEAN /\ torn' \in BOOLEAN
    BY <1>3 DEF PutObjectFails
  <2>5. ~torn' => ~torn /\ object' = object
    BY <1>3, LostAnswerTears DEF PutObjectFails
  <2> QED BY <2>1, <2>2, <2>3, <2>4, <2>5
<1>4. CASE FinishReplica
  BY <1>4 DEF FinishReplica
<1>5. CASE ClaimPrune
  BY <1>5 DEF ClaimPrune, Prunable, NotPublic, Withdrawn
<1>6. CASE DeleteObject
  BY <1>6 DEF DeleteObject
<1>7. CASE DeleteObjectFails
  <2>1. job = "pruning" /\ job' = "idle" /\ UNCHANGED <<file, row, use, upload, uploads>>
    BY <1>7 DEF DeleteObjectFails
  <2>2. replica'.state = "ready" /\ replica'.key = replica.key /\ replica' \in
          [state : {"none", "pending", "uploading", "ready", "failed"}, key : BOOLEAN]
    BY <1>7, MarkedIsReplica DEF DeleteObjectFails
  <2>3. faults' \in 0..MaxFaults
    BY <1>7, FaultBounded DEF DeleteObjectFails
  <2>4. object' \in BOOLEAN /\ torn' \in BOOLEAN
    BY <1>7 DEF DeleteObjectFails
  <2>5. ~torn' => ~torn /\ object' = object
    BY <1>7, LostAnswerTears DEF DeleteObjectFails
  <2> QED BY <2>1, <2>2, <2>3, <2>4, <2>5
<1>8. CASE FinishPrune
  <2>1. CASE replica' = NoReplica /\ UNCHANGED faults
    BY <1>8, <2>1 DEF FinishPrune
  <2>2. CASE Fault /\ replica' = [replica EXCEPT !.state = "failed"]
    <3>1. faults' \in 0..MaxFaults
      BY <2>2, FaultBounded
    <3>2. replica'.state = "failed" /\ replica'.key = replica.key /\ replica' \in
            [state : {"none", "pending", "uploading", "ready", "failed"}, key : BOOLEAN]
      BY <2>2, MarkedIsReplica
    <3> QED BY <1>8, <3>1, <3>2 DEF FinishPrune
  <2> QED BY <1>8, <2>1, <2>2 DEF FinishPrune
<1> QED BY <1>1, <1>2, <1>3, <1>4, <1>5, <1>6, <1>7, <1>8 DEF ReplicationStep

\* The collection, and what a stop of the server leaves.
CollectionStep == BeginCollect \/ CollectObject \/ CollectFile \/ CommitCollect \/ StopServer

\* The row goes last, and only of content that nothing holds.
LEMMA CollectionKeepsBucketInv == BucketInv /\ CollectionStep => BucketInv'
<1> SUFFICES ASSUME BucketInv, CollectionStep PROVE BucketInv'
  OBVIOUS
<1> USE StorageAssumption
    DEF BucketInv, RowsKept, ReplicaMarked, ObjectKnown, StorageTypeOK,
        Collecting, NoReplica, Fault
<1>1. CASE BeginCollect
  BY <1>1 DEF BeginCollect, Unreferenced
<1>2. CASE CollectObject
  BY <1>2 DEF CollectObject
<1>3. CASE CollectFile
  BY <1>3 DEF CollectFile
<1>4. CASE CommitCollect
  BY <1>4 DEF CommitCollect
<1>5. CASE StopServer
  BY <1>5 DEF StopServer
<1> QED BY <1>1, <1>2, <1>3, <1>4, <1>5 DEF CollectionStep

\* Every step of the storage keeps the invariant.
LEMMA BucketInvStep == BucketInv /\ [StorageNext]_storageVars => BucketInv'
<1> SUFFICES ASSUME BucketInv, [StorageNext]_storageVars PROVE BucketInv'
  OBVIOUS
<1>1. CASE HandlerStep \/ ReplicationStep \/ CollectionStep
  BY <1>1, HandlerKeepsBucketInv, ReplicationKeepsBucketInv, CollectionKeepsBucketInv
<1>2. CASE UNCHANGED storageVars
  BY <1>2
     DEF BucketInv, RowsKept, ReplicaMarked, ObjectKnown, StorageTypeOK, Collecting, storageVars
<1> QED BY <1>1, <1>2 DEF StorageNext, HandlerStep, ReplicationStep, CollectionStep

\* Every state of the storage of a content satisfies the invariant.
LEMMA StorageSatisfiesBucketInv == StorageSpec => []BucketInv
BY BucketInvInit, BucketInvStep, PTL DEF StorageSpec

\* Type correctness of the storage of a content.
THEOREM StorageTypeCorrect == StorageSpec => []StorageTypeOK
<1>1. BucketInv => StorageTypeOK
  BY DEF BucketInv
<1> QED BY <1>1, StorageSatisfiesBucketInv, PTL

\* handleBlob sends to the bucket only who finds the object there, and no object
\* of content that is not public escapes the pruning, as long as no step at the
\* bucket was cut off.
THEOREM BucketIsFollowed == StorageSpec => []BucketFollowsRows
BY BucketInvSuffices, StorageSatisfiesBucketInv, PTL

-----------------------------------------------------------------------------
(* ConsoleUpdate: the mutex makes the steps of its holder a sequence; what has
   to be known at each of them is which directory is its own, that current.json
   does not name it yet, and which one will be the previous one.  What a page is
   to current.json has to be known of both its forms, for a crash turns one into
   the other. *)

\* Only who holds the mutex is at work.
OneAtWork == \A i \in Installers : at[i] # "idle" => mutex = i

\* The directories that a pointer names.
Named(p) == {p.dir, p.previous} \ {0}

\* What current.json names, and would name after a crash, is whole and synced, and
\* it names no previous directory without a current one.
PointersWhole ==
  /\ pointer.dir = 0 => pointer.previous = 0
  /\ stable.dir = 0 => stable.previous = 0
  /\ \A d \in Named(pointer) : dirs[d] = "durable"
  /\ \A d \in Named(stable) : dirs[d] = "durable"

\* The directory of an installation, at each of its steps; until the pointer is
\* written it is nobody else's.
OwnDirectory(i) ==
  /\ at[i] \in {"idle", "checking", "checked", "downloading"} => work[i].dir = 0
  /\ at[i] \in {"validated", "in place", "synced"} =>
       work[i].dir \in Dirs \ (Named(pointer) \union Named(stable))
  /\ at[i] = "synced" => dirs[work[i].dir] = "durable"
  /\ at[i] \in {"in place", "synced"} => work[i].previous = pointer.dir

\* A page that a form of current.json has after n installations: its directory is
\* the current one of that form or the one before.
IsOf(p, n) ==
  /\ n = 0 => loaded.dir = p.dir
  /\ n = 1 => loaded.dir = p.previous

\* The page of a browser is as old as it is counted, in current.json and, if its
\* installation was synced, in what a crash leaves of it.
PageKnown ==
  /\ unsynced = 0 => stable = pointer
  /\ loaded.dir # 0 /\ ~loaded.undone =>
       /\ IsOf(pointer, loaded.age)
       /\ loaded.age >= unsynced => IsOf(stable, loaded.age - unsynced)

ConsoleInv ==
  UpdateTypeOK /\ OneAtWork /\ PointersWhole /\ (\A i \in Installers : OwnDirectory(i)) /\ PageKnown

\* The invariant says what the property says.
LEMMA ConsoleInvSuffices == ConsoleInv => ConsoleStaysWhole
<1> SUFFICES ASSUME ConsoleInv PROVE ConsoleStaysWhole
  OBVIOUS
<1> USE DEF ConsoleInv
<1>1. \A p \in {pointer, stable} : \A d \in {p.dir, p.previous} \ {0} : dirs[d] = "durable"
  BY DEF PointersWhole, Named
<1>2. ASSUME loaded.dir # 0, ~loaded.undone, loaded.age <= 1 PROVE AssetServed(loaded.dir)
  <2>1. loaded.age = 0 \/ loaded.age = 1
    <3>1. loaded.age \in Nat
      BY DEF UpdateTypeOK
    <3> QED BY <1>2, <3>1
  <2>2. loaded.dir \in {pointer.dir, pointer.previous}
    BY <1>2, <2>1 DEF PageKnown, IsOf
  <2>3. pointer.dir # 0 /\ dirs[pointer.dir] = "durable"
    BY <1>2, <2>2 DEF PointersWhole, Named
  <2> QED BY <1>2, <2>2, <2>3 DEF AssetServed, Installed
<1> QED BY <1>1, <1>2 DEF ConsoleStaysWhole

\* Nothing is installed at the start.
LEMMA ConsoleInvInit == UpdateInit => ConsoleInv
<1> SUFFICES ASSUME UpdateInit PROVE ConsoleInv
  OBVIOUS
<1> USE ConsoleUpdateAssumption DEF UpdateInit, NoWork, NoPointer, NothingLoaded, Dirs, Assets
<1>1. UpdateTypeOK
  BY DEF UpdateTypeOK
<1>2. OneAtWork /\ PointersWhole /\ PageKnown
  BY DEF OneAtWork, PointersWhole, Named, PageKnown, IsOf
<1>3. \A i \in Installers : OwnDirectory(i)
  BY DEF OwnDirectory
<1> QED BY <1>1, <1>2, <1>3 DEF ConsoleInv

\* The directories a pointer may name, and what its fields are.
Pointers == [dir : {0} \union Dirs, asset : Assets, previous : {0} \union Dirs]

\* A pointer is a record, and names directories.
LEMMA PointersTyped ==
  ASSUME UpdateTypeOK
  PROVE  /\ pointer \in Pointers /\ stable \in Pointers
         /\ Named(pointer) \subseteq Dirs /\ Named(stable) \subseteq Dirs
BY DEF UpdateTypeOK, Pointers, Named

\* What remains to be known of the others when one is at work.
OthersIdle(i) == \A j \in Installers : j # i => at[j] = "idle" /\ work[j].dir = 0

\* While one installer is at work the others are idle, and have no directory.
LEMMA OthersAreIdle ==
  ASSUME ConsoleInv, NEW i \in Installers, at[i] # "idle" \/ mutex = NoInstaller
  PROVE  OthersIdle(i)
<1> SUFFICES ASSUME NEW j \in Installers, j # i PROVE at[j] = "idle" /\ work[j].dir = 0
  BY DEF OthersIdle
<1>1. at[j] = "idle"
  BY ConsoleUpdateAssumption DEF ConsoleInv, OneAtWork
<1>2. OwnDirectory(j)
  BY DEF ConsoleInv
<1> QED BY <1>1, <1>2 DEF OwnDirectory

\* A step of the one at work that leaves the others alone keeps what is known of
\* everybody, if it keeps what is known of its own directory.
LEMMA OwnStep ==
  ASSUME ConsoleInv, NEW i \in Installers,
         at[i] # "idle" \/ mutex = NoInstaller,
         UpdateTypeOK', OwnDirectory(i)', PointersWhole', PageKnown',
         mutex' = i \/ at'[i] = "idle",
         \A j \in Installers : j # i => at'[j] = at[j] /\ work'[j] = work[j]
  PROVE  ConsoleInv'
<1>1. OthersIdle(i)
  BY OthersAreIdle
<1>2. OneAtWork'
  BY <1>1 DEF OneAtWork, OthersIdle
<1>3. ASSUME NEW j \in Installers PROVE OwnDirectory(j)'
  <2>1. CASE j # i
    <3>1. at'[j] = "idle" /\ work'[j].dir = 0
      BY <1>1, <2>1 DEF OthersIdle
    <3> QED BY <3>1 DEF OwnDirectory
  <2> QED BY <2>1
<1> QED BY <1>2, <1>3 DEF ConsoleInv

\* What the checks and the pages do.
LEMMA OutsideKeepsConsoleInv ==
  ASSUME ConsoleInv, PublishRelease \/ CheckConsole \/ LoadPage \/ Crash
  PROVE  ConsoleInv'
<1>1. CASE PublishRelease
  <2>1. UpdateTypeOK'
    <3>1. release \in Assets
      BY DEF ConsoleInv, UpdateTypeOK
    <3>2. release' \in Assets
      BY <1>1, <3>1, ConsoleUpdateAssumption DEF PublishRelease, Assets
    <3> QED BY <1>1, <3>2 DEF ConsoleInv, PublishRelease, UpdateTypeOK
  <2> QED BY <1>1, <2>1
          DEF PublishRelease, ConsoleInv, OneAtWork, PointersWhole, Named, OwnDirectory, PageKnown, IsOf
<1>2. CASE CheckConsole
  <2>1. UpdateTypeOK'
    BY <1>2 DEF ConsoleInv, CheckConsole, UpdateTypeOK
  <2> QED BY <1>2, <2>1
          DEF CheckConsole, ConsoleInv, OneAtWork, PointersWhole, Named, OwnDirectory, PageKnown, IsOf
<1>3. CASE LoadPage
  <2>1. pointer.dir \in {0} \union Dirs /\ unsynced \in Nat
    BY PointersTyped DEF ConsoleInv, Pointers, UpdateTypeOK
  <2>2. /\ loaded' \in [dir : {0} \union Dirs, age : Nat, undone : BOOLEAN]
        /\ loaded'.dir = pointer.dir /\ loaded'.age = 0
    BY <1>3, <2>1 DEF LoadPage, NothingLoaded
  <2>3. UpdateTypeOK'
    BY <1>3, <2>2 DEF ConsoleInv, LoadPage, UpdateTypeOK
  <2>4. PageKnown'
    <3>1. unsynced' = unsynced /\ stable' = stable /\ pointer' = pointer
      BY <1>3 DEF LoadPage
    <3> QED BY <2>1, <2>2, <3>1 DEF ConsoleInv, PageKnown, IsOf
  <2> QED BY <1>3, <2>3, <2>4
          DEF LoadPage, ConsoleInv, OneAtWork, PointersWhole, Named, OwnDirectory
<1>4. CASE Crash
  <2>1. PICK kept \in {pointer, stable} : pointer' = kept /\ stable' = kept
    BY <1>4 DEF Crash, PointerKept, PointerUndone
  <2>2. PICK lost \in SUBSET {d \in Dirs : dirs[d] = "final"} :
          dirs' = [d \in Dirs |-> IF d \in lost THEN "candidate" ELSE dirs[d]]
    BY <1>4 DEF Crash
  <2>3. unsynced \in Nat /\ loaded \in [dir : {0} \union Dirs, age : Nat, undone : BOOLEAN]
    BY DEF ConsoleInv, UpdateTypeOK
  <2>4. loaded' \in [dir : {0} \union Dirs, age : Nat, undone : BOOLEAN] /\ PageKnown'
    <3>1. CASE PointerKept
      BY <1>4, <2>3, <3>1 DEF ConsoleInv, PageKnown, IsOf, Crash, PointerKept
    <3>2. CASE PointerUndone /\ loaded.age < unsynced
      <4>1. loaded' = [loaded EXCEPT !.undone = TRUE]
        BY <3>2 DEF PointerUndone
      <4>2. loaded' \in [dir : {0} \union Dirs, age : Nat, undone : BOOLEAN] /\ loaded'.undone
        BY <2>3, <4>1
      <4> QED BY <1>4, <3>2, <4>2 DEF PageKnown, IsOf, Crash, PointerUndone
    <3>3. CASE PointerUndone /\ ~(loaded.age < unsynced)
      <4>1. loaded' = [loaded EXCEPT !.age = loaded.age - unsynced]
        BY <3>3 DEF PointerUndone
      <4>2. loaded.age - unsynced \in Nat /\ loaded.age >= unsynced
        BY <2>3, <3>3
      <4>3. /\ loaded' \in [dir : {0} \union Dirs, age : Nat, undone : BOOLEAN]
            /\ loaded'.dir = loaded.dir /\ loaded'.undone = loaded.undone
            /\ loaded'.age = loaded.age - unsynced
        BY <2>3, <4>1, <4>2
      <4>4. unsynced' = 0 /\ pointer' = stable /\ stable' = stable
        BY <1>4, <3>3 DEF Crash, PointerUndone
      <4> QED BY <4>2, <4>3, <4>4 DEF ConsoleInv, PageKnown, IsOf
    <3> QED BY <1>4, <3>1, <3>2, <3>3 DEF Crash
  <2>5. UpdateTypeOK'
    <3>1. 0 \in Assets
      BY ConsoleUpdateAssumption DEF Assets
    <3>2. pointer' \in Pointers /\ stable' \in Pointers
      BY <2>1, PointersTyped DEF ConsoleInv
    <3>3. dirs' \in [Dirs -> {"free", "candidate", "final", "durable"}]
      BY <2>2 DEF ConsoleInv, UpdateTypeOK
    <3> QED BY <1>4, <2>4, <3>1, <3>2, <3>3 DEF ConsoleInv, Crash, UpdateTypeOK, NoWork, Pointers
  <2>6. PointersWhole'
    <3>1. ASSUME NEW d \in Named(pointer) \union Named(stable) PROVE dirs'[d] = "durable"
      <4>1. d \in Dirs /\ dirs[d] = "durable"
        BY PointersTyped DEF ConsoleInv, PointersWhole
      <4> QED BY <2>2, <4>1
    <3>2. Named(pointer') \subseteq Named(pointer) \union Named(stable) /\ stable' = pointer'
      BY <2>1
    <3>3. pointer'.dir = 0 => pointer'.previous = 0
      BY <2>1 DEF ConsoleInv, PointersWhole
    <3> QED BY <3>1, <3>2, <3>3 DEF PointersWhole, Named
  <2>7. OneAtWork'
    BY <1>4 DEF Crash, OneAtWork
  <2>8. \A i \in Installers : OwnDirectory(i)'
    BY <1>4 DEF Crash, OwnDirectory, NoWork
  <2> QED BY <2>4, <2>5, <2>6, <2>7, <2>8 DEF ConsoleInv
<1> QED BY <1>1, <1>2, <1>3, <1>4

-----------------------------------------------------------------------------
(* The steps of an installation *)

\* The steps an installer may be at, and what it keeps of its installation.
Stages == {"idle", "checking", "checked", "downloading", "validated", "in place", "synced", "kept"}

WorkRecords ==
  [asked : Assets, asset : Assets, dir : {0} \union Dirs, previous : {0} \union Dirs]

\* Who goes on changes its own step only.
LEMMA GoesOn ==
  ASSUME ConsoleInv, NEW i \in Installers, NEW to \in Stages, at' = [at EXCEPT ![i] = to]
  PROVE  /\ at' \in [Installers -> Stages] /\ at'[i] = to
         /\ \A j \in Installers : j # i => at'[j] = at[j]
<1>1. at \in [Installers -> Stages]
  BY DEF ConsoleInv, UpdateTypeOK, Stages
<1> QED BY <1>1

\* Who writes something down writes it for itself.
LEMMA WritesDown ==
  ASSUME ConsoleInv, NEW i \in Installers, NEW w \in WorkRecords, work' = [work EXCEPT ![i] = w]
  PROVE  /\ work' \in [Installers -> WorkRecords] /\ work'[i] = w
         /\ \A j \in Installers : j # i => work'[j] = work[j]
<1>1. work \in [Installers -> WorkRecords]
  BY DEF ConsoleInv, UpdateTypeOK, WorkRecords
<1> QED BY <1>1

\* The variables that the steps of an installation change keep their types.
LEMMA InstallerTypes ==
  ASSUME ConsoleInv, latest' \in Assets, mutex' \in Installers \union {NoInstaller},
         at' \in [Installers -> Stages], work' \in [Installers -> WorkRecords],
         dirs' \in [Dirs -> {"free", "candidate", "final", "durable"}],
         pointer' \in Pointers, stable' \in Pointers,
         unsynced' \in Nat, loaded' \in [dir : {0} \union Dirs, age : Nat, undone : BOOLEAN],
         UNCHANGED release
  PROVE  UpdateTypeOK'
BY DEF ConsoleInv, UpdateTypeOK, Stages, WorkRecords, Pointers

\* The types that the invariant gives each variable.
LEMMA TypesNow ==
  ASSUME ConsoleInv
  PROVE  /\ latest \in Assets /\ release \in Assets /\ mutex \in Installers \union {NoInstaller}
         /\ at \in [Installers -> Stages] /\ work \in [Installers -> WorkRecords]
         /\ dirs \in [Dirs -> {"free", "candidate", "final", "durable"}]
         /\ pointer \in Pointers /\ stable \in Pointers
         /\ unsynced \in Nat
         /\ loaded \in [dir : {0} \union Dirs, age : Nat, undone : BOOLEAN]
BY DEF ConsoleInv, UpdateTypeOK, Stages, WorkRecords, Pointers

\* An installation begins with no directory.
LEMMA InstallKeepsConsoleInv ==
  ASSUME ConsoleInv, NEW i \in Installers, NEW asset, Install(i, asset)
  PROVE  ConsoleInv'
<1> DEFINE w == [NoWork EXCEPT !.asked = asset]
<1>1. asset \in Assets
  BY TypesNow, ConsoleUpdateAssumption DEF Install, Assets
<1>2. w \in WorkRecords /\ w.dir = 0
  BY <1>1, ConsoleUpdateAssumption DEF NoWork, WorkRecords, Assets
<1>3. at' \in [Installers -> Stages] /\ at'[i] = "checking"
      /\ \A j \in Installers : j # i => at'[j] = at[j]
  BY GoesOn DEF Install, Goes, Stages
<1>4. work' \in [Installers -> WorkRecords] /\ work'[i].dir = 0
      /\ \A j \in Installers : j # i => work'[j] = work[j]
  <2>1. work' = [work EXCEPT ![i] = w]
    BY DEF Install
  <2> QED BY <1>2, <2>1, WritesDown
<1>5. UpdateTypeOK'
  BY <1>3, <1>4, TypesNow, InstallerTypes DEF Install
<1>6. OwnDirectory(i)'
  BY <1>3, <1>4 DEF OwnDirectory
<1>7. PointersWhole' /\ PageKnown'
  BY DEF ConsoleInv, Install, PointersWhole, PageKnown, IsOf, Named
<1> QED BY <1>3, <1>4, <1>5, <1>6, <1>7, OwnStep DEF Install, MayInstall

\* The check and the comparison with its result.
LEMMA CheckKeepsConsoleInv ==
  ASSUME ConsoleInv, NEW i \in Installers, InstallChecked(i) \/ Captured(i)
  PROVE  ConsoleInv'
<1>1. PointersWhole' /\ PageKnown'
  BY DEF ConsoleInv, InstallChecked, Captured, PointersWhole, PageKnown, IsOf, Named
<1>2. at[i] # "idle" /\ work[i].dir = 0 /\ mutex = i
  BY DEF ConsoleInv, OneAtWork, OwnDirectory, InstallChecked, Captured, Goes
<1>3. CASE InstallChecked(i)
  <2>1. at' \in [Installers -> Stages] /\ at'[i] = "checked"
        /\ \A j \in Installers : j # i => at'[j] = at[j]
    BY <1>3, GoesOn DEF InstallChecked, Goes, Stages
  <2>2. UpdateTypeOK'
    BY <1>3, <2>1, TypesNow, InstallerTypes DEF InstallChecked
  <2>3. OwnDirectory(i)'
    BY <1>2, <1>3, <2>1 DEF OwnDirectory, InstallChecked
  <2> QED BY <1>1, <1>2, <1>3, <2>1, <2>2, <2>3, OwnStep DEF InstallChecked
<1>4. CASE Captured(i)
  <2> DEFINE w == [work[i] EXCEPT !.asset = latest]
  <2>1. at' \in [Installers -> Stages] /\ at'[i] = "downloading"
        /\ \A j \in Installers : j # i => at'[j] = at[j]
    BY <1>4, GoesOn DEF Captured, Goes, Stages
  <2>2. w \in WorkRecords /\ w.dir = 0
    BY <1>2, TypesNow DEF WorkRecords
  <2>3. work' \in [Installers -> WorkRecords] /\ work'[i].dir = 0
        /\ \A j \in Installers : j # i => work'[j] = work[j]
    <3>1. work' = [work EXCEPT ![i] = w]
      BY <1>4 DEF Captured
    <3> QED BY <2>2, <3>1, WritesDown
  <2>4. UpdateTypeOK'
    BY <1>4, <2>1, <2>3, TypesNow, InstallerTypes DEF Captured
  <2>5. OwnDirectory(i)'
    BY <2>1, <2>3 DEF OwnDirectory
  <2> QED BY <1>1, <1>2, <1>4, <2>1, <2>3, <2>4, <2>5, OwnStep DEF Captured
<1> QED BY <1>3, <1>4

\* What is unpacked is in a directory that was free: no pointer names it.
LEMMA UnpackKeepsConsoleInv ==
  ASSUME ConsoleInv, NEW i \in Installers, NEW d \in Dirs, Unpack(i, d)
  PROVE  ConsoleInv'
<1> DEFINE w == [work[i] EXCEPT !.dir = d]
<1>1. at[i] # "idle" /\ mutex = i /\ dirs[d] = "free"
  BY DEF ConsoleInv, OneAtWork, Unpack, Goes
<1>2. at' \in [Installers -> Stages] /\ at'[i] = "validated"
      /\ \A j \in Installers : j # i => at'[j] = at[j]
  BY GoesOn DEF Unpack, Goes, Stages
<1>3. work' \in [Installers -> WorkRecords] /\ work'[i].dir = d
      /\ \A j \in Installers : j # i => work'[j] = work[j]
  <2>1. w \in WorkRecords /\ w.dir = d
    BY TypesNow DEF WorkRecords
  <2>2. work' = [work EXCEPT ![i] = w]
    BY DEF Unpack
  <2> QED BY <2>1, <2>2, WritesDown
<1>4. dirs' \in [Dirs -> {"free", "candidate", "final", "durable"}]
      /\ \A e \in Dirs : e # d => dirs'[e] = dirs[e]
  BY TypesNow DEF Unpack
<1>5. d \notin Named(pointer) \union Named(stable)
  BY <1>1 DEF ConsoleInv, PointersWhole
<1>6. PointersWhole' /\ PageKnown'
  BY <1>4, <1>5, PointersTyped DEF ConsoleInv, PointersWhole, PageKnown, IsOf, Named, Unpack
<1>7. OwnDirectory(i)'
  BY <1>2, <1>3, <1>5 DEF OwnDirectory, Named, Unpack
<1>8. UpdateTypeOK'
  BY <1>2, <1>3, <1>4, TypesNow, InstallerTypes DEF Unpack
<1> QED BY <1>1, <1>2, <1>3, <1>6, <1>7, <1>8, OwnStep DEF Unpack

\* The directory gets its name, and the one of current.json becomes the previous.
LEMMA PutInPlaceKeepsConsoleInv ==
  ASSUME ConsoleInv, NEW i \in Installers, PutInPlace(i)
  PROVE  ConsoleInv'
<1> DEFINE d == work[i].dir
           w == [work[i] EXCEPT !.previous = pointer.dir]
<1>1. at[i] = "validated" /\ mutex = i /\ OwnDirectory(i)
  BY DEF ConsoleInv, OneAtWork, PutInPlace, Goes
<1>2. d \in Dirs \ (Named(pointer) \union Named(stable))
  BY <1>1 DEF OwnDirectory
<1>3. at' \in [Installers -> Stages] /\ at'[i] = "in place"
      /\ \A j \in Installers : j # i => at'[j] = at[j]
  BY GoesOn DEF PutInPlace, Goes, Stages
<1>4. work' \in [Installers -> WorkRecords] /\ work'[i].dir = d
      /\ work'[i].previous = pointer.dir
      /\ \A j \in Installers : j # i => work'[j] = work[j]
  <2>1. w \in WorkRecords /\ w.dir = d /\ w.previous = pointer.dir
    BY TypesNow DEF WorkRecords, Pointers
  <2>2. work' = [work EXCEPT ![i] = w]
    BY DEF PutInPlace
  <2> QED BY <2>1, <2>2, WritesDown
<1>5. dirs' \in [Dirs -> {"free", "candidate", "final", "durable"}]
      /\ \A e \in Dirs : e # d => dirs'[e] = dirs[e]
  BY TypesNow DEF PutInPlace
<1>6. PointersWhole' /\ PageKnown'
  BY <1>2, <1>5, PointersTyped DEF ConsoleInv, PointersWhole, PageKnown, IsOf, Named, PutInPlace
<1>7. OwnDirectory(i)'
  BY <1>2, <1>3, <1>4 DEF OwnDirectory, Named, PutInPlace
<1>8. UpdateTypeOK'
  BY <1>3, <1>4, <1>5, TypesNow, InstallerTypes DEF PutInPlace
<1> QED BY <1>1, <1>3, <1>4, <1>6, <1>7, <1>8, OwnStep DEF PutInPlace

\* Its name is synced.
LEMMA SyncKeepsConsoleInv ==
  ASSUME ConsoleInv, NEW i \in Installers, SyncVersions(i)
  PROVE  ConsoleInv'
<1> DEFINE d == work[i].dir
<1>1. at[i] = "in place" /\ mutex = i /\ OwnDirectory(i)
  BY DEF ConsoleInv, OneAtWork, SyncVersions, Goes
<1>2. d \in Dirs \ (Named(pointer) \union Named(stable)) /\ work[i].previous = pointer.dir
  BY <1>1 DEF OwnDirectory
<1>3. at' \in [Installers -> Stages] /\ at'[i] = "synced"
      /\ \A j \in Installers : j # i => at'[j] = at[j]
  BY GoesOn DEF SyncVersions, Goes, Stages
<1>4. dirs' \in [Dirs -> {"free", "candidate", "final", "durable"}] /\ dirs'[d] = "durable"
      /\ \A e \in Dirs : e # d => dirs'[e] = dirs[e]
  BY <1>2, TypesNow DEF SyncVersions
<1>5. PointersWhole' /\ PageKnown'
  BY <1>2, <1>4, PointersTyped DEF ConsoleInv, PointersWhole, PageKnown, IsOf, Named, SyncVersions
<1>6. OwnDirectory(i)'
  BY <1>2, <1>3, <1>4 DEF OwnDirectory, Named, SyncVersions
<1>7. UpdateTypeOK'
  BY <1>3, <1>4, TypesNow, InstallerTypes DEF SyncVersions
<1> QED BY <1>1, <1>3, <1>5, <1>6, <1>7, OwnStep DEF SyncVersions

\* current.json names the synced directory, and before it the one it named so far.
LEMMA PointerKeepsConsoleInv ==
  ASSUME ConsoleInv, NEW i \in Installers, WritePointer(i)
  PROVE  ConsoleInv'
<1>1. at[i] = "synced" /\ mutex = i /\ OwnDirectory(i)
  BY DEF ConsoleInv, OneAtWork, WritePointer, BeforePointer
<1>2. work[i].dir \in Dirs /\ dirs[work[i].dir] = "durable" /\ work[i].previous = pointer.dir
  BY <1>1 DEF OwnDirectory
<1>3. work[i].dir # 0
  BY <1>2, ConsoleUpdateAssumption DEF Dirs
<1>4. at' \in [Installers -> Stages] /\ at'[i] = "kept"
      /\ \A j \in Installers : j # i => at'[j] = at[j]
  BY GoesOn DEF WritePointer, Stages
<1>5. pointer' \in Pointers /\ pointer'.dir = work[i].dir /\ pointer'.previous = pointer.dir
  <2>1. work[i] \in WorkRecords
    BY TypesNow
  <2> QED BY <1>2, <2>1 DEF WritePointer, Pointers, WorkRecords
<1>6. PointersWhole'
  <2>1. ASSUME NEW d \in Named(pointer') PROVE dirs[d] = "durable"
    <3>1. d = work[i].dir \/ d \in Named(pointer)
      BY <1>5, <2>1 DEF Named
    <3> QED BY <1>2, <3>1 DEF ConsoleInv, PointersWhole
  <2> QED BY <1>3, <1>5, <2>1 DEF ConsoleInv, PointersWhole, WritePointer, Named
<1>7. /\ loaded' \in [dir : {0} \union Dirs, age : Nat, undone : BOOLEAN] /\ unsynced' \in Nat
      /\ loaded'.dir = loaded.dir /\ loaded'.undone = loaded.undone
      /\ loaded'.age = loaded.age + 1 /\ unsynced' = unsynced + 1
  BY TypesNow DEF WritePointer
<1>8. PageKnown'
  <2>1. loaded.age \in Nat /\ unsynced \in Nat
    BY TypesNow
  <2>2. unsynced' # 0
    BY <1>7, <2>1
  <2>3. ASSUME loaded.dir # 0, ~loaded.undone PROVE IsOf(pointer, loaded.age)'
    <3>1. IsOf(pointer, loaded.age)
      BY <2>3 DEF ConsoleInv, PageKnown
    <3>2. loaded'.age # 0 /\ (loaded'.age = 1 => loaded.age = 0)
      BY <1>7, <2>1
    <3> QED BY <1>5, <1>7, <3>1, <3>2 DEF IsOf
  <2>4. ASSUME loaded.dir # 0, ~loaded.undone, loaded'.age >= unsynced'
        PROVE  IsOf(stable, loaded.age - unsynced)'
    <3>1. loaded.age >= unsynced /\ loaded'.age - unsynced' = loaded.age - unsynced
      BY <1>7, <2>1, <2>4
    <3>2. IsOf(stable, loaded.age - unsynced)
      BY <2>4, <3>1 DEF ConsoleInv, PageKnown
    <3>3. stable' = stable
      BY DEF WritePointer
    <3> QED BY <1>7, <3>1, <3>2, <3>3 DEF IsOf
  <2> QED BY <1>7, <2>2, <2>3, <2>4 DEF PageKnown
<1>9. OwnDirectory(i)'
  BY <1>4 DEF OwnDirectory
<1>10. UpdateTypeOK'
  BY <1>4, <1>5, <1>7, TypesNow, InstallerTypes DEF WritePointer
<1> QED BY <1>1, <1>4, <1>6, <1>8, <1>9, <1>10, OwnStep DEF WritePointer

\* Who is done or fails has nothing written down.
LEMMA Cleared ==
  ASSUME ConsoleInv, NEW i \in Installers,
         at' = [at EXCEPT ![i] = "idle"], work' = [work EXCEPT ![i] = NoWork]
  PROVE  /\ at' \in [Installers -> Stages] /\ at'[i] = "idle"
         /\ work' \in [Installers -> WorkRecords]
         /\ \A j \in Installers : j # i => at'[j] = at[j] /\ work'[j] = work[j]
         /\ OwnDirectory(i)'
<1>1. NoWork \in WorkRecords /\ NoWork.dir = 0
  BY ConsoleUpdateAssumption DEF NoWork, WorkRecords, Assets
<1>2. at' \in [Installers -> Stages] /\ at'[i] = "idle"
      /\ \A j \in Installers : j # i => at'[j] = at[j]
  BY GoesOn DEF Stages
<1>3. work' \in [Installers -> WorkRecords] /\ work'[i] = NoWork
      /\ \A j \in Installers : j # i => work'[j] = work[j]
  BY <1>1, WritesDown
<1>4. OwnDirectory(i)'
  BY <1>1, <1>2, <1>3 DEF OwnDirectory
<1> QED BY <1>2, <1>3, <1>4

\* The directory of current.json is synced, or not.
LEMMA DoneKeepsConsoleInv ==
  ASSUME ConsoleInv, NEW i \in Installers, InstallDone(i)
  PROVE  ConsoleInv'
<1>1. at[i] # "idle"
  BY DEF InstallDone, Goes
<1>2. /\ at' \in [Installers -> Stages] /\ at'[i] = "idle"
      /\ work' \in [Installers -> WorkRecords]
      /\ \A j \in Installers : j # i => at'[j] = at[j] /\ work'[j] = work[j]
      /\ OwnDirectory(i)'
  BY Cleared DEF InstallDone, Goes
<1>3. (stable' = pointer /\ unsynced' = 0) \/ UNCHANGED <<stable, unsynced>>
  BY DEF InstallDone
<1>4. PointersWhole'
  BY <1>3 DEF ConsoleInv, PointersWhole, Named, InstallDone
<1>5. PageKnown'
  <2>1. loaded.age \in Nat /\ loaded.age - 0 = loaded.age
    BY TypesNow
  <2>2. CASE stable' = pointer /\ unsynced' = 0
    BY <2>1, <2>2 DEF ConsoleInv, PageKnown, IsOf, InstallDone
  <2>3. CASE UNCHANGED <<stable, unsynced>>
    BY <2>3 DEF ConsoleInv, PageKnown, IsOf, InstallDone
  <2> QED BY <1>3, <2>2, <2>3
<1>6. UpdateTypeOK'
  BY <1>2, <1>3, TypesNow, InstallerTypes DEF InstallDone
<1> QED BY <1>1, <1>2, <1>4, <1>5, <1>6, OwnStep

\* Only the installer's own directory is removed again, which no pointer names.
LEMMA FailureKeepsConsoleInv ==
  ASSUME ConsoleInv, NEW i \in Installers, InstallFails(i)
  PROVE  ConsoleInv'
<1>1. at[i] # "idle" /\ at[i] # "kept" /\ OwnDirectory(i) /\ at[i] \in Stages
  <2>1. at[i] \in Stages
    BY TypesNow
  <2>2. OwnDirectory(i)
    BY DEF ConsoleInv
  <2> QED BY <2>1, <2>2 DEF InstallFails
<1>2. /\ at' \in [Installers -> Stages] /\ at'[i] = "idle"
      /\ work' \in [Installers -> WorkRecords]
      /\ \A j \in Installers : j # i => at'[j] = at[j] /\ work'[j] = work[j]
      /\ OwnDirectory(i)'
  BY Cleared DEF InstallFails
<1>3. work[i].dir \notin Named(pointer) \union Named(stable)
  BY <1>1 DEF OwnDirectory, Stages, Named
<1>4. dirs' \in [Dirs -> {"free", "candidate", "final", "durable"}]
      /\ \A e \in Dirs : e # work[i].dir => dirs'[e] = dirs[e]
  BY TypesNow DEF InstallFails
<1>5. PointersWhole' /\ PageKnown'
  BY <1>3, <1>4, PointersTyped DEF ConsoleInv, PointersWhole, PageKnown, IsOf, Named, InstallFails
<1>6. UpdateTypeOK'
  BY <1>2, <1>4, TypesNow, InstallerTypes DEF InstallFails
<1> QED BY <1>1, <1>2, <1>5, <1>6, OwnStep

-----------------------------------------------------------------------------
(* The theorems *)

\* Every step of the installations keeps the invariant.
LEMMA ConsoleInvStep == ConsoleInv /\ [UpdateNext]_updateVars => ConsoleInv'
<1> SUFFICES ASSUME ConsoleInv, [UpdateNext]_updateVars PROVE ConsoleInv'
  OBVIOUS
<1>1. CASE PublishRelease \/ CheckConsole \/ LoadPage \/ Crash
  BY <1>1, OutsideKeepsConsoleInv
<1>2. ASSUME NEW i \in Installers,
             \/ \E asset \in Assets : Install(i, asset)
             \/ \E d \in Dirs : Unpack(i, d)
             \/ Ensure(i) \/ InstallChecked(i) \/ Captured(i) \/ PutInPlace(i) \/ SyncVersions(i)
             \/ WritePointer(i) \/ InstallDone(i) \/ InstallFails(i)
      PROVE ConsoleInv'
  <2>1. CASE (\E asset \in Assets : Install(i, asset)) \/ Ensure(i)
    BY <2>1, InstallKeepsConsoleInv DEF Ensure
  <2>2. CASE InstallChecked(i) \/ Captured(i)
    BY <2>2, CheckKeepsConsoleInv
  <2>3. CASE \E d \in Dirs : Unpack(i, d)
    BY <2>3, UnpackKeepsConsoleInv
  <2>4. CASE PutInPlace(i)
    BY <2>4, PutInPlaceKeepsConsoleInv
  <2>5. CASE SyncVersions(i)
    BY <2>5, SyncKeepsConsoleInv
  <2>6. CASE WritePointer(i)
    BY <2>6, PointerKeepsConsoleInv
  <2>7. CASE InstallDone(i)
    BY <2>7, DoneKeepsConsoleInv
  <2>8. CASE InstallFails(i)
    BY <2>8, FailureKeepsConsoleInv
  <2> QED BY <1>2, <2>1, <2>2, <2>3, <2>4, <2>5, <2>6, <2>7, <2>8
<1>3. CASE UNCHANGED updateVars
  BY <1>3 DEF ConsoleInv, UpdateTypeOK, OneAtWork, PointersWhole, Named, OwnDirectory, PageKnown, IsOf,
              updateVars
<1> QED BY <1>1, <1>2, <1>3 DEF UpdateNext

\* Every state of the installations satisfies the invariant.
LEMMA ConsoleSatisfiesInv == UpdateSpec => []ConsoleInv
BY ConsoleInvInit, ConsoleInvStep, PTL DEF UpdateSpec

\* Type correctness of the installations of the console.
THEOREM ConsoleTypeCorrect == UpdateSpec => []UpdateTypeOK
<1>1. ConsoleInv => UpdateTypeOK
  BY DEF ConsoleInv
<1> QED BY <1>1, ConsoleSatisfiesInv, PTL

\* Whatever fails and wherever the server crashes, current.json names directories
\* that are whole, and a page in a browser finds its assets as long as no more than
\* one installation follows its own, unless a crash undid that.
THEOREM ConsoleIsWhole == UpdateSpec => []ConsoleStaysWhole
BY ConsoleInvSuffices, ConsoleSatisfiesInv, PTL

-----------------------------------------------------------------------------
(* Policies *)

(* A request between its lock and its end is the holder of the mutex. *)
HolderActs == \A c \in Changers : changing[c].step # "idle" => holder = c

(* What a request is about to apply is what the settings say of its kind, and of
   the other kind nobody has changed anything, unless it went astray. *)
KnownIsStored ==
  \A c \in Changers : changing[c].step = "known" =>
    /\ changing[c].value = stored[changing[c].kind]
    /\ \A k \in Kinds \ astray : k # changing[c].kind => enforced[k] = stored[k]

(* Nothing waits to be applied unless a request knows it or it went astray. *)
AppliedOrKnown ==
  (\A c \in Changers : changing[c].step # "known") =>
    \A k \in Kinds \ astray : enforced[k] = stored[k]

PolicyInv == PoliciesTypeOK /\ HolderActs /\ KnownIsStored /\ AppliedOrKnown

(* What may be served after a document that was served. *)
Follows(next, old) == next = old \/ next.revision > old.revision

(* The documents of the repository are copied through memory.  What is about to
   be stored is compared with the copy in memory: that must be the one served, and
   what is stored, which a restart will serve, must follow it. *)
MemoryIsCopy ==
  /\ copying.step = "stored" => cache = copying.document
  /\ ~free => Follows(cache, served) /\ (copying.step = "loading" \/ legal = served)

(* The names of the actions, one case each. *)
LEMMA PoliciesCases ==
  ASSUME PoliciesNext
  PROVE  \/ EditDocument \/ LoadCache \/ FetchLegal \/ StoreLegal \/ UseLegal \/ LegalSyncFails
         \/ \E c \in Changers : LockPolicy(c)
         \/ \E c \in Changers, kind \in Kinds, value \in Values : ChangePolicy(c, kind, value)
         \/ \E c \in Changers, kind \in Kinds : ReadPolicy(c, kind)
         \/ \E c \in Changers, kind \in Kinds : Apply(c, kind)
         \/ \E c \in Changers : ChangeUnanswered(c)
         \/ \E c \in Changers : ApplyAIPolicyFails(c)
         \/ \E c \in Changers : PolicyFails(c)
         \/ Restart
  BY DEF PoliciesNext, LegalNext, PolicyNext, ChangeBuildPolicy, ChangeAIPolicy, ApplyBuildPolicy, ApplyAIPolicy, Kinds

LegalTypeOK ==
  /\ {upstream, cache, legal, served} \subseteq Documents \union {NoDocument}
  /\ copying \in [step : {"loading", "idle", "read", "stored"},
                  document : Documents \union {NoDocument}]
  /\ free \in BOOLEAN

Changes == [step : {"idle", "locked", "known"}, kind : Kinds, value : Values]

PolicyTypeOK ==
  /\ stored \in [Kinds -> Values] /\ enforced \in [Kinds -> Values]
  /\ astray \subseteq Kinds /\ holder \in Changers \union {NoChanger}
  /\ changing \in [Changers -> Changes]

(* The type of the state is those of its two halves, *)
LEMMA TypeParts == PoliciesTypeOK <=> LegalTypeOK /\ PolicyTypeOK
  BY DEF PoliciesTypeOK, LegalTypeOK, PolicyTypeOK, Changes

(* after a step too. *)
LEMMA PartsPrimed == PoliciesTypeOK' <=> LegalTypeOK' /\ PolicyTypeOK'
  BY DEF PoliciesTypeOK, LegalTypeOK, PolicyTypeOK, Changes

(* A document that was stored is on its way to memory, unless the answer was lost. *)
LEMMA WrittenOrNot ==
  ASSUME LegalTypeOK, StoreLegal
  PROVE  \/ copying'.step = "stored" /\ copying'.document = copying.document
         \/ copying'.step = "idle" /\ copying'.document = NoDocument
<1> DEFINE goesOn == [copying EXCEPT !.step = "stored"]
           ends == [NoCopy EXCEPT !.step = "idle"]
<1>1. ends.step = "idle" /\ ends.document = NoDocument
  BY DEF NoCopy
<1>2. goesOn.step = "stored" /\ goesOn.document = copying.document
  BY DEF LegalTypeOK
<1> QED BY <1>1, <1>2 DEF StoreLegal

(* The documents keep their types. *)
LEMMA LegalTypes ==
  ASSUME LegalTypeOK, PoliciesNext
  PROVE  LegalTypeOK'
<1> USE DEF LegalTypeOK, NoCopy
<1>1. CASE EditDocument
  BY <1>1 DEF EditDocument
<1>2. CASE LoadCache
  <2>1. CASE Serve(cache)
    BY <1>2, <2>1 DEF LoadCache, Serve
  <2>2. CASE free' = TRUE /\ UNCHANGED <<legal, served>>
    BY <1>2, <2>2 DEF LoadCache
  <2> QED BY <1>2, <2>1, <2>2 DEF LoadCache
<1>3. CASE FetchLegal
  BY <1>3 DEF FetchLegal
<1>4. CASE StoreLegal
  <2>1. copying'.step \in {"stored", "idle"}
        /\ copying'.document \in {copying.document, NoDocument}
    BY <1>4, WrittenOrNot DEF StoreLegal
  <2> QED BY <1>4, <2>1 DEF StoreLegal
<1>5. CASE UseLegal
  BY <1>5 DEF UseLegal, Serve
<1>6. CASE LegalSyncFails
  BY <1>6 DEF LegalSyncFails
<1>7. CASE Restart
  BY <1>7 DEF Restart
<1>8. CASE UNCHANGED legalVars
  BY <1>8 DEF legalVars
<1> QED
  BY <1>1, <1>2, <1>3, <1>4, <1>5, <1>6, <1>7, <1>8, PoliciesCases
     DEF LockPolicy, ChangePolicy, ReadPolicy, Apply, PolicyFails, ChangeUnanswered,
         ApplyAIPolicyFails

(* The policies and those who change them keep their types. *)
LEMMA PolicyTypes ==
  ASSUME PolicyTypeOK, PoliciesNext
  PROVE  PolicyTypeOK'
<1> USE PoliciesAssumption DEF PolicyTypeOK, Changes
<1>1. CASE \E c \in Changers : LockPolicy(c)
  BY <1>1 DEF LockPolicy
<1>2. CASE \E c \in Changers, kind \in Kinds, value \in Values : ChangePolicy(c, kind, value)
  BY <1>2 DEF ChangePolicy, Knows
<1>3. CASE \E c \in Changers, kind \in Kinds : ReadPolicy(c, kind)
  BY <1>3 DEF ReadPolicy, Knows
<1>4. CASE \E c \in Changers, kind \in Kinds : Apply(c, kind)
  BY <1>4 DEF Apply, Unlock, NoChange, Kinds
<1>5. CASE \E c \in Changers : PolicyFails(c)
  BY <1>5 DEF PolicyFails, Unlock, NoChange, Kinds
<1>6. CASE Restart
  BY <1>6 DEF Restart, NoChange, Kinds
<1>7. CASE UNCHANGED policyVars
  BY <1>7 DEF policyVars
<1>8. CASE \E c \in Changers : ChangeUnanswered(c)
  BY <1>8 DEF ChangeUnanswered, Unlock, NoChange, Kinds
<1>9. CASE \E c \in Changers : ApplyAIPolicyFails(c)
  BY <1>9 DEF ApplyAIPolicyFails, Unlock, NoChange, Kinds
<1> QED
  BY <1>1, <1>2, <1>3, <1>4, <1>5, <1>6, <1>7, <1>8, <1>9, PoliciesCases
     DEF EditDocument, LoadCache, FetchLegal, StoreLegal, UseLegal, LegalSyncFails

(* The mutex is held by whoever acts. *)
LEMMA HolderKept ==
  ASSUME PolicyTypeOK, HolderActs, PoliciesNext
  PROVE  HolderActs'
<1> SUFFICES ASSUME NEW d \in Changers, changing'[d].step # "idle"
             PROVE  holder' = d
  BY DEF HolderActs
<1> USE PoliciesAssumption DEF PolicyTypeOK, Changes, HolderActs
<1>1. CASE \E c \in Changers : LockPolicy(c)
  BY <1>1 DEF LockPolicy, MutexFree
<1>2. CASE \E c \in Changers, kind \in Kinds, value \in Values : ChangePolicy(c, kind, value)
  BY <1>2 DEF ChangePolicy, Knows
<1>3. CASE \E c \in Changers, kind \in Kinds : ReadPolicy(c, kind)
  BY <1>3 DEF ReadPolicy, Knows
<1>4. CASE \E c \in Changers, kind \in Kinds : Apply(c, kind)
  BY <1>4 DEF Apply, Unlock, NoChange
<1>5. CASE \E c \in Changers : PolicyFails(c)
  BY <1>5 DEF PolicyFails, Unlock, NoChange
<1>6. CASE Restart
  BY <1>6 DEF Restart, NoChange
<1>7. CASE UNCHANGED policyVars
  BY <1>7 DEF policyVars
<1>8. CASE \E c \in Changers : ChangeUnanswered(c)
  BY <1>8 DEF ChangeUnanswered, Unlock, NoChange
<1>9. CASE \E c \in Changers : ApplyAIPolicyFails(c)
  BY <1>9 DEF ApplyAIPolicyFails, Unlock, NoChange
<1> QED
  BY <1>1, <1>2, <1>3, <1>4, <1>5, <1>6, <1>7, <1>8, <1>9, PoliciesCases
     DEF EditDocument, LoadCache, FetchLegal, StoreLegal, UseLegal, LegalSyncFails

(* Of several requests at most one is past its lock. *)
LEMMA OneActs ==
  ASSUME HolderActs, NEW c \in Changers, NEW d \in Changers,
         changing[c].step # "idle", changing[d].step # "idle"
  PROVE  c = d
  BY DEF HolderActs

(* What is known is stored, and what nobody knows is applied. *)
LEMMA AppliedKept ==
  ASSUME PolicyTypeOK, HolderActs, KnownIsStored, AppliedOrKnown, PoliciesNext
  PROVE  KnownIsStored' /\ AppliedOrKnown'
<1>1. CASE \E c \in Changers : LockPolicy(c)
  <2> PICK c \in Changers : LockPolicy(c)
    BY <1>1
  <2>1. \A d \in Changers : changing'[d].step = "known" <=> changing[d].step = "known"
    BY DEF LockPolicy, PolicyTypeOK, Changes
  <2>2. \A d \in Changers : changing'[d].kind = changing[d].kind /\ changing'[d].value = changing[d].value
    BY DEF LockPolicy, PolicyTypeOK, Changes
  <2> QED
    BY <2>1, <2>2 DEF LockPolicy, KnownIsStored, AppliedOrKnown
<1>2. ASSUME NEW c \in Changers, NEW kind \in Kinds, NEW value \in Values,
             changing[c].step = "locked", Knows(c, kind, value),
             stored' = [stored EXCEPT ![kind] = value], UNCHANGED <<enforced, astray>>
      PROVE  KnownIsStored' /\ AppliedOrKnown'
  <2>1. \A d \in Changers : d # c => changing[d].step = "idle" /\ changing'[d] = changing[d]
    BY <1>2, OneActs DEF Knows, PolicyTypeOK, Changes
  <2>2. \A k \in Kinds \ astray : enforced[k] = stored[k]
    BY <1>2, <2>1 DEF AppliedOrKnown
  <2>3. changing'[c] = [step |-> "known", kind |-> kind, value |-> value]
    BY <1>2 DEF Knows, PolicyTypeOK
  <2>4. AppliedOrKnown'
    BY <2>3 DEF AppliedOrKnown
  <2>5. KnownIsStored'
    BY <1>2, <2>1, <2>2, <2>3 DEF KnownIsStored, PolicyTypeOK
  <2> QED
    BY <2>4, <2>5
<1>3. CASE \E c \in Changers, kind \in Kinds, value \in Values : ChangePolicy(c, kind, value)
  BY <1>2, <1>3 DEF ChangePolicy
<1>4. CASE \E c \in Changers, kind \in Kinds : ReadPolicy(c, kind)
  <2> PICK c \in Changers, kind \in Kinds : ReadPolicy(c, kind)
    BY <1>4
  <2>1. stored[kind] \in Values /\ stored' = [stored EXCEPT ![kind] = stored[kind]]
    BY DEF ReadPolicy, PolicyTypeOK
  <2> QED
    BY <1>2, <2>1 DEF ReadPolicy
<1>5. CASE \E c \in Changers, kind \in Kinds : Apply(c, kind)
  <2> PICK c \in Changers, kind \in Kinds : Apply(c, kind)
    BY <1>5
  <2>1. \A d \in Changers : changing'[d].step = "idle"
    BY OneActs DEF Apply, Unlock, NoChange, PolicyTypeOK, Changes
  <2>2. \A k \in Kinds \ astray' : enforced'[k] = stored[k]
    BY DEF Apply, KnownIsStored, PolicyTypeOK
  <2> QED
    BY <2>1, <2>2 DEF Apply, KnownIsStored, AppliedOrKnown
<1>6. CASE \E c \in Changers : PolicyFails(c)
  <2> PICK c \in Changers : PolicyFails(c)
    BY <1>6
  <2>1. \A d \in Changers : changing[d].step # "known" /\ changing'[d].step # "known"
    BY OneActs DEF PolicyFails, Unlock, NoChange, PolicyTypeOK, Changes
  <2> QED
    BY <2>1 DEF PolicyFails, KnownIsStored, AppliedOrKnown
<1>7. CASE Restart
  BY <1>7 DEF Restart, NoChange, KnownIsStored, AppliedOrKnown
<1>8. CASE UNCHANGED policyVars
  BY <1>8 DEF policyVars, KnownIsStored, AppliedOrKnown
<1>9. CASE \E c \in Changers : ChangeUnanswered(c)
  <2> PICK c \in Changers : ChangeUnanswered(c)
    BY <1>9
  <2>1. \A d \in Changers : changing[d].step # "known" /\ changing'[d].step # "known"
    BY OneActs DEF ChangeUnanswered, Unlock, NoChange, PolicyTypeOK, Changes
  <2>2. \A k \in Kinds \ astray' : enforced'[k] = stored'[k]
    BY <2>1 DEF ChangeUnanswered, AppliedOrKnown, PolicyTypeOK
  <2> QED
    BY <2>1, <2>2 DEF KnownIsStored, AppliedOrKnown
<1>10. CASE \E c \in Changers : ApplyAIPolicyFails(c)
  <2> PICK c \in Changers : ApplyAIPolicyFails(c)
    BY <1>10
  <2>1. \A d \in Changers : changing'[d].step = "idle"
    BY OneActs DEF ApplyAIPolicyFails, Unlock, NoChange, PolicyTypeOK, Changes
  <2>2. \A k \in Kinds \ astray' : enforced'[k] = stored'[k]
    BY DEF ApplyAIPolicyFails, KnownIsStored, PolicyTypeOK
  <2> QED
    BY <2>1, <2>2 DEF KnownIsStored, AppliedOrKnown
<1> QED
  BY <1>1, <1>3, <1>4, <1>5, <1>6, <1>7, <1>8, <1>9, <1>10, PoliciesCases
     DEF EditDocument, LoadCache, FetchLegal, StoreLegal, UseLegal, LegalSyncFails

(* A document goes on from revision to revision. *)
LEMMA AcceptableFollows ==
  ASSUME NEW next, NEW old, Acceptable(next, old), next # NoDocument
  PROVE  Follows(next, old)
  BY DEF Acceptable, Follows

(* What is stored follows what was served, and memory is what was served, or
   nothing holds the one to the other. *)
LEMMA MemoryKept ==
  ASSUME LegalTypeOK, MemoryIsCopy, PoliciesNext
  PROVE  MemoryIsCopy'
<1> USE DEF MemoryIsCopy, LegalTypeOK, NoCopy
<1>1. CASE EditDocument \/ FetchLegal
  BY <1>1 DEF EditDocument, FetchLegal
<1>2. CASE LoadCache
  <2>1. CASE Serve(cache) /\ cache = NoDocument
    <3>1. ~free => served = cache
      <4>1. NoDocument.revision = 0 /\ (served.revision \in Nat)
        BY DEF NoDocument, Documents
      <4> QED BY <2>1, <4>1 DEF Follows
    <3> QED BY <1>2, <2>1, <3>1 DEF LoadCache, Serve
  <2>2. CASE Serve(cache) /\ cache # NoDocument
    BY <1>2, <2>2 DEF LoadCache, Serve, Follows
  <2>3. CASE free'
    BY <1>2, <2>3 DEF LoadCache
  <2> QED BY <1>2, <2>1, <2>2, <2>3 DEF LoadCache
<1>3. CASE StoreLegal
  <2>1. CASE free'
    BY <1>3, <2>1, WrittenOrNot DEF StoreLegal
  <2>2. CASE ~free'
    <3>1. ~free /\ copying.document # NoDocument /\ legal = served
      BY <1>3, <2>2 DEF StoreLegal
    <3>2. Follows(copying.document, served)
      BY <1>3, <3>1, AcceptableFollows DEF StoreLegal
    <3> QED BY <1>3, <3>1, <3>2, WrittenOrNot DEF StoreLegal
  <2> QED BY <2>1, <2>2
<1>4. CASE UseLegal
  <2>1. CASE copying.document = NoDocument
    <3>1. ~free => served = NoDocument
      <4>1. NoDocument.revision = 0 /\ (served.revision \in Nat)
        BY DEF NoDocument, Documents
      <4> QED BY <1>4, <2>1, <4>1 DEF Follows, UseLegal
    <3> QED BY <1>4, <2>1, <3>1 DEF UseLegal, Serve
  <2>2. CASE copying.document # NoDocument
    BY <1>4, <2>2 DEF UseLegal, Serve, Follows
  <2> QED BY <2>1, <2>2
<1>5. CASE LegalSyncFails
  BY <1>5 DEF LegalSyncFails
<1>6. CASE Restart
  BY <1>6 DEF Restart
<1>7. CASE UNCHANGED legalVars
  BY <1>7 DEF legalVars
<1> QED
  BY <1>1, <1>2, <1>3, <1>4, <1>5, <1>6, <1>7, PoliciesCases
     DEF LockPolicy, ChangePolicy, ReadPolicy, Apply, PolicyFails, ChangeUnanswered,
         ApplyAIPolicyFails

PoliciesInv == PolicyInv /\ MemoryIsCopy

(* The invariant holds at the start *)
LEMMA PoliciesInitInductive == PoliciesInit => PoliciesInv
<1> SUFFICES ASSUME PoliciesInit PROVE PoliciesInv
  OBVIOUS
<1> USE PoliciesAssumption DEF PoliciesInit, NoCopy, NoChange
<1>1. changing \in [Changers -> Changes]
  BY DEF Changes, Kinds
<1>2. PolicyTypeOK
  BY <1>1 DEF PolicyTypeOK
<1>3. upstream \in Documents
  <2>1. 1 \in 1..MaxRevision
    BY DEF PoliciesAssumption
  <2> QED
    BY <2>1 DEF Documents
<1>4. LegalTypeOK
  BY <1>3 DEF LegalTypeOK
<1>5. HolderActs /\ KnownIsStored /\ AppliedOrKnown /\ MemoryIsCopy
  BY DEF HolderActs, KnownIsStored, AppliedOrKnown, MemoryIsCopy, Follows
<1> QED
  BY <1>2, <1>4, <1>5, TypeParts DEF PoliciesInv, PolicyInv

(* and after every step. *)
LEMMA PoliciesStepInductive == PoliciesInv /\ [PoliciesNext]_policiesVars => PoliciesInv'
<1>1. ASSUME PoliciesInv, PoliciesNext
      PROVE  PoliciesInv'
  <2>1. PoliciesTypeOK'
    BY <1>1, TypeParts, PartsPrimed, LegalTypes, PolicyTypes DEF PoliciesInv, PolicyInv
  <2>2. HolderActs' /\ KnownIsStored' /\ AppliedOrKnown' /\ MemoryIsCopy'
    BY <1>1, TypeParts, HolderKept, AppliedKept, MemoryKept DEF PoliciesInv, PolicyInv
  <2> QED
    BY <2>1, <2>2 DEF PoliciesInv, PolicyInv
<1>2. ASSUME PoliciesInv, UNCHANGED policiesVars
      PROVE  PoliciesInv'
  BY <1>2 DEF PoliciesInv, PolicyInv, PoliciesTypeOK, HolderActs, KnownIsStored, AppliedOrKnown,
              MemoryIsCopy, Follows, policiesVars
<1> QED
  BY <1>1, <1>2

(* The inductive invariant: types, the mutex and what its holder knows, and the
   copy that memory follows. *)
THEOREM PoliciesInvariance == PoliciesSpec => []PoliciesInv
  BY PoliciesInitInductive, PoliciesStepInductive, PTL DEF PoliciesSpec

(* Every reachable state of settings and memory is well typed. *)
THEOREM PoliciesTypeCorrect == PoliciesSpec => []PoliciesTypeOK
<1>1. PoliciesInv => PoliciesTypeOK
  BY DEF PoliciesInv, PolicyInv
<1> QED
  BY <1>1, PoliciesInvariance, PTL

(* With no change under way, the policies in force are those of the settings,
   however many requests changed and refreshed them, but for one that was not read
   at the start, was written without an answer or could not be applied. *)
THEOREM PolicyIsEnforcedAlways == PoliciesSpec => []PolicyIsEnforced
<1>1. PoliciesInv => PolicyIsEnforced
  BY DEF PoliciesInv, PolicyInv, AppliedOrKnown, PolicyIsEnforced
<1> QED
  BY <1>1, PoliciesInvariance, PTL

(* What is served after a document is a newer revision or the same, over every
   edit, lost answer, failing synchronisation and restart, unless a manifest was
   copied without the document or a process could not read the copy. *)
THEOREM RevisionKeepsItsWordsAlways == PoliciesSpec => RevisionKeepsItsWords
<1>1. PoliciesInv /\ [PoliciesNext]_policiesVars =>
        [free \/ served' = served \/ served'.revision > served.revision]_policiesVars
  <2> SUFFICES ASSUME PoliciesInv, PoliciesNext, ~free, served' # served
               PROVE  served'.revision > served.revision
    OBVIOUS
  <2>1. Follows(cache, served) /\ (copying.step = "stored" => cache = copying.document)
    BY DEF PoliciesInv, MemoryIsCopy
  <2>2. CASE LoadCache
    BY <2>1, <2>2 DEF LoadCache, Serve, Follows
  <2>3. CASE UseLegal
    BY <2>1, <2>3 DEF UseLegal, Serve, Follows
  <2> QED
    BY <2>2, <2>3, PoliciesCases
       DEF EditDocument, FetchLegal, StoreLegal, LegalSyncFails, LockPolicy, ChangePolicy,
           ReadPolicy, Apply, PolicyFails, ChangeUnanswered, ApplyAIPolicyFails, Restart,
           legalVars
<1> QED
  BY <1>1, PoliciesInvariance, PTL DEF PoliciesSpec, RevisionKeepsItsWords
=============================================================================
