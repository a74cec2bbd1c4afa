------------------------------- MODULE Storage -------------------------------
(***************************************************************************)
(* One stored content: its local file, its row of blobs, what refers to it,  *)
(* and its replica in the bucket (R2).  Handlers store the file before the  *)
(* row and the row before what refers to it.  The coordinator is one          *)
(* goroutine that prunes, replicates and collects in turn; the file system   *)
(* and the bucket are no part of its transactions, may fail, and may have    *)
(* done what they report as failed.                                          *)
(***************************************************************************)
EXTENDS Naturals

CONSTANTS
  MaxUploads,  \* bounds of the model: stores of this content,
  MaxFaults    \* and answers lost, crashes and failures

ASSUME StorageAssumption == MaxUploads \in Nat /\ MaxFaults \in Nat

VARIABLES
  file,        \* the local file is there
  row,         \* the blobs row: absent, young, old (past Retention.OrphanBlobs)
  use,         \* none, private (a draft, an old revision, ...) or public: the
               \* current revision of a visible resource holds it
  replica,     \* the blob_replicas row; key says that object_key is written
  object,      \* the object is in the bucket
  job,         \* where the coordinator is
  upload,      \* where the handler is that stores this content
  uploads, faults,
  torn         \* a step at the bucket or the file was cut off or its answer lost

storageVars == <<file, row, use, replica, object, job, upload, uploads, faults, torn>>

NoReplica == [state |-> "none", key |-> FALSE]

StorageInit ==
  /\ file = FALSE /\ row = "absent" /\ use = "none"
  /\ replica = NoReplica /\ object = FALSE
  /\ job = "idle" /\ upload = "idle"
  /\ uploads = 0 /\ faults = 0 /\ torn = FALSE

\* The collection has deleted the row and not committed: it holds the row's lock.
Collecting == job \in {"collecting", "unreplicated", "removed"}

Fault == faults < MaxFaults /\ faults' = faults + 1

-----------------------------------------------------------------------------
(* Handlers *)

\* Local.Put finds the file or renames its temporary one into place.
PutFile ==
  /\ upload = "idle" /\ uploads < MaxUploads
  /\ upload' = "stored" /\ uploads' = uploads + 1
  /\ file' = TRUE
  /\ UNCHANGED <<row, use, replica, object, job, faults, torn>>

\* EnsureBlob waits for the lock and leaves a row that is there.
EnsureBlob ==
  /\ upload = "stored" /\ ~Collecting
  /\ upload' = "registered"
  /\ row' = IF row = "absent" THEN "young" ELSE row
  /\ UNCHANGED <<file, use, replica, object, job, uploads, faults, torn>>

\* A revision, a plugin or a page refers to the row, see the foreign keys.
Refer ==
  /\ upload = "registered" /\ ~Collecting /\ row # "absent"
  /\ upload' = "idle"
  /\ use' = IF use = "none" THEN "private" ELSE use
  /\ UNCHANGED <<file, row, replica, object, job, uploads, faults, torn>>

\* The request ends before it refers to the content.
GiveUp ==
  /\ upload # "idle"
  /\ upload' = "idle"
  /\ UNCHANGED <<file, row, use, replica, object, job, uploads, faults, torn>>

\* Reviews and moderation, see Catalog; drafts and revisions go.
ChangeUse(to) ==
  /\ use # "none" /\ use' = to
  /\ UNCHANGED <<file, row, replica, object, job, upload, uploads, faults, torn>>

RowAges ==
  /\ row = "young" /\ row' = "old"
  /\ UNCHANGED <<file, use, replica, object, job, upload, uploads, faults, torn>>

\* AdminRequeueBlobReplica
Requeue ==
  /\ replica.state = "failed"
  /\ replica' = [replica EXCEPT !.state = "pending"]
  /\ UNCHANGED <<file, row, use, object, job, upload, uploads, faults, torn>>

-----------------------------------------------------------------------------
(* Replication *)

\* The candidate of replicateOne; an attempt is over after 15 minutes, and a
\* failed one is due at some time.
Claimable ==
  /\ use = "public" /\ row # "absent"
  /\ replica.state \in {"none", "failed", "uploading"}

ClaimReplica ==
  /\ job = "idle" /\ Claimable
  /\ replica' = [replica EXCEPT !.state = "uploading"]
  /\ job' = "uploading"
  /\ UNCHANGED <<file, row, use, object, upload, uploads, faults, torn>>

\* The object is there, and the row says so in a step of its own.
PutObject ==
  /\ job = "uploading" /\ file
  /\ object' = TRUE /\ job' = "uploaded"
  /\ UNCHANGED <<file, row, use, replica, upload, uploads, faults, torn>>

\* No file, or no answer of the bucket: it may hold the object all the same.
PutObjectFails ==
  /\ job = "uploading" /\ Fault
  /\ object' \in IF file THEN {object, TRUE} ELSE {object}
  /\ replica' = [replica EXCEPT !.state = "failed"]
  /\ torn' = (torn \/ object' # object)
  /\ job' = "idle"
  /\ UNCHANGED <<file, row, use, upload, uploads>>

FinishReplica ==
  /\ job = "uploaded"
  /\ replica' = [state |-> "ready", key |-> TRUE]
  /\ job' = "idle"
  /\ UNCHANGED <<file, row, use, object, upload, uploads, faults, torn>>

\* Mutant: replicas are pruned whose content no resource holds any more.
Unheld == use = "none"

\* No visible resource has it in its current revision.
NotPublic == use # "public"

\* The candidate of pruneR2Replica
Prunable == replica.state = "ready" /\ NotPublic

\* state='uploading': nobody is sent to the bucket meanwhile.
Withdrawn == "uploading"

ClaimPrune ==
  /\ job = "idle" /\ Prunable
  /\ replica' = [replica EXCEPT !.state = Withdrawn]
  /\ job' = "pruning"
  /\ UNCHANGED <<file, row, use, object, upload, uploads, faults, torn>>

DeleteObject ==
  /\ job = "pruning"
  /\ object' = FALSE /\ job' = "pruned"
  /\ UNCHANGED <<file, row, use, replica, upload, uploads, faults, torn>>

\* The bucket reports a failure; the object may be gone.
DeleteObjectFails ==
  /\ job = "pruning" /\ Fault
  /\ object' \in {object, FALSE}
  /\ replica' = [replica EXCEPT !.state = "ready"]
  /\ torn' = (torn \/ object' # object)
  /\ job' = "idle"
  /\ UNCHANGED <<file, row, use, upload, uploads>>

\* The row goes; when that fails it is marked failed.
FinishPrune ==
  /\ job = "pruned"
  /\ \/ replica' = NoReplica /\ UNCHANGED faults
     \/ Fault /\ replica' = [replica EXCEPT !.state = "failed"]
  /\ job' = "idle"
  /\ UNCHANGED <<file, row, use, object, upload, uploads, torn>>

-----------------------------------------------------------------------------
(* Collection of what nothing refers to *)

\* The NOT EXISTS of maintain, and the foreign keys.
Unreferenced == use = "none"

\* A transaction that deletes the row, then the object, then the file.
BeginCollect ==
  /\ job = "idle" /\ row = "old" /\ Unreferenced
  /\ job' = "collecting"
  /\ UNCHANGED <<file, row, use, replica, object, upload, uploads, faults, torn>>

CollectObject ==
  /\ job = "collecting"
  /\ object' = (object /\ ~replica.key)
  /\ job' = "unreplicated"
  /\ UNCHANGED <<file, row, use, replica, upload, uploads, faults, torn>>

CollectFile ==
  /\ job = "unreplicated"
  /\ file' = FALSE /\ job' = "removed"
  /\ UNCHANGED <<row, use, replica, object, upload, uploads, faults, torn>>

\* COMMIT; the row of the replica goes with the row.
CommitCollect ==
  /\ job = "removed"
  /\ row' = "absent" /\ replica' = NoReplica
  /\ job' = "idle"
  /\ UNCHANGED <<file, use, object, upload, uploads, faults, torn>>

\* An error rolls the transaction back, and the process may stop anywhere; what
\* was done at the bucket and the file stays done.
StopServer ==
  /\ job # "idle" /\ Fault
  /\ job' = "idle"
  /\ torn' = TRUE
  /\ UNCHANGED <<file, row, use, replica, object, upload, uploads>>

StorageNext ==
  \/ PutFile \/ EnsureBlob \/ Refer \/ GiveUp
  \/ \E to \in {"none", "private", "public"} : ChangeUse(to)
  \/ RowAges \/ Requeue
  \/ ClaimReplica \/ PutObject \/ PutObjectFails \/ FinishReplica
  \/ ClaimPrune \/ DeleteObject \/ DeleteObjectFails \/ FinishPrune
  \/ BeginCollect \/ CollectObject \/ CollectFile \/ CommitCollect
  \/ StopServer

StorageSpec == StorageInit /\ [][StorageNext]_storageVars
-----------------------------------------------------------------------------
(* Properties *)

\* The blob a visible resource holds in its current revision.
PublicBlob == use = "public" /\ row # "absent"

\* handleBlob: the client is sent to the bucket.
SentToBucket == PublicBlob /\ replica.state = "ready" /\ replica.key

StorageTypeOK ==
  /\ file \in BOOLEAN /\ object \in BOOLEAN /\ torn \in BOOLEAN
  /\ row \in {"absent", "young", "old"} /\ use \in {"none", "private", "public"}
  /\ replica \in [state : {"none", "pending", "uploading", "ready", "failed"}, key : BOOLEAN]
  /\ job \in {"idle", "uploading", "uploaded", "pruning", "pruned",
              "collecting", "unreplicated", "removed"}
  /\ upload \in {"idle", "stored", "registered"}
  /\ uploads \in 0..MaxUploads /\ faults \in 0..MaxFaults

\* As long as no step at the bucket was cut off: whoever is sent to the bucket
\* finds the object, also while it is pruned and its resource is restored; and
\* an object of content that is not public is always one the next round prunes.
\* Always: what something refers to has its row, and the rows of replicas go
\* with it.
BucketFollowsRows ==
  /\ ~torn => (SentToBucket => object)
  /\ ~torn /\ object /\ job = "idle" => replica.state = "ready" /\ replica.key
  /\ ~torn /\ object /\ job = "idle" /\ use # "public" => Prunable
  /\ use # "none" => row # "absent"
  /\ row = "absent" => replica = NoReplica

\* "AdminRequeueBlobReplica safely makes a failed R2 replica eligible for the
\* coordinator's next upload attempt."
RequeuedIsEligible == replica.state = "pending" /\ use = "public" => Claimable
=============================================================================
