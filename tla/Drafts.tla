-------------------------------- MODULE Drafts --------------------------------
(***************************************************************************)
(* The unpublished revisions of one resource: the draft its creator saves,  *)
(* the draft of the administrators, and the revision under review, which     *)
(* administrators edit as well.  Writes are serializable transactions that   *)
(* compare the edit_version of a page; reading the page, and reading the     *)
(* draft that is to be submitted, take several queries outside of them.      *)
(***************************************************************************)
EXTENDS Naturals, FiniteSetsExt

CONSTANT MaxEdits   \* bound of the model on resources.edit_version

ASSUME DraftsAssumption == MaxEdits \in Nat

VARIABLES
  version,     \* resources.edit_version
  drafted,        \* the draft of the creator, that of the administrators, and the
               \* revision under review: id, revision_no, text and whether it has
               \* a preview and bound files
  decided,     \* revision_no of the newest revision that is none of these
  workspace,   \* the page the creator works on
  submission   \* a submission of the creator that is under way

draftsVars == <<version, drafted, decided, workspace, submission>>

Slots == {"creator", "admin", "submitted"}
NoRevision == [id |-> 0, no |-> 0, text |-> 0, whole |-> FALSE]
NoWorkspace == [step |-> "closed", version |-> 0, shown |-> {}, newest |-> 0]
NoSubmission == [step |-> "none", draft |-> NoRevision]

DraftsInit ==
  /\ version = 0 /\ decided = 0
  /\ drafted = [k \in Slots |-> NoRevision]
  /\ workspace = NoWorkspace /\ submission = NoSubmission

Has(k) == drafted[k] # NoRevision

\* ORDER BY revision_no DESC
NewestSlot == CHOOSE k \in Slots : \A j \in Slots : drafted[j].no <= drafted[k].no

\* Mutant: the version of the page is not compared.
Whatever(expected) == TRUE

\* edit_version is what the page shows, or the write is a revision_conflict.
Unchanged(expected) == version = expected

\* A number that no revision, text or version has had.
NextEdit == version + 1

\* edit_version=edit_version+1
Bump == version < MaxEdits /\ version' = NextEdit

-----------------------------------------------------------------------------
(* The creator *)

\* Workspace reads the resource, then its revisions.
OpenWorkspace ==
  /\ submission = NoSubmission
  /\ workspace' = [NoWorkspace EXCEPT !.step = "half", !.version = version]
  /\ UNCHANGED <<version, drafted, decided, submission>>

FinishWorkspace ==
  /\ workspace.step = "half"
  /\ workspace' = [workspace EXCEPT !.step = "read",
       !.shown = {drafted[k].text : k \in Slots}, !.newest = drafted[NewestSlot].id]
  /\ UNCHANGED <<version, drafted, decided, submission>>

\* saveBundle deletes every draft, whoever made it, and goes on with its id.
SavedDraft(text, whole) ==
  LET drafts == {k \in {"creator", "admin"} : Has(k)}
      newest == CHOOSE k \in drafts : \A j \in drafts : drafted[j].no <= drafted[k].no
  IN [id |-> IF drafts = {} THEN NextEdit ELSE drafted[newest].id, no |-> NextEdit,
      text |-> text, whole |-> whole]

\* handleCreatorDraft, SaveDraftAt
SaveDraftAt ==
  /\ workspace.step = "read" /\ submission = NoSubmission
  /\ Unchanged(workspace.version)
  /\ \E whole \in BOOLEAN :
       drafted' = [drafted EXCEPT !["creator"] = SavedDraft(NextEdit, whole), !["admin"] = NoRevision]
  /\ Bump
  /\ workspace' = NoWorkspace
  /\ UNCHANGED <<decided, submission>>

\* handleCreatorPublish, SubmitDraftAt: the resource is read, and compared.
ReadResource ==
  /\ workspace.step = "read" /\ submission = NoSubmission
  /\ version = workspace.version
  /\ submission' = [submission EXCEPT !.step = "resource"]
  /\ UNCHANGED <<version, drafted, decided, workspace>>

\* The newest revision is the one the page names, and a draft.
ReadRevisions ==
  /\ submission.step = "resource"
  /\ NewestSlot # "submitted" /\ Has(NewestSlot) /\ drafted[NewestSlot].no > decided
  /\ drafted[NewestSlot].id = workspace.newest
  /\ submission' = [step |-> "revisions", draft |-> drafted[NewestSlot]]
  /\ UNCHANGED <<version, drafted, decided, workspace>>

\* Its files and pictures; those of a revision that is gone are none.
ReadFiles ==
  /\ submission.step = "revisions"
  /\ submission' = [submission EXCEPT !.step = "files",
       !.draft.whole = \E k \in Slots : drafted[k].id = submission.draft.id /\ drafted[k].whole]
  /\ UNCHANGED <<version, drafted, decided, workspace>>

\* The bundle is packed, validated and submitted by saveBundle (PublishAt).
SubmitBundle ==
  /\ submission.step = "files" /\ submission.draft.whole
  /\ Unchanged(workspace.version)
  /\ drafted' = [k \in Slots |-> IF k = "submitted" THEN SavedDraft(submission.draft.text, TRUE) ELSE NoRevision]
  /\ decided' = Max({decided, drafted["submitted"].no})
  /\ Bump
  /\ workspace' = NoWorkspace /\ submission' = NoSubmission

\* A conflict, an error or a bundle that is not valid.
DropSubmission ==
  /\ submission # NoSubmission
  /\ submission' = NoSubmission
  /\ UNCHANGED <<version, drafted, decided, workspace>>

-----------------------------------------------------------------------------
(* Administrators.  Their page reads the revision first and edit_version last:  *)
(* it may name a newer version than it shows, and nothing is said of it here.    *)

\* The row of a new draft, its files cloned from the revision it is made from.
NewDraft(whole) == [id |-> NextEdit, no |-> NextEdit, text |-> NextEdit, whole |-> whole]

\* HandleAdminAPIResourceDraft works on the draft of the administrators, on the
\* revision under review, or on a new draft made from another revision.
AdminSaveRevision ==
  /\ IF Has("admin") THEN drafted' = [drafted EXCEPT !["admin"].text = NextEdit]
     ELSE IF Has("submitted") THEN drafted' = [drafted EXCEPT !["submitted"].text = NextEdit]
     ELSE \E whole \in BOOLEAN :
            /\ \/ decided # 0 /\ whole
               \/ Has("creator") /\ whole = drafted["creator"].whole
            /\ drafted' = [drafted EXCEPT !["admin"] = NewDraft(whole)]
  /\ Bump
  /\ UNCHANGED <<decided, workspace, submission>>

\* AdminCreateRollbackRevision: a new draft with the text of an older revision.
AdminRollback ==
  /\ ~Has("admin") /\ decided # 0
  /\ drafted' = [drafted EXCEPT !["admin"] = NewDraft(TRUE)]
  /\ Bump
  /\ UNCHANGED <<decided, workspace, submission>>

\* lockAdminDraft: the draft of the administrators or the revision under review.
Editable(k) == k \in {"admin", "submitted"} /\ Has(k)

\* AdminDiscardRevisionDraft; edit_version stays.
AdminDiscardRevision(k) ==
  /\ Editable(k)
  /\ drafted' = [drafted EXCEPT ![k] = NoRevision]
  /\ UNCHANGED <<version, decided, workspace, submission>>

\* AdminAddRevisionMedia, AdminAddRevisionArtifact; edit_version stays.
AdminAddAsset(k) ==
  /\ Editable(k)
  /\ drafted' = [drafted EXCEPT ![k].whole = TRUE]
  /\ UNCHANGED <<version, decided, workspace, submission>>

\* AdminSubmitRevisionDraftAt; a draft of the creator stays a draft.
AdminSubmitRevision ==
  /\ Has("admin") /\ drafted["admin"].whole
  /\ drafted' = [drafted EXCEPT !["submitted"] = drafted["admin"], !["admin"] = NoRevision]
  /\ decided' = Max({decided, drafted["submitted"].no})
  /\ Bump
  /\ UNCHANGED <<workspace, submission>>

\* decideReview; only an approval counts edit_version on.
DecideRevision(approve) ==
  /\ Has("submitted")
  /\ drafted' = [drafted EXCEPT !["submitted"] = NoRevision]
  /\ decided' = Max({decided, drafted["submitted"].no})
  /\ IF approve THEN Bump ELSE UNCHANGED version
  /\ UNCHANGED <<workspace, submission>>

DraftsNext ==
  \/ OpenWorkspace \/ FinishWorkspace \/ SaveDraftAt
  \/ ReadResource \/ ReadRevisions \/ ReadFiles \/ SubmitBundle \/ DropSubmission
  \/ AdminSaveRevision \/ AdminRollback \/ AdminSubmitRevision
  \/ \E k \in Slots : AdminDiscardRevision(k) \/ AdminAddAsset(k)
  \/ \E approve \in BOOLEAN : DecideRevision(approve)

DraftsSpec == DraftsInit /\ [][DraftsNext]_draftsVars
-----------------------------------------------------------------------------
(* Properties *)

DraftsTypeOK ==
  /\ version \in 0..MaxEdits /\ decided \in 0..MaxEdits
  /\ LET Revision == [id : 0..MaxEdits, no : 0..MaxEdits, text : 0..MaxEdits, whole : BOOLEAN] IN
       /\ drafted \in [Slots -> Revision]
       /\ submission \in [step : {"none", "resource", "revisions", "files"}, draft : Revision]
  /\ workspace \in [step : {"closed", "half", "read"}, version : 0..MaxEdits,
                    shown : SUBSET (0..MaxEdits), newest : 0..MaxEdits]

\* When the creator saves or submits, every text there is, the drafts that are
\* replaced and the revision under review, is one his page has shown him, and what
\* he submits is such a text with its files, however administrators save, roll
\* back, submit, discard and decide while his page is open or his submission is
\* read and packed.
CreatorReplacesWhatHeSaw ==
  [][SaveDraftAt \/ SubmitBundle =>
       /\ \A k \in Slots : Has(k) => drafted[k].text \in workspace.shown
       /\ SubmitBundle => /\ Has("submitted")'
                          /\ drafted'["submitted"].text \in workspace.shown
                          /\ drafted'["submitted"].whole]_draftsVars
=============================================================================
