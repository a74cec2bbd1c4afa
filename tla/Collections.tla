----------------------------- MODULE Collections -----------------------------
(***************************************************************************)
(* Collections of one owner's resources: their proposals by the owner and   *)
(* by administrators, the review that makes one live, and the membership an  *)
(* approved revision of a resource brings with it.  Every proposal is one     *)
(* serializable transaction; the page it was written from is read in parts   *)
(* before it, outside any transaction.                                      *)
(***************************************************************************)
EXTENDS Naturals, Sequences, FiniteSets

CONSTANTS
  Collections,
  Resources,
  NoCollection,  \* resources.collection_id IS NULL
  MaxProposals   \* bound of the model on the revisions of all collections

ASSUME CollectionsAssumption == NoCollection \notin Collections /\ MaxProposals \in Nat

States == {"visible", "suspended", "frozen"}

VARIABLES
  revisions,    \* resource_collection_revisions: per collection, by revision_no
  collection,   \* per collection: current (0: none), enabled, edit_version
  member,       \* resources.collection_id
  governed,     \* per collection: resources an approved revision of their own has
                \* moved since the collection's current revision was approved
  moderation,   \* resources.moderation_state, frozen standing for deleted too;
                \* every resource has a current revision
  page          \* the page that is edited: whose, what it names, and the revision
                \* that was live when the version it names was read

collectionsVars == <<revisions, collection, member, governed, moderation, page>>

Blank == [stage |-> "none", by |-> "owner", of |-> NoCollection,
          live |-> 0, pending |-> 0, version |-> 0]

CollectionsInit ==
  /\ revisions = [c \in Collections |-> <<>>]
  /\ collection = [c \in Collections |-> [current |-> 0, enabled |-> TRUE, version |-> 0]]
  /\ member = [r \in Resources |-> NoCollection]
  /\ governed = [c \in Collections |-> {}]
  /\ moderation = [r \in Resources |-> "visible"]
  /\ page = Blank

Exists(c) == revisions[c] # <<>>

InState(c, state) == {i \in DOMAIN revisions[c] : revisions[c][i].state = state}

\* WHERE state='pending' ORDER BY revision_no DESC LIMIT 1
Pending(c) ==
  LET ps == InState(c, "pending") IN
  IF ps = {} THEN 0 ELSE CHOOSE i \in ps : \A j \in ps : j <= i

Proposed == Cardinality(UNION {{c} \X DOMAIN revisions[c] : c \in Collections})

-----------------------------------------------------------------------------
(* The page of a collection *)

\* Collection of the owner: the row of the collection, with the number he will name
\* and the revision that is live; the pending one is read after it.
OpenPage(c) ==
  /\ Exists(c)
  /\ page' = [Blank EXCEPT !.stage = "version", !.of = c,
       !.live = collection[c].current, !.version = collection[c].version]
  /\ UNCHANGED <<revisions, collection, member, governed, moderation>>

FinishPage(c) ==
  /\ page.stage = "version" /\ page.of = c
  /\ page' = [page EXCEPT !.stage = "read", !.pending = Pending(c)]
  /\ UNCHANGED <<revisions, collection, member, governed, moderation>>

\* AdminCollection: the row and the revisions first, the pending one among them, the
\* number in a query of its own at the end; what the page shows of the collection
\* may be older than the number it will name.
OpenAdminPage(c) ==
  /\ Exists(c)
  /\ page' = [Blank EXCEPT !.stage = "revisions", !.by = "admin", !.of = c,
       !.pending = Pending(c)]
  /\ UNCHANGED <<revisions, collection, member, governed, moderation>>

FinishAdminPage(c) ==
  /\ page.stage = "revisions" /\ page.of = c
  /\ page' = [page EXCEPT !.stage = "read",
       !.live = collection[c].current, !.version = collection[c].version]
  /\ UNCHANGED <<revisions, collection, member, governed, moderation>>

-----------------------------------------------------------------------------
(* Proposals *)

\* UPDATE ... SET state='superseded' ... AND state='pending'
Superseded(c) ==
  [i \in DOMAIN revisions[c] |->
     IF i \in InState(c, "pending") THEN [revisions[c][i] EXCEPT !.state = "superseded"]
     ELSE revisions[c][i]]

\* The row and its members; known is what its author's page says of the live
\* revision: which it was when the version he names was read, if he names one.
Propose(c, members, enabled, known) ==
  /\ Proposed < MaxProposals
  /\ revisions' = [revisions EXCEPT ![c] = Append(Superseded(c),
       [state |-> "pending", members |-> members, enabled |-> enabled,
        base |-> collection[c].current, known |-> known])]
  /\ UNCHANGED <<member, governed, moderation, page>>

\* A proposal names edit_version and the pending revision of the page.
UpToDate(c, by) ==
  /\ page.stage = "read" /\ page.by = by /\ page.of = c
  /\ page.version = collection[c].version
  /\ page.pending = Pending(c)

Live(n) == [named |-> TRUE, live |-> n]
NoVersion == [named |-> FALSE, live |-> 0]

Bumped(c) == [collection EXCEPT ![c].version = @ + 1]

\* No other collection holds r.
Free(r, c) == member[r] \in {NoCollection, c}

\* SubmitCollection, of a new collection or of one that is there; deleted and
\* frozen resources are refused.
SubmitCollection(c, members) ==
  /\ members # {}
  /\ \A r \in members : moderation[r] # "frozen" /\ Free(r, c)
  /\ Exists(c) => UpToDate(c, "owner")
  /\ Propose(c, members, TRUE, Live(IF Exists(c) THEN page.live ELSE 0))
  /\ collection' = Bumped(c)

\* AdminUpdateCollectionMetadata names the same two.
AdminUpdateCollection(c, members, enabled) ==
  /\ UpToDate(c, "admin")
  /\ \A r \in members : Free(r, c)
  /\ Propose(c, members, enabled, Live(page.live))
  /\ collection' = Bumped(c)

\* DeleteCollection proposes that the collection is no longer enabled, with the
\* members of the pending revision or the live ones; it names no version and
\* counts none.
DeleteCollection(c) ==
  /\ Exists(c)
  /\ Propose(c, IF Pending(c) # 0 THEN revisions[c][Pending(c)].members
                ELSE {r \in Resources : member[r] = c}, FALSE, NoVersion)
  /\ UNCHANGED collection

-----------------------------------------------------------------------------
(* Review *)

\* Mutant: members another collection has taken are passed over.
SomeFree(c, i) == TRUE

\* As many rows changed as the revision has members.
AllFree(c, i) == \A r \in revisions[c][i].members : Free(r, c)

\* Mutant: an approval leaves the version as it is.
SameVersion(c) == collection[c].version

\* edit_version=edit_version+1
NextVersion(c) == collection[c].version + 1

\* ReviewCollection, approve: the previous revision is superseded, members that
\* are left out are released, and the others are taken, all or nothing.
Approve(c, i) ==
  /\ i \in InState(c, "pending") /\ AllFree(c, i)
  /\ LET new == revisions[c][i]  taken == {r \in new.members : Free(r, c)} IN
       /\ revisions' = [revisions EXCEPT ![c] = [j \in DOMAIN @ |->
            IF j = i THEN [@[j] EXCEPT !.state = "approved"]
            ELSE IF @[j].state = "approved" THEN [@[j] EXCEPT !.state = "superseded"] ELSE @[j]]]
       /\ member' = [r \in Resources |->
            IF r \in taken THEN c ELSE IF member[r] = c THEN NoCollection ELSE member[r]]
       /\ collection' = [collection EXCEPT ![c] =
            [current |-> i, enabled |-> new.enabled, version |-> NextVersion(c)]]
  /\ governed' = [governed EXCEPT ![c] = {}]
  /\ UNCHANGED <<moderation, page>>

\* ReviewCollection, reject
Reject(c, i) ==
  /\ i \in InState(c, "pending")
  /\ revisions' = [revisions EXCEPT ![c][i].state = "rejected"]
  /\ UNCHANGED <<collection, member, governed, moderation, page>>

\* The approval of an administrator's revision of a resource writes the
\* collection that was put into it, whatever was decided since; see Catalog.
Govern(r, c) ==
  /\ c # NoCollection => Exists(c)
  /\ member' = [member EXCEPT ![r] = c]
  /\ governed' = [d \in Collections |-> governed[d] \union {r}]
  /\ UNCHANGED <<revisions, collection, moderation, page>>

\* The moderation of a resource, see Catalog.
ModerateMember(r, state) ==
  /\ moderation' = [moderation EXCEPT ![r] = state]
  /\ UNCHANGED <<revisions, collection, member, governed, page>>

CollectionsNext ==
  \/ \E c \in Collections :
       \/ OpenPage(c) \/ FinishPage(c) \/ OpenAdminPage(c) \/ FinishAdminPage(c)
       \/ \E members \in SUBSET Resources :
            \/ SubmitCollection(c, members)
            \/ \E enabled \in BOOLEAN : AdminUpdateCollection(c, members, enabled)
       \/ DeleteCollection(c)
       \/ \E i \in DOMAIN revisions[c] : Approve(c, i) \/ Reject(c, i)
  \/ \E r \in Resources :
       \/ \E state \in States : ModerateMember(r, state)
       \/ \E c \in Collections \union {NoCollection} : Govern(r, c)

CollectionsSpec == CollectionsInit /\ [][CollectionsNext]_collectionsVars
-----------------------------------------------------------------------------
(* What is shown *)

\* c.current_revision_id IS NOT NULL AND c.enabled
Stands(c) == collection[c].current # 0 /\ collection[c].enabled

\* The cards of the catalogue that show r: its own, of publicCards, and
\* that of a collection of PublicCollections, which PublicCollection opens.
OwnCard(r) == moderation[r] = "visible" /\ (member[r] = NoCollection \/ ~Stands(member[r]))

PublicMembers(c) ==
  IF collection[c].enabled /\ collection[c].current # 0
  THEN {r \in Resources : member[r] = c /\ moderation[r] = "visible"} ELSE {}

-----------------------------------------------------------------------------
(* Properties *)

Revision ==
  [state : {"pending", "approved", "rejected", "superseded"}, members : SUBSET Resources,
   enabled : BOOLEAN, base : Nat, known : [named : BOOLEAN, live : Nat]]

CollectionsTypeOK ==
  /\ revisions \in [Collections -> Seq(Revision)]
  /\ collection \in [Collections -> [current : Nat, enabled : BOOLEAN, version : Nat]]
  /\ member \in [Resources -> Collections \union {NoCollection}]
  /\ governed \in [Collections -> SUBSET Resources] /\ moderation \in [Resources -> States]
  /\ page \in [stage : {"none", "version", "revisions", "read"}, by : {"owner", "admin"},
               of : Collections \union {NoCollection}, live : Nat, pending : Nat, version : Nat]

\* At most one proposal waits, written against the revision that is live; and if its
\* author named a version, none became live since that version was read.
NothingOverlooked(c) ==
  \A i \in InState(c, "pending") :
    LET known == revisions[c][i].known IN
    /\ i = Pending(c) /\ Cardinality(InState(c, "pending")) = 1
    /\ revisions[c][i].base = collection[c].current
    /\ known.named => known.live = collection[c].current

\* What is live is what was approved last, no member more or less but those a
\* revision of their own moved.
LiveIsApproved(c) ==
  LET i == collection[c].current IN
  /\ InState(c, "approved") = {i} \ {0}
  /\ i # 0 => /\ collection[c].enabled = revisions[c][i].enabled
              /\ \A r \in Resources \ governed[c] :
                   member[r] = c <=> r \in revisions[c][i].members

\* A collection is what its last approved proposal says, however proposals,
\* reviews and deletions overlap, also when another collection took a member in
\* between; no proposal overlooks a revision that became live since the version it
\* names was read, which for its owner is all he was shown, and for an administrator
\* may be later than what his page shows (a deletion names none); and a visible
\* resource is shown exactly once, by its own card or in a collection.
CollectionsAreAsApproved ==
  /\ \A c \in Collections : NothingOverlooked(c) /\ LiveIsApproved(c)
  /\ \A r \in Resources : moderation[r] = "visible" =>
       (OwnCard(r) <=> ~\E c \in Collections : r \in PublicMembers(c))
=============================================================================
