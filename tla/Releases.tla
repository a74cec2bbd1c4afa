------------------------------- MODULE Releases -------------------------------
(***************************************************************************)
(* The releases of the app that clients are offered: rows of app_releases,  *)
(* published from the console or copied from the releases of a repository   *)
(* (external), and what administrators decide of them.  Rows of stable      *)
(* releases for every platform; no synchronisation touches the others.      *)
(***************************************************************************)
EXTENDS Naturals

CONSTANTS
  Sources,     \* releases of the repository
  NoSource,    \* source_id of a row that was published from the console
  MaxVersion,  \* texts of versions, and of tags, are among 1..MaxVersion
  Tags,        \* those that the repository tags with
  Plain,       \* per text: the text without the "v" it may begin with
  MaxRows      \* bound of the model on the rows

ASSUME ReleasesAssumption ==
  /\ NoSource \notin Sources /\ MaxVersion \in Nat /\ MaxRows \in Nat
  /\ Tags \subseteq 1..MaxVersion /\ Plain \in [1..MaxVersion -> 1..MaxVersion]

VARIABLES
  tagged,     \* the tag that a release has in the repository; 0: it is
              \* a draft, a prerelease or gone
  offers,     \* app_releases; the rows are numbered in the order of their insertion
  copy,       \* app_releases as the transaction of a synchronisation has it; what
              \* it does not share with offers is locked
  syncing,    \* syncReleases: how far it is, what is still to be read or copied,
              \* what was read, and whether the pages have shifted
  followed    \* the listing of the last synchronisation that was committed

releasesVars == <<tagged, offers, copy, syncing, followed>>

AppVersions == 1..MaxVersion
ReleaseRows == 1..MaxRows
Listings == [Sources -> 0..MaxVersion]
Untagged == [s \in Sources |-> 0]
NotSyncing == [step |-> "idle", left |-> {}, read |-> Untagged, shifted |-> FALSE]

Row(version, source) ==
  [version |-> version, source |-> source, available |-> TRUE, enabled |-> TRUE,
   revoked |-> FALSE]

\* There is no such row.
Vacant == [version |-> 0, source |-> NoSource, available |-> FALSE, enabled |-> FALSE,
           revoked |-> FALSE]

ReleasesInit ==
  /\ tagged = Untagged /\ syncing = NotSyncing /\ followed = Untagged
  /\ offers = [i \in ReleaseRows |-> Vacant] /\ copy = offers

RowsOf(table, version) == {i \in ReleaseRows : table[i].version = version}
RowsFrom(table, s) == {i \in ReleaseRows : table[i].source = s}

Free(i) == offers[i] = Vacant /\ copy[i] = Vacant
NextFree(i) == Free(i) /\ \A j \in 1..(i - 1) : ~Free(j)

-----------------------------------------------------------------------------
(* The repository *)

\* A release is tagged, retagged or withdrawn; the pages after it move up.
Tag(s, tag) ==
  /\ tagged' = [tagged EXCEPT ![s] = tag]
  /\ syncing' = [syncing EXCEPT !.shifted = syncing.step = "reading" /\ (@ \/ tag = 0)]
  /\ UNCHANGED <<offers, copy, followed>>

-----------------------------------------------------------------------------
(* syncReleases *)

\* TryLock: of two synchronisations the second gives up.
BeginSync ==
  /\ syncing.step = "idle"
  /\ syncing' = [NotSyncing EXCEPT !.step = "reading", !.left = Sources]
  /\ UNCHANGED <<tagged, offers, copy, followed>>

\* TrimPrefix: the version of a tag; 0: the release is none to offer.
Version(tag) == IF tag = 0 THEN 0 ELSE Plain[tag]

\* A release is on one page, read when that page is; once the pages have
\* shifted, one may be on none of those read.
ReadRelease(s) ==
  /\ syncing.step = "reading" /\ s \in syncing.left
  /\ syncing' = [syncing EXCEPT !.left = @ \ {s}, !.read[s] = Version(tagged[s])]
  /\ UNCHANGED <<tagged, offers, copy, followed>>

MissRelease(s) ==
  /\ syncing.step = "reading" /\ s \in syncing.left /\ syncing.shifted
  /\ syncing' = [syncing EXCEPT !.left = @ \ {s}]
  /\ UNCHANGED <<tagged, offers, copy, followed>>

\* Mutant: drafts and prereleases are copied too.
DraftsToo == Sources

\* Releases that are no draft, no prerelease, and have a version for a tag.
Listed == {s \in Sources : syncing.read[s] # 0}

\* SyncAppReleases begins its transaction.
BeginCopy ==
  /\ syncing.step = "reading" /\ syncing.left = {}
  /\ syncing' = [syncing EXCEPT !.step = "copying", !.left = Listed, !.shifted = FALSE]
  /\ UNCHANGED <<tagged, offers, copy, followed>>

\* The row that has the version is adopted with the policy it has,
Adopts(s, version) ==
  \E i \in RowsOf(copy, version) :
    copy' = [copy EXCEPT ![i].source = s, ![i].available = TRUE]

\* otherwise the row of the release is renamed: ON CONFLICT(source_id) DO UPDATE,
Renames(s, version) ==
  /\ RowsOf(copy, version) = {}
  /\ \E i \in RowsFrom(copy, s) :
       copy' = [copy EXCEPT ![i].version = version, ![i].available = TRUE]

\* or a row is inserted.
Inserts(s, version) ==
  /\ RowsOf(copy, version) = {} /\ RowsFrom(copy, s) = {}
  /\ \E i \in ReleaseRows : NextFree(i) /\ copy' = [copy EXCEPT ![i] = Row(version, s)]

\* UNIQUE(source_id)
OneRowEach(table) == \A s \in Sources : \A i, j \in RowsFrom(table, s) : i = j

\* One release of the listing, in the order of which the model makes nothing.  A
\* statement that a constraint refuses fails the synchronisation.
CopyRelease(s) ==
  /\ syncing.step = "copying" /\ s \in syncing.left
  /\ \/ Adopts(s, syncing.read[s]) \/ Renames(s, syncing.read[s]) \/ Inserts(s, syncing.read[s])
  /\ OneRowEach(copy')
  /\ syncing' = [syncing EXCEPT !.left = @ \ {s}]
  /\ UNCHANGED <<tagged, offers, followed>>

\* Mutant: a release that is no longer listed is left as it is.
LeftAvailable(table, listed) == table

\* source_available=false for every release that was not listed
Withheld(table, listed) ==
  [i \in ReleaseRows |->
    IF table[i].source \in Sources \ listed THEN [table[i] EXCEPT !.available = FALSE]
    ELSE table[i]]

\* The last statement of SyncAppReleases, and the commit.
CommitSync ==
  /\ syncing.step = "copying" /\ syncing.left = {}
  /\ offers' = Withheld(copy, Listed) /\ copy' = offers'
  /\ followed' = syncing.read
  /\ syncing' = NotSyncing
  /\ UNCHANGED tagged

\* No answer of the repository, a constraint or an error of the database.
SyncFails ==
  /\ syncing.step # "idle"
  /\ syncing' = NotSyncing /\ copy' = offers
  /\ UNCHANGED <<tagged, offers, followed>>

-----------------------------------------------------------------------------
(* The console: what it writes is committed at once, and a transaction that is open
   sees it.  What the transaction has written or the version it has given is
   waited for. *)

\* PublishAppRelease keeps the version as it was typed;
\* UNIQUE(version,channel,platform,arch) refuses a second one.
PublishAppRelease(version) ==
  /\ RowsOf(offers, version) = {} /\ RowsOf(copy, version) = {}
  /\ \E i \in ReleaseRows :
       /\ NextFree(i)
       /\ offers' = [offers EXCEPT ![i] = Row(version, NoSource)]
       /\ copy' = [copy EXCEPT ![i] = Row(version, NoSource)]
  /\ UNCHANGED <<tagged, syncing, followed>>

\* AdminSetReleaseState: enable, disable, and revoke, which is for good.
SetReleaseState(i, enabled, revoked) ==
  /\ offers[i] # Vacant /\ ~offers[i].revoked
  /\ offers[i].enabled # enabled \/ revoked
  /\ copy[i] = offers[i]
  /\ offers' = [offers EXCEPT ![i].enabled = enabled, ![i].revoked = revoked]
  /\ copy' = [copy EXCEPT ![i] = offers'[i]]
  /\ UNCHANGED <<tagged, syncing, followed>>

ReleasesNext ==
  \/ \E s \in Sources :
       \/ ReadRelease(s) \/ MissRelease(s) \/ CopyRelease(s)
       \/ \E tag \in Tags \union {0} : Tag(s, tag)
  \/ BeginSync \/ BeginCopy \/ CommitSync \/ SyncFails
  \/ \E version \in AppVersions : PublishAppRelease(version)
  \/ \E i \in ReleaseRows :
       SetReleaseState(i, TRUE, FALSE) \/ SetReleaseState(i, FALSE, FALSE) \/ SetReleaseState(i, FALSE, TRUE)

ReleasesSpec == ReleasesInit /\ [][ReleasesNext]_releasesVars
-----------------------------------------------------------------------------
(* Properties *)

\* The rows LatestAppRelease takes the latest of.
Offered == {i \in ReleaseRows : offers[i].enabled /\ offers[i].available /\ ~offers[i].revoked}

Offers == [version : 0..MaxVersion, source : Sources \union {NoSource},
           available : BOOLEAN, enabled : BOOLEAN, revoked : BOOLEAN]

ReleasesTypeOK ==
  /\ tagged \in Listings /\ followed \in Listings
  /\ offers \in [ReleaseRows -> Offers] /\ copy \in [ReleaseRows -> Offers]
  /\ syncing \in [step : {"idle", "reading", "copying"}, left : SUBSET Sources, read : Listings,
                  shifted : BOOLEAN]
  /\ \A i \in ReleaseRows : offers[i].version = 0 => offers[i] = Vacant

\* Clients are offered a text once, and one of the repository only as the last
\* listing that was copied has it, however releases are retagged, withdrawn,
\* published from the console or adopted, and whatever synchronisations fail.  A
\* version typed with a "v" is another text than the one without.
OfferedWasListed ==
  /\ \A i, j \in ReleaseRows :
       offers[i].version = offers[j].version /\ offers[i] # Vacant => i = j
  /\ \A i \in Offered : offers[i].source # NoSource => followed[offers[i].source] = offers[i].version
=============================================================================
