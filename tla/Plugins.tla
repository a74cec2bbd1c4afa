------------------------------- MODULE Plugins -------------------------------
(***************************************************************************)
(* One plugin: uploads, the review of a version, metadata revisions and      *)
(* states set from the console, and what clients download.  Every operation *)
(* is one serializable transaction; the console acts on a page it read       *)
(* before.                                                                  *)
(***************************************************************************)
EXTENDS Naturals, Sequences

CONSTANTS
  Uploaders,   \* users who may hold the id of the plugin
  NoUploader,  \* nobody does
  MaxVersions  \* bound of the model on the versions of one plugin

ASSUME PluginsAssumption == NoUploader \notin Uploaders /\ MaxVersions \in Nat

VARIABLES
  plugin,    \* the plugins row; package is the upload its package_sha256 is of
  versions,  \* plugin_versions by revision_no
  notified,  \* per version: messages made by the transaction that decided it
  forced,    \* the state was set from the console since the last upload or review
  shown      \* the pending version the page in the console shows (0: none)

pluginsVars == <<plugin, versions, notified, forced, shown>>

PluginStates == {"pending", "listed", "rejected", "delisted"}

NoPage == MaxVersions + 1

NoPlugin == [owner |-> NoUploader, state |-> "pending", package |-> 0, current |-> 0, pending |-> 0]

PluginsInit ==
  /\ plugin = NoPlugin /\ versions = <<>> /\ notified = <<>>
  /\ forced = FALSE /\ shown = NoPage

PluginExists == plugin.owner # NoUploader

SetVersion(i, state) == [versions EXCEPT ![i].state = state]

-----------------------------------------------------------------------------
(* Uploaders *)

\* Mutant: a version that waits is left as it is.
AsTheyWere == versions

\* The pending version gives way to the new one.
WithoutPending ==
  IF plugin.pending = 0 THEN versions ELSE SetVersion(plugin.pending, "superseded")

\* A row of plugin_versions for the package.
NewVersion(old, package, via) == Append(old, [state |-> "pending", package |-> package, via |-> via])

\* UpsertPlugin: a plugin without a live version takes the upload and waits for
\* review; the id of somebody else is refused.
UpsertPlugin(u) ==
  /\ plugin.owner \in {u, NoUploader} /\ Len(versions) < MaxVersions
  /\ LET n == Len(versions) + 1 IN
       /\ versions' = NewVersion(WithoutPending, n, "uploader")
       /\ plugin' = IF plugin.current = 0
                    THEN [owner |-> u, state |-> "pending", package |-> n, current |-> 0, pending |-> n]
                    ELSE [plugin EXCEPT !.pending = n]
  /\ notified' = Append(notified, 0)
  /\ forced' = (forced /\ plugin.current # 0)
  /\ UNCHANGED shown

\* DeletePlugin; the versions go with the row, and anybody may take the id.  A
\* page that is open shows none of the versions to come.
DeletePlugin(u) ==
  /\ plugin.owner = u
  /\ plugin' = NoPlugin /\ versions' = <<>> /\ notified' = <<>>
  /\ forced' = FALSE /\ shown' = IF shown = NoPage THEN NoPage ELSE 0

-----------------------------------------------------------------------------
(* The console *)

\* AdminPluginV2
ShowPlugin ==
  /\ PluginExists
  /\ shown' = plugin.pending
  /\ UNCHANGED <<plugin, versions, notified, forced>>

\* "plugin already has a pending version"
NoneWaits == PluginExists /\ plugin.pending = 0

\* AdminCreatePluginMetadataRevision: new words for the package of the row.
CreateMetadataRevision ==
  /\ NoneWaits /\ Len(versions) < MaxVersions
  /\ versions' = NewVersion(versions, plugin.package, "admin")
  /\ plugin' = [plugin EXCEPT !.pending = Len(versions) + 1]
  /\ notified' = Append(notified, 0)
  /\ UNCHANGED <<forced, shown>>

\* The trigger notify_plugin_moderation
Triggers(from, to) == from # to /\ to # "pending"

\* triggerNotifies of setPluginState
TriggerNotifies(state) ==
  \/ state = "listed" /\ plugin.state # "listed"
  \/ state = "rejected" /\ plugin.current = 0 /\ plugin.state # "rejected"

\* setPluginState with a version that waits: it is listed in place of the one
\* before, or rejected, and the plugin with it when nothing of it is live.
Decide(state) ==
  LET i == plugin.pending
      new == IF state = "listed"
             THEN [plugin EXCEPT !.state = "listed", !.package = versions[i].package,
                                 !.current = i, !.pending = 0]
             ELSE [plugin EXCEPT !.pending = 0,
                                 !.state = IF plugin.current = 0 THEN "rejected" ELSE @]
  IN
  /\ i # 0
  /\ versions' = [j \in DOMAIN versions |->
       IF j = i THEN [versions[j] EXCEPT !.state = state]
       ELSE IF state = "listed" /\ versions[j].state = "listed"
            THEN [versions[j] EXCEPT !.state = "superseded"] ELSE versions[j]]
  /\ plugin' = new
  /\ notified' = [notified EXCEPT ![i] = (IF Triggers(plugin.state, new.state) THEN 1 ELSE 0)
                                       + (IF TriggerNotifies(state) THEN 0 ELSE 1)]

\* HandleAdminAPIPluginReview and ReviewPluginVersion: the request names the
\* version the console shows.
ReviewPluginVersion(state) ==
  /\ shown \notin {0, NoPage} /\ plugin.pending = shown
  /\ Decide(state)
  /\ forced' = FALSE
  /\ UNCHANGED shown

\* HandleAdminAPIPluginStateJSON and SetPluginState name no version: one that
\* waits is decided, otherwise the state is what it is set to.
SetPluginState(state) ==
  /\ PluginExists /\ shown # NoPage
  /\ IF plugin.pending # 0 /\ state \in {"listed", "rejected"}
     THEN Decide(state) /\ forced' = FALSE
     ELSE /\ plugin' = [plugin EXCEPT !.state = state]
          /\ forced' = TRUE
          /\ UNCHANGED <<versions, notified>>
  /\ UNCHANGED shown

PluginsNext ==
  \/ \E u \in Uploaders : UpsertPlugin(u) \/ DeletePlugin(u)
  \/ ShowPlugin \/ CreateMetadataRevision
  \/ \E state \in {"listed", "rejected"} : ReviewPluginVersion(state)
  \/ \E state \in PluginStates : SetPluginState(state)

PluginsSpec == PluginsInit /\ [][PluginsNext]_pluginsVars
-----------------------------------------------------------------------------
(* What clients see *)

\* handlePluginPackage: the upload that is downloaded; 0: none.
ServedPackage == IF PluginExists /\ plugin.state = "listed" THEN plugin.package ELSE 0

-----------------------------------------------------------------------------
(* Properties *)

VersionIds == 0..MaxVersions

PluginsTypeOK ==
  /\ plugin \in [owner : Uploaders \union {NoUploader}, state : PluginStates,
                 package : VersionIds, current : VersionIds, pending : VersionIds]
  /\ versions \in Seq([state : {"pending", "listed", "rejected", "superseded"},
                       package : VersionIds, via : {"uploader", "admin"}])
  /\ notified \in [DOMAIN versions -> Nat]
  /\ forced \in BOOLEAN /\ shown \in VersionIds \union {NoPage}

VersionsIn(state) == {i \in DOMAIN versions : versions[i].state = state}

\* Whatever the order of uploads, reviews and states set from the console: the
\* version that waits is the newest and the one the plugin names; the live one
\* is the only one listed, and its package is what is downloaded; a metadata
\* revision never brings back an older package; and the uploader is told
\* exactly once of every decision.  Only a state set from the console lists a
\* plugin none of whose versions was approved.
PluginFollowsItsVersions ==
  /\ VersionsIn("pending") = {plugin.pending} \ {0}
  /\ plugin.pending # 0 => plugin.pending = Len(versions)
  /\ VersionsIn("listed") = {plugin.current} \ {0}
  /\ ServedPackage # 0 =>
       IF plugin.current = 0 THEN forced ELSE ServedPackage = versions[plugin.current].package
  /\ plugin.pending # 0 /\ versions[plugin.pending].via = "admin" =>
       versions[plugin.pending].package = plugin.package
  /\ \A i \in VersionsIn("listed") \union VersionsIn("rejected") : notified[i] = 1
=============================================================================
