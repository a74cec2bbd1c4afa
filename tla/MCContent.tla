------------------------------ MODULE MCContent ------------------------------
(* The modules about content and its service, for TLC, in one run.  They share no *)
(* state: which of them moves is chosen at the start, and the others stay where  *)
(* they began.  The editing and the copying of articles, which meet only in the   *)
(* commits of the repository, move apart, and so do legal documents and policies, *)
(* which meet only in the restarts.                                               *)
EXTENDS Plugins, Storage, ConsoleUpdate, Home,
        Blog, Policies, Drafts, Releases

\* The third text is the first with a "v".
MCPlain == [text \in 1..MaxVersion |-> IF text = 3 THEN 1 ELSE text]

VARIABLE focus

vars == <<focus, pluginsVars, storageVars, updateVars, homeVars,
     blogVars, policiesVars, draftsVars, releasesVars>>

Init ==
  /\ focus \in {"plugins", "storage", "update", "home", "blog",
     "articles", "legal", "policies", "drafts", "releases"}
  /\ PluginsInit /\ StorageInit /\ UpdateInit /\ HomeInit
     /\ BlogInit /\ PoliciesInit /\ DraftsInit /\ ReleasesInit

Next ==
  /\ UNCHANGED focus
  /\ \/ /\ focus = "plugins" /\ PluginsNext
        /\ UNCHANGED <<storageVars, updateVars, homeVars, blogVars,
             policiesVars, draftsVars, releasesVars>>
     \/ /\ focus = "storage" /\ StorageNext
        /\ UNCHANGED <<pluginsVars, updateVars, homeVars, blogVars,
             policiesVars, draftsVars, releasesVars>>
     \/ /\ focus = "update" /\ UpdateNext
        /\ UNCHANGED <<pluginsVars, storageVars, homeVars, blogVars,
             policiesVars, draftsVars, releasesVars>>
     \/ /\ focus = "home" /\ HomeNext
        /\ UNCHANGED <<pluginsVars, storageVars, updateVars,
             blogVars, policiesVars, draftsVars, releasesVars>>
     \/ /\ \/ focus = "blog" /\ (SomebodyPushes \/ EditingNext)
           \/ focus = "articles" /\ (SomebodyPushes \/ CopyingNext)
        /\ UNCHANGED <<pluginsVars, storageVars, updateVars,
             homeVars, policiesVars, draftsVars, releasesVars>>
     \/ /\ \/ focus = "legal" /\ (LegalNext \/ Restart)
           \/ focus = "policies" /\ (PolicyNext \/ Restart)
        /\ UNCHANGED <<pluginsVars, storageVars, updateVars,
             homeVars, blogVars, draftsVars, releasesVars>>
     \/ /\ focus = "drafts" /\ DraftsNext
        /\ UNCHANGED <<pluginsVars, storageVars, updateVars,
             homeVars, blogVars, policiesVars, releasesVars>>
     \/ /\ focus = "releases" /\ ReleasesNext
        /\ UNCHANGED <<pluginsVars, storageVars, updateVars,
             homeVars, blogVars, policiesVars, draftsVars>>

Spec == Init /\ [][Next]_vars

\* Every variable of the eight modules has its type.
TypeOK ==
  /\ PluginsTypeOK /\ StorageTypeOK /\ UpdateTypeOK
     /\ HomeTypeOK /\ BlogTypeOK /\ PoliciesTypeOK /\ DraftsTypeOK /\ ReleasesTypeOK
=============================================================================
