----------------------------- MODULE ContentProofs -----------------------------
(***************************************************************************)
(* Proofs about the modules of what is offered and read: plugins, drafts of *)
(* resources, articles, the home page and releases of the app; and about the *)
(* run of MCContent, which puts them and the modules of the server in one.  *)
(***************************************************************************)
EXTENDS MCContent, ServerProofs, WellFoundedInduction

-----------------------------------------------------------------------------
(* Plugins *)

VersionRecords == [state : {"pending", "listed", "rejected", "superseded"},
                   package : VersionIds, via : {"uploader", "admin"}]
PluginRecords == [owner : Uploaders \union {NoUploader}, state : PluginStates,
                  package : VersionIds, current : VersionIds, pending : VersionIds]

(* One row of plugin_versions and one count of messages for each revision. *)
RowsInStep ==
  /\ versions \in Seq(VersionRecords) /\ Len(versions) \in VersionIds
  /\ notified \in Seq(Nat) /\ Len(notified) = Len(versions)
  /\ plugin \in PluginRecords
  /\ forced \in BOOLEAN /\ shown \in VersionIds \union {NoPage}

(* The version that waits is the newest, and the one the plugin names. *)
NewestWaits ==
  /\ plugin.pending \in {0, Len(versions)}
  /\ \A i \in 1..Len(versions) : versions[i].state = "pending" <=> i = plugin.pending

(* The live version is the one listed; its package is that of the plugin. *)
LiveIsListed ==
  /\ plugin.current \in 0..Len(versions)
  /\ \A i \in 1..Len(versions) : versions[i].state = "listed" <=> i = plugin.current
  /\ plugin.current # 0 => plugin.package = versions[plugin.current].package

(* Without a live version only the console lists a plugin. *)
ListedByForce == plugin.state = "listed" /\ plugin.current = 0 => forced

(* New words are words for the package of the plugin. *)
WordsKeepPackage ==
  plugin.pending # 0 /\ versions[plugin.pending].via = "admin" =>
    versions[plugin.pending].package = plugin.package

(* Of each decision the uploader is told once. *)
ToldOnce == \A i \in 1..Len(versions) : versions[i].state \in {"listed", "rejected"} => notified[i] = 1

PluginsInv ==
  RowsInStep /\ NewestWaits /\ LiveIsListed /\ ListedByForce /\ WordsKeepPackage /\ ToldOnce

(* What the invariant says of the properties that the run checks. *)
LEMMA PluginsInvSuffices == PluginsInv => PluginsTypeOK /\ PluginFollowsItsVersions
<1> SUFFICES ASSUME PluginsInv PROVE PluginsTypeOK /\ PluginFollowsItsVersions
  OBVIOUS
<1> USE DEF PluginsInv
<1>1. DOMAIN versions = 1..Len(versions) /\ Len(versions) \in Nat
  BY DEF RowsInStep
<1>2. notified \in [DOMAIN versions -> Nat]
  BY <1>1 DEF RowsInStep
<1>3. PluginsTypeOK
  BY <1>2 DEF RowsInStep, PluginsTypeOK, VersionRecords, PluginRecords
<1>4. VersionsIn("pending") = {plugin.pending} \ {0}
  BY <1>1 DEF VersionsIn, NewestWaits
<1>5. VersionsIn("listed") = {plugin.current} \ {0}
  BY <1>1 DEF VersionsIn, LiveIsListed
<1>6. ServedPackage # 0 =>
        IF plugin.current = 0 THEN forced ELSE ServedPackage = versions[plugin.current].package
  BY DEF ServedPackage, LiveIsListed, ListedByForce
<1>7. \A i \in VersionsIn("listed") \union VersionsIn("rejected") : notified[i] = 1
  BY <1>1 DEF VersionsIn, ToldOnce
<1>8. (plugin.pending # 0 => plugin.pending = Len(versions))
      /\ (plugin.pending # 0 /\ versions[plugin.pending].via = "admin" =>
            versions[plugin.pending].package = plugin.package)
  BY DEF NewestWaits, WordsKeepPackage
<1> QED
  BY <1>3, <1>4, <1>5, <1>6, <1>7, <1>8 DEF PluginFollowsItsVersions

(* Nothing is uploaded at the start. *)
LEMMA PluginsInvInit == PluginsInit => PluginsInv
<1> SUFFICES ASSUME PluginsInit PROVE PluginsInv
  OBVIOUS
<1>1. /\ versions = <<>> /\ notified = <<>> /\ plugin = NoPlugin /\ shown = NoPage
      /\ plugin.state = "pending" /\ plugin.pending = 0 /\ plugin.current = 0
  BY DEF PluginsInit, NoPlugin
<1>2. forced \in BOOLEAN
  BY DEF PluginsInit
<1>3. plugin \in PluginRecords
  BY <1>1, PluginsAssumption DEF NoPlugin, PluginRecords, PluginStates, VersionIds
<1>4. /\ versions \in Seq(VersionRecords) /\ Len(versions) = 0
      /\ notified \in Seq(Nat) /\ Len(notified) = 0 /\ 0 \in VersionIds
  BY <1>1, PluginsAssumption DEF VersionIds
<1>5. RowsInStep
  BY <1>1, <1>2, <1>3, <1>4 DEF RowsInStep
<1> QED
  BY <1>1, <1>4, <1>5 DEF PluginsInv, NewestWaits, LiveIsListed, ListedByForce,
       WordsKeepPackage, ToldOnce

(* A function of the numbers up to n is a sequence of length n. *)
LEMMA FunctionIsSequence ==
  ASSUME NEW S, NEW n \in Nat, NEW f, DOMAIN f = 1..n, \A i \in 1..n : f[i] \in S,
         f = [i \in 1..n |-> f[i]]
  PROVE  f \in Seq(S) /\ Len(f) = n
  OBVIOUS

(* A sequence and one element more. *)
LEMMA AppendOne ==
  ASSUME NEW S, NEW f \in Seq(S), NEW e \in S
  PROVE  /\ Append(f, e) \in Seq(S) /\ Len(Append(f, e)) = Len(f) + 1
         /\ Append(f, e)[Len(f) + 1] = e
         /\ \A i \in 1..Len(f) : Append(f, e)[i] = f[i]
  OBVIOUS

(* The version that waits gives way; every other stays as it is. *)
LEMMA GivesWay ==
  ASSUME PluginsInv
  PROVE  /\ WithoutPending \in Seq(VersionRecords) /\ Len(WithoutPending) = Len(versions)
         /\ \A i \in 1..Len(versions) :
              /\ i # plugin.pending => WithoutPending[i] = versions[i]
              /\ WithoutPending[i].state = IF i = plugin.pending THEN "superseded" ELSE versions[i].state
              /\ WithoutPending[i].package = versions[i].package
<1> DEFINE p == plugin.pending
<1>1. /\ versions \in Seq(VersionRecords) /\ Len(versions) \in Nat
      /\ DOMAIN versions = 1..Len(versions) /\ \A i \in 1..Len(versions) : versions[i] \in VersionRecords
  BY DEF PluginsInv, RowsInStep
<1>2. CASE p = 0
  BY <1>1, <1>2 DEF WithoutPending
<1>3. CASE p # 0
  <2>1. p = Len(versions) /\ p \in 1..Len(versions)
    BY <1>1, <1>3 DEF PluginsInv, NewestWaits
  <2>2. PICK record \in VersionRecords : record = [versions[p] EXCEPT !.state = "superseded"]
    BY <1>1, <2>1 DEF VersionRecords
  <2>3. record.state = "superseded" /\ record.package = versions[p].package
    BY <1>1, <2>1, <2>2 DEF VersionRecords
  <2>4. WithoutPending = [versions EXCEPT ![p] = record]
    BY <1>3, <2>2 DEF WithoutPending, SetVersion
  <2> HIDE DEF p
  <2>5. /\ WithoutPending \in Seq(VersionRecords) /\ Len(WithoutPending) = Len(versions)
        /\ \A i \in 1..Len(versions) : WithoutPending[i] = IF i = p THEN record ELSE versions[i]
    BY <1>1, <2>1, <2>4
  <2> QED
    BY <2>3, <2>5 DEF p
<1> QED
  BY <1>2, <1>3

(* An upload, or new words: one version more, which waits. *)
LEMMA NewVersionKeeps ==
  ASSUME PluginsInv, Len(versions) < MaxVersions,
         NEW old \in Seq(VersionRecords), Len(old) = Len(versions),
         \A i \in 1..Len(versions) :
           /\ old[i].state = IF i = plugin.pending THEN "superseded" ELSE versions[i].state
           /\ old[i].package = versions[i].package,
         NEW package \in VersionIds, NEW via \in {"uploader", "admin"},
         versions' = NewVersion(old, package, via),
         notified' = Append(notified, 0),
         plugin' \in PluginRecords, plugin'.pending = Len(versions) + 1,
         plugin'.current = plugin.current,
         plugin.current # 0 => plugin'.package = plugin.package,
         via = "admin" => plugin'.package = package,
         forced' \in BOOLEAN, ListedByForce', UNCHANGED shown
  PROVE  PluginsInv'
<1> DEFINE record == [state |-> "pending", package |-> package, via |-> via]
           n == Len(versions)
<1>1. record \in VersionRecords /\ record.state = "pending" /\ record.package = package /\ record.via = via
  BY DEF VersionRecords
<1>2. n \in Nat /\ n + 1 \in VersionIds /\ notified \in Seq(Nat) /\ Len(notified) = n
      /\ plugin.pending \in {0, n} /\ plugin.current \in 0..n
  BY PluginsAssumption DEF PluginsInv, RowsInStep, VersionIds, NewestWaits, LiveIsListed
<1>3. versions' = Append(old, record)
  BY DEF NewVersion
<1> HIDE DEF record, n
<1>4. /\ versions' \in Seq(VersionRecords) /\ Len(versions') = n + 1
      /\ versions'[n + 1] = record /\ \A i \in 1..n : versions'[i] = old[i]
  BY <1>1, <1>3, AppendOne DEF n
<1>5. /\ notified' \in Seq(Nat) /\ Len(notified') = n + 1
      /\ \A i \in 1..n : notified'[i] = notified[i]
  BY <1>2, AppendOne
<1>6. \A i \in 1..n :
        /\ versions'[i].state = IF i = plugin.pending THEN "superseded" ELSE versions[i].state
        /\ versions'[i].package = versions[i].package
  BY <1>4 DEF n
<1>7. \A i \in 1..(n + 1) : i \in 1..n \/ i = n + 1
  BY <1>2
<1>8. RowsInStep'
  BY <1>2, <1>4, <1>5 DEF RowsInStep, PluginsInv, VersionIds, NoPage
<1>9. NewestWaits'
  <2>1. \A i \in 1..n : versions'[i].state # "pending"
    BY <1>6 DEF PluginsInv, NewestWaits, n
  <2> QED
    BY <1>1, <1>2, <1>4, <1>7, <2>1 DEF NewestWaits, n
<1>10. LiveIsListed'
  <2>1. \A i \in 1..n : versions'[i].state = "listed" <=> i = plugin.current
    BY <1>6 DEF PluginsInv, NewestWaits, LiveIsListed, n
  <2>2. plugin.current # n + 1 /\ plugin.current \in 0..(n + 1)
    BY <1>2
  <2>3. plugin.current # 0 => plugin'.package = versions'[plugin.current].package
    BY <1>2, <1>6 DEF PluginsInv, LiveIsListed
  <2> QED
    BY <1>1, <1>4, <1>7, <2>1, <2>2, <2>3 DEF LiveIsListed
<1>11. WordsKeepPackage'
  BY <1>1, <1>4 DEF WordsKeepPackage, n
<1>12. ToldOnce'
  BY <1>1, <1>4, <1>5, <1>6, <1>7 DEF PluginsInv, ToldOnce, n
<1> QED
  BY <1>8, <1>9, <1>10, <1>11, <1>12 DEF PluginsInv

(* An upload takes the place of the version that waits. *)
LEMMA UploadKeeps ==
  ASSUME PluginsInv, NEW u \in Uploaders, UpsertPlugin(u)
  PROVE  PluginsInv'
<1>1. PICK n \in Nat : n = Len(versions) + 1
  BY DEF PluginsInv, RowsInStep
<1>2. n \in VersionIds /\ Len(versions) < MaxVersions
  BY <1>1, PluginsAssumption DEF UpsertPlugin, VersionIds, PluginsInv, RowsInStep
<1>3. PICK old \in Seq(VersionRecords) : old = WithoutPending
  BY GivesWay
<1>4. Len(old) = Len(versions)
      /\ \A i \in 1..Len(versions) :
           /\ old[i].state = IF i = plugin.pending THEN "superseded" ELSE versions[i].state
           /\ old[i].package = versions[i].package
  BY <1>3, GivesWay
<1>5. versions' = NewVersion(old, n, "uploader") /\ notified' = Append(notified, 0) /\ UNCHANGED shown
  BY <1>1, <1>3 DEF UpsertPlugin
<1>6. plugin \in PluginRecords /\ forced \in BOOLEAN /\ plugin.current \in VersionIds
  BY DEF PluginsInv, RowsInStep, PluginRecords
<1>7. CASE plugin.current = 0
  <2>1. plugin' = [owner |-> u, state |-> "pending", package |-> n, current |-> 0, pending |-> n]
    BY <1>1, <1>7 DEF UpsertPlugin
  <2>2. plugin' \in PluginRecords /\ plugin'.pending = n /\ plugin'.current = 0 /\ plugin'.state = "pending"
    BY <1>2, <2>1, PluginsAssumption DEF PluginRecords, PluginStates, VersionIds
  <2>3. forced' = FALSE
    BY <1>7 DEF UpsertPlugin
  <2>4. ListedByForce'
    BY <2>2 DEF ListedByForce
  <2>5. forced' \in BOOLEAN
    BY <2>3
  <2> QED
    BY <1>1, <1>2, <1>4, <1>5, <1>7, <2>2, <2>4, <2>5, NewVersionKeeps
<1>8. CASE plugin.current # 0
  <2>1. plugin' = [plugin EXCEPT !.pending = n]
    BY <1>1, <1>8 DEF UpsertPlugin
  <2>2. /\ plugin' \in PluginRecords /\ plugin'.pending = n /\ plugin'.current = plugin.current
        /\ plugin'.package = plugin.package
    BY <1>2, <1>6, <2>1 DEF PluginRecords
  <2>3. forced' = forced
    BY <1>6, <1>8 DEF UpsertPlugin
  <2>4. ListedByForce'
    BY <1>8, <2>2 DEF ListedByForce
  <2>5. forced' \in BOOLEAN
    BY <1>6, <2>3
  <2> QED
    BY <1>1, <1>2, <1>4, <1>5, <2>2, <2>4, <2>5, NewVersionKeeps
<1> QED
  BY <1>7, <1>8

(* A metadata revision waits with the package of the plugin. *)
LEMMA WordsKeep ==
  ASSUME PluginsInv, CreateMetadataRevision
  PROVE  PluginsInv'
<1>1. /\ plugin \in PluginRecords /\ versions \in Seq(VersionRecords) /\ plugin.pending = 0
      /\ forced \in BOOLEAN /\ Len(versions) \in Nat /\ Len(versions) < MaxVersions
      /\ Len(versions) + 1 \in VersionIds
  BY PluginsAssumption DEF PluginsInv, RowsInStep, CreateMetadataRevision, NoneWaits, VersionIds
<1>2. PICK old \in Seq(VersionRecords) : old = versions
  BY <1>1
<1>3. PICK package \in VersionIds : package = plugin.package
  BY <1>1 DEF PluginRecords
<1>4. Len(old) = Len(versions)
      /\ \A i \in 1..Len(versions) :
           /\ old[i].state = IF i = plugin.pending THEN "superseded" ELSE versions[i].state
           /\ old[i].package = versions[i].package
  BY <1>1, <1>2
<1>5. /\ versions' = NewVersion(old, package, "admin") /\ notified' = Append(notified, 0)
      /\ plugin' = [plugin EXCEPT !.pending = Len(versions) + 1] /\ UNCHANGED shown
  BY <1>2, <1>3 DEF CreateMetadataRevision
<1>6. /\ plugin' \in PluginRecords /\ plugin'.pending = Len(versions) + 1
      /\ plugin'.current = plugin.current /\ plugin'.package = plugin.package /\ plugin'.state = plugin.state
  BY <1>1, <1>5 DEF PluginRecords
<1>7. forced' = forced
  BY DEF CreateMetadataRevision
<1>8. forced' \in BOOLEAN
  BY <1>1, <1>7
<1>9. ListedByForce'
  BY <1>6, <1>7 DEF ListedByForce, PluginsInv
<1> QED
  BY <1>1, <1>3, <1>4, <1>5, <1>6, <1>8, <1>9, NewVersionKeeps

(* A decision of the version that waits. *)
LEMMA DecisionKeeps ==
  ASSUME PluginsInv, NEW state \in {"listed", "rejected"}, Decide(state), forced' = FALSE, UNCHANGED shown
  PROVE  PluginsInv'
<1> DEFINE n == Len(versions)
           p == plugin.pending
<1>1. /\ versions \in Seq(VersionRecords) /\ n \in VersionIds /\ n \in Nat
      /\ DOMAIN versions = 1..n /\ \A i \in 1..n : versions[i] \in VersionRecords
      /\ notified \in Seq(Nat) /\ Len(notified) = n /\ plugin \in PluginRecords
      /\ shown' \in VersionIds \union {NoPage}
  BY DEF PluginsInv, RowsInStep, VersionIds, NoPage
<1>2. p # 0 /\ p = n /\ p \in 1..n /\ p \in VersionIds /\ versions[p].package \in VersionIds
  BY <1>1 DEF Decide, PluginsInv, NewestWaits, VersionRecords
<1>3. /\ plugin.current # p
      /\ \A i \in 1..n : i # p /\ versions[i].state = "listed" <=> i # p /\ i = plugin.current
      /\ plugin.current \in 0..n /\ plugin.state \in PluginStates
  BY <1>1, <1>2 DEF PluginsInv, NewestWaits, LiveIsListed, PluginRecords
<1>4. plugin' = IF state = "listed"
                THEN [plugin EXCEPT !.state = "listed", !.package = versions[p].package,
                                    !.current = p, !.pending = 0]
                ELSE [plugin EXCEPT !.pending = 0,
                                    !.state = IF plugin.current = 0 THEN "rejected" ELSE @]
  BY DEF Decide
<1>5. versions' = [j \in 1..n |->
        IF j = p THEN [versions[j] EXCEPT !.state = state]
        ELSE IF state = "listed" /\ versions[j].state = "listed"
             THEN [versions[j] EXCEPT !.state = "superseded"] ELSE versions[j]]
  BY <1>1 DEF Decide
<1>6. /\ plugin' \in PluginRecords /\ plugin'.pending = 0
      /\ state = "listed" => /\ plugin'.current = p /\ plugin'.package = versions[p].package
                             /\ plugin'.state = "listed"
      /\ state = "rejected" => /\ plugin'.current = plugin.current /\ plugin'.package = plugin.package
                               /\ plugin'.state = IF plugin.current = 0 THEN "rejected" ELSE plugin.state
  <2>0. 0 \in VersionIds /\ {"listed", "rejected"} \subseteq PluginStates
    BY PluginsAssumption DEF VersionIds, PluginStates
  <2>1. CASE state = "listed"
    <3>1. PICK v \in VersionIds, package \in VersionIds : v = p /\ package = versions[p].package
      BY <1>2
    <3>2. plugin' = [plugin EXCEPT !.state = "listed", !.package = package, !.current = v, !.pending = 0]
      BY <1>4, <2>1, <3>1
    <3>3. /\ plugin' \in PluginRecords /\ plugin'.pending = 0 /\ plugin'.current = v
          /\ plugin'.package = package /\ plugin'.state = "listed"
      BY <1>1, <2>0, <3>2 DEF PluginRecords
    <3> QED
      BY <2>1, <3>1, <3>3
  <2>2. CASE state = "rejected"
    <3>1. PICK s \in PluginStates : s = IF plugin.current = 0 THEN "rejected" ELSE plugin.state
      BY <1>3, <2>0
    <3>2. plugin' = [plugin EXCEPT !.pending = 0, !.state = s]
      BY <1>4, <2>2, <3>1
    <3>3. /\ plugin' \in PluginRecords /\ plugin'.pending = 0 /\ plugin'.current = plugin.current
          /\ plugin'.package = plugin.package /\ plugin'.state = s
      BY <1>1, <2>0, <3>2 DEF PluginRecords
    <3> QED
      BY <2>2, <3>1, <3>3
  <2> QED
    BY <2>1, <2>2
<1>7. \A r \in VersionRecords : \A s \in {"listed", "rejected", "superseded"} :
        LET x == [r EXCEPT !.state = s] IN
        x \in VersionRecords /\ x.state = s /\ x.package = r.package
  BY DEF VersionRecords
<1>8. notified' = [notified EXCEPT ![p] = 1]
  <2>1. (IF Triggers(plugin.state, plugin'.state) THEN 1 ELSE 0)
          + (IF TriggerNotifies(state) THEN 0 ELSE 1) = 1
    <3>1. CASE state = "listed"
      BY <1>6, <3>1 DEF Triggers, TriggerNotifies
    <3>2. CASE state = "rejected"
      BY <1>6, <3>2 DEF Triggers, TriggerNotifies
    <3> QED
      BY <3>1, <3>2
  <2>2. notified' = [notified EXCEPT ![p] = (IF Triggers(plugin.state, plugin'.state) THEN 1 ELSE 0)
                                            + (IF TriggerNotifies(state) THEN 0 ELSE 1)]
    BY DEF Decide
  <2> QED
    BY <2>1, <2>2
<1> HIDE DEF n, p
<1>9. \A i \in 1..n :
        /\ versions'[i] \in VersionRecords
        /\ versions'[i].package = versions[i].package
        /\ versions'[i].state = IF i = p THEN state
                                ELSE IF state = "listed" /\ i = plugin.current
                                     THEN "superseded" ELSE versions[i].state
  <2> SUFFICES ASSUME NEW i \in 1..n
               PROVE  /\ versions'[i] \in VersionRecords
                      /\ versions'[i].package = versions[i].package
                      /\ versions'[i].state = IF i = p THEN state
                                              ELSE IF state = "listed" /\ i = plugin.current
                                                   THEN "superseded" ELSE versions[i].state
    OBVIOUS
  <2>1. versions[i] \in VersionRecords
    BY <1>1
  <2>2. CASE i = p
    <3>1. versions'[i] = [versions[i] EXCEPT !.state = state]
      BY <1>5, <2>2
    <3>2. CASE state = "listed"
      <4>1. versions'[i] = [versions[i] EXCEPT !.state = "listed"]
        BY <3>1, <3>2
      <4>2. /\ versions'[i] \in VersionRecords /\ versions'[i].state = "listed"
            /\ versions'[i].package = versions[i].package
        BY <1>7, <2>1, <4>1
      <4> QED
        BY <2>2, <3>2, <4>2
    <3>3. CASE state = "rejected"
      <4>1. versions'[i] = [versions[i] EXCEPT !.state = "rejected"]
        BY <3>1, <3>3
      <4>2. /\ versions'[i] \in VersionRecords /\ versions'[i].state = "rejected"
            /\ versions'[i].package = versions[i].package
        BY <1>7, <2>1, <4>1
      <4> QED
        BY <2>2, <3>3, <4>2
    <3> QED
      BY <3>2, <3>3
  <2>3. CASE i # p /\ state = "listed" /\ i = plugin.current
    <3>1. versions'[i] = [versions[i] EXCEPT !.state = "superseded"]
      BY <1>3, <1>5, <2>3
    <3>2. /\ versions'[i] \in VersionRecords /\ versions'[i].state = "superseded"
          /\ versions'[i].package = versions[i].package
      BY <1>7, <2>1, <3>1
    <3> QED
      BY <2>3, <3>2
  <2>4. CASE i # p /\ ~(state = "listed" /\ i = plugin.current)
    <3>1. versions'[i] = versions[i]
      BY <1>3, <1>5, <2>4
    <3> QED
      BY <2>1, <2>4, <3>1
  <2> QED
    BY <2>2, <2>3, <2>4
<1>10. DOMAIN versions' = 1..n /\ versions' = [i \in 1..n |-> versions'[i]]
  BY <1>5
<1>11. versions' \in Seq(VersionRecords) /\ Len(versions') = n
  BY <1>1, <1>9, <1>10, FunctionIsSequence
<1>12. /\ notified' \in Seq(Nat) /\ Len(notified') = n
       /\ \A i \in 1..n : notified'[i] = IF i = p THEN 1 ELSE notified[i]
  <2>1. PICK told \in Seq(Nat) : told = notified
    BY <1>1
  <2>2. Len(told) = n /\ p \in 1..Len(told) /\ 1 \in Nat
    BY <1>1, <1>2, <2>1
  <2>3. \A t \in Seq(Nat) : \A q \in 1..Len(t) :
          /\ [t EXCEPT ![q] = 1] \in Seq(Nat) /\ Len([t EXCEPT ![q] = 1]) = Len(t)
          /\ \A i \in 1..Len(t) : [t EXCEPT ![q] = 1][i] = IF i = q THEN 1 ELSE t[i]
    OBVIOUS
  <2> QED
    BY <1>8, <2>1, <2>2, <2>3
<1>13. forced' \in BOOLEAN
  OBVIOUS
<1>14. RowsInStep'
  BY <1>1, <1>6, <1>11, <1>12, <1>13 DEF RowsInStep, VersionIds, NoPage
<1>15. NewestWaits'
  <2>1. \A i \in 1..n : versions[i].state = "pending" <=> i = p
    BY DEF NewestWaits, PluginsInv, n, p
  <2>2. \A i \in 1..n : versions'[i].state # "pending"
    BY <1>9, <2>1
  <2>3. n \in Nat /\ plugin'.pending = 0 /\ Len(versions') = n
    BY <1>1, <1>6, <1>11
  <2>4. \A i \in 1..n : i # 0
    BY <2>3
  <2> QED
    BY <2>2, <2>3, <2>4 DEF NewestWaits
<1>16. LiveIsListed'
  <2>1. CASE state = "listed"
    <3>1. /\ Len(versions') = n /\ plugin'.current = p /\ p \in 1..n
          /\ plugin'.package = versions[p].package
      BY <1>2, <1>6, <1>11, <2>1
    <3>2. \A i \in 1..n : versions'[i].state = "listed" <=> i = p
      BY <1>3, <1>9, <2>1
    <3>3. versions'[p].package = versions[p].package
      BY <1>9, <3>1
    <3>4. n \in Nat
      BY <1>11
    <3> QED
      BY <3>1, <3>2, <3>3, <3>4 DEF LiveIsListed
  <2>2. CASE state = "rejected"
    <3>1. \A i \in 1..n : versions'[i].state = "listed" <=> i = plugin.current
      BY <1>2, <1>3, <1>9, <2>2
    <3>2. plugin.current # 0 => plugin.package = versions[plugin.current].package
      BY DEF LiveIsListed, PluginsInv
    <3> QED
      <4>1. /\ Len(versions') = n /\ n \in Nat /\ plugin'.current = plugin.current
            /\ plugin'.package = plugin.package /\ plugin.current \in 0..n
        BY <1>1, <1>3, <1>6, <1>11, <2>2
      <4>2. plugin.current # 0 => versions'[plugin.current].package = versions[plugin.current].package
        BY <1>9, <4>1
      <4> QED
        BY <3>1, <3>2, <4>1, <4>2 DEF LiveIsListed
  <2> QED
    BY <2>1, <2>2
<1>17. ListedByForce'
  BY <1>2, <1>6 DEF ListedByForce, PluginsInv
<1>18. WordsKeepPackage'
  BY <1>6 DEF WordsKeepPackage
<1>19. ToldOnce'
  BY <1>9, <1>11, <1>12 DEF ToldOnce, PluginsInv, n
<1> QED
  BY <1>14, <1>15, <1>16, <1>17, <1>18, <1>19 DEF PluginsInv

(* Steps that decide nothing keep the versions as they are. *)
LEMMA OthersKeep ==
  ASSUME PluginsInv, plugin' \in PluginRecords, UNCHANGED <<versions, notified>>,
         plugin'.pending = plugin.pending, plugin'.current = plugin.current, plugin'.package = plugin.package,
         forced' \in BOOLEAN, ListedByForce', shown' \in VersionIds \union {NoPage}
  PROVE  PluginsInv'
<1>1. RowsInStep'
  BY DEF PluginsInv, RowsInStep, VersionIds, NoPage
<1> QED
  BY <1>1 DEF PluginsInv, NewestWaits, LiveIsListed, WordsKeepPackage, ToldOnce

(* The rows go with the plugin. *)
LEMMA DeletionKeeps ==
  ASSUME PluginsInv, NEW u \in Uploaders, DeletePlugin(u)
  PROVE  PluginsInv'
<1>1. /\ versions' = <<>> /\ notified' = <<>> /\ plugin' = NoPlugin
      /\ plugin'.state = "pending" /\ plugin'.pending = 0 /\ plugin'.current = 0
      /\ shown' \in {0, NoPage}
  BY DEF DeletePlugin, NoPlugin
<1>2. forced' \in BOOLEAN
  BY DEF DeletePlugin
<1>3. plugin' \in PluginRecords /\ 0 \in VersionIds
  BY <1>1, PluginsAssumption DEF NoPlugin, PluginRecords, PluginStates, VersionIds
<1>4. /\ versions' \in Seq(VersionRecords) /\ Len(versions') = 0
      /\ notified' \in Seq(Nat) /\ Len(notified') = 0
  BY <1>1
<1>5. RowsInStep'
  BY <1>1, <1>2, <1>3, <1>4 DEF RowsInStep, NoPage, VersionIds
<1> QED
  BY <1>1, <1>4, <1>5 DEF PluginsInv, NewestWaits, LiveIsListed, ListedByForce,
       WordsKeepPackage, ToldOnce

(* Every step keeps the invariant. *)
LEMMA PluginsInvStep == PluginsInv /\ [PluginsNext]_pluginsVars => PluginsInv'
<1> SUFFICES ASSUME PluginsInv, [PluginsNext]_pluginsVars PROVE PluginsInv'
  OBVIOUS
<1>1. /\ plugin \in PluginRecords /\ forced \in BOOLEAN /\ shown \in VersionIds \union {NoPage}
      /\ plugin.pending \in VersionIds
  BY DEF PluginsInv, RowsInStep, PluginRecords
<1>2. CASE ShowPlugin
  <2>1. UNCHANGED <<plugin, versions, notified, forced>> /\ shown' \in VersionIds
    BY <1>1, <1>2 DEF ShowPlugin
  <2>2. ListedByForce'
    BY <2>1 DEF PluginsInv, ListedByForce
  <2> QED
    BY <1>1, <2>1, <2>2, OthersKeep
<1>3. ASSUME NEW state \in {"listed", "rejected"}, ReviewPluginVersion(state) PROVE PluginsInv'
  BY <1>3, DecisionKeeps DEF ReviewPluginVersion
<1>4. ASSUME NEW state \in PluginStates, SetPluginState(state) PROVE PluginsInv'
  <2>1. CASE plugin.pending # 0 /\ state \in {"listed", "rejected"}
    BY <1>4, <2>1, DecisionKeeps DEF SetPluginState
  <2>2. CASE ~(plugin.pending # 0 /\ state \in {"listed", "rejected"})
    <3>1. /\ plugin' = [plugin EXCEPT !.state = state] /\ UNCHANGED <<versions, notified>>
          /\ UNCHANGED shown
      BY <1>4, <2>2 DEF SetPluginState
    <3>2. forced' = TRUE
      BY <1>4, <2>2 DEF SetPluginState
    <3>3. /\ plugin' \in PluginRecords /\ plugin'.pending = plugin.pending
          /\ plugin'.current = plugin.current /\ plugin'.package = plugin.package
      BY <1>1, <3>1 DEF PluginRecords
    <3>4. ListedByForce' /\ forced' \in BOOLEAN
      BY <3>2 DEF ListedByForce
    <3> QED
      BY <1>1, <3>1, <3>3, <3>4, OthersKeep
  <2> QED
    BY <2>1, <2>2
<1>5. CASE UNCHANGED pluginsVars
  <2>1. UNCHANGED <<plugin, versions, notified, shown>>
    BY <1>5 DEF pluginsVars
  <2>2. forced' = forced
    BY <1>5 DEF pluginsVars
  <2>3. ListedByForce'
    BY <2>1, <2>2 DEF PluginsInv, ListedByForce
  <2>4. forced' \in BOOLEAN
    BY <1>1, <2>2
  <2> QED
    BY <1>1, <2>1, <2>3, <2>4, OthersKeep
<1> QED
  BY <1>2, <1>3, <1>4, <1>5, UploadKeeps, DeletionKeeps, WordsKeep DEF PluginsNext

(* Every reachable state of a plugin satisfies the invariant. *)
THEOREM PluginsInvariance == PluginsSpec => []PluginsInv
  BY PluginsInvInit, PluginsInvStep, PTL DEF PluginsSpec

(* Every reachable state of a plugin is well typed. *)
THEOREM PluginsTypeCorrect == PluginsSpec => []PluginsTypeOK
<1>1. PluginsInv => PluginsTypeOK
  BY PluginsInvSuffices
<1> QED
  BY <1>1, PluginsInvariance, PTL

(* What is downloaded follows the versions and their reviews (UpsertPlugin, setPluginState),
   for any uploaders and any number of versions. *)
THEOREM PluginFollowsItsVersionsAlways == PluginsSpec => []PluginFollowsItsVersions
<1>1. PluginsInv => PluginFollowsItsVersions
  BY PluginsInvSuffices
<1> QED
  BY <1>1, PluginsInvariance, PTL

-----------------------------------------------------------------------------
(* Drafts and revisions of a resource *)

Edits == 0..MaxEdits
Revisions == [id : Edits, no : Edits, text : Edits, whole : BOOLEAN]
Submissions == [step : {"none", "resource", "revisions", "files"}, draft : Revisions]
Workspaces == [step : {"closed", "half", "read"}, version : Edits, shown : SUBSET Edits, newest : Edits]

DraftsTyped ==
  /\ version \in Edits /\ decided \in Edits
  /\ drafted \in [Slots -> Revisions]
  /\ submission \in Submissions
  /\ workspace \in Workspaces

(* A submission is of the page that was read. *)
PageUnderWay ==
  /\ workspace.version <= version
  /\ submission.step # "none" => workspace.step = "read"

(* As long as nobody wrote, the page has shown every text there is, and the one
   that is being submitted. *)
PageIsComplete ==
  workspace.step = "read" /\ version = workspace.version =>
    /\ \A k \in Slots : Has(k) => drafted[k].text \in workspace.shown
    /\ submission.step \in {"revisions", "files"} => submission.draft.text \in workspace.shown

DraftsInv == DraftsTyped /\ PageUnderWay /\ PageIsComplete

(* The type invariant of the run, with named sets of records. *)
LEMMA DraftsTypes == DraftsTypeOK <=> DraftsTyped
  BY DEF DraftsTypeOK, DraftsTyped, Submissions, Workspaces, Revisions, Edits

(* One of three numbers is the greatest. *)
LEMMA NewestIsThere ==
  ASSUME DraftsTyped
  PROVE  NewestSlot \in Slots
<1>1. \A k \in Slots : drafted[k].no \in Nat
  BY DEF DraftsTyped, Revisions, Edits
<1>2. \E k \in Slots : \A j \in Slots : drafted[j].no <= drafted[k].no
  <2> DEFINE a == drafted["creator"].no
             b == drafted["admin"].no
             c == drafted["submitted"].no
  <2>1. a \in Nat /\ b \in Nat /\ c \in Nat
    BY <1>1 DEF Slots
  <2>2. CASE a >= b /\ a >= c
    BY <2>1, <2>2 DEF Slots
  <2>3. CASE b >= a /\ b >= c
    BY <2>1, <2>3 DEF Slots
  <2>4. CASE c >= b /\ c >= a
    BY <2>1, <2>4 DEF Slots
  <2> QED
    BY <2>1, <2>2, <2>3, <2>4
<1> QED
  BY <1>2 DEF NewestSlot

(* The row that is saved has the id of a draft that was there, or a new one. *)
LEMMA SavedIsRevision ==
  ASSUME DraftsTyped, NextEdit \in Edits, NEW text \in Edits, NEW whole \in BOOLEAN
  PROVE  /\ SavedDraft(text, whole) \in Revisions
         /\ SavedDraft(text, whole).no = NextEdit
         /\ SavedDraft(text, whole).text = text
         /\ SavedDraft(text, whole).whole = whole
<1> DEFINE drafts == {k \in {"creator", "admin"} : Has(k)}
           newest == CHOOSE k \in drafts : \A j \in drafts : drafted[j].no <= drafted[k].no
<1>1. drafted["creator"].no \in Nat /\ drafted["admin"].no \in Nat
      /\ drafted["creator"].id \in Edits /\ drafted["admin"].id \in Edits
  BY DEF DraftsTyped, Revisions, Edits, Slots
<1>2. ASSUME drafts # {} PROVE newest \in {"creator", "admin"}
  <2>1. \E k \in drafts : \A j \in drafts : drafted[j].no <= drafted[k].no
    BY <1>1, <1>2
  <2> QED
    BY <2>1
<1>3. PICK id \in Edits : id = IF drafts = {} THEN NextEdit ELSE drafted[newest].id
  BY <1>1, <1>2
<1>4. PICK no \in Edits : no = NextEdit
  OBVIOUS
<1>5. SavedDraft(text, whole) = [id |-> id, no |-> no, text |-> text, whole |-> whole]
  BY <1>3, <1>4 DEF SavedDraft
<1> HIDE DEF drafts, newest
<1> QED
  BY <1>4, <1>5 DEF Revisions

(* An absent revision is well typed. *)
LEMMA NoRevisionTyped == NoRevision \in Revisions
  BY DraftsAssumption DEF NoRevision, Revisions, Edits

(* A step that counts edit_version on: what was read before is old. *)
LEMMA NewEditKeeps ==
  ASSUME DraftsInv, Bump, decided' \in Edits, drafted' \in [Slots -> Revisions],
         UNCHANGED <<workspace, submission>>
  PROVE  DraftsInv'
<1>1. version' = version + 1 /\ version' \in Edits /\ version \in Nat /\ workspace.version \in Nat
  BY DraftsAssumption DEF Bump, NextEdit, DraftsInv, DraftsTyped, Workspaces, Edits
<1>2. DraftsTyped'
  BY <1>1 DEF DraftsInv, DraftsTyped
<1>3. PageUnderWay' /\ version' # workspace'.version
  BY <1>1 DEF DraftsInv, PageUnderWay
<1> QED
  BY <1>2, <1>3 DEF DraftsInv, PageIsComplete

(* A step after which the creator has no page open. *)
LEMMA ClosingKeeps ==
  ASSUME DraftsInv, Bump, decided' \in Edits, drafted' \in [Slots -> Revisions],
         workspace' = NoWorkspace, submission' = NoSubmission
  PROVE  DraftsInv'
<1>1. version' = version + 1 /\ version' \in Edits /\ version \in Nat /\ 0 \in Edits
  BY DraftsAssumption DEF Bump, NextEdit, DraftsInv, DraftsTyped, Edits
<1>2. workspace' \in Workspaces /\ workspace'.step = "closed" /\ workspace'.version = 0
  BY <1>1 DEF NoWorkspace, Workspaces
<1>3. submission' \in Submissions /\ submission'.step = "none"
  BY NoRevisionTyped DEF NoSubmission, Submissions
<1> QED
  BY <1>1, <1>2, <1>3 DEF DraftsInv, DraftsTyped, PageUnderWay, PageIsComplete

(* A step that removes rows or leaves their texts alone. *)
LEMMA FewerKeeps ==
  ASSUME DraftsInv, decided' \in Edits, drafted' \in [Slots -> Revisions],
         \A k \in Slots : Has(k)' => Has(k) /\ drafted'[k].text = drafted[k].text,
         UNCHANGED <<version, workspace, submission>>
  PROVE  DraftsInv'
  BY DEF DraftsInv, DraftsTyped, PageUnderWay, PageIsComplete

(* A step of a submission, or its end. *)
LEMMA SubmittingKeeps ==
  ASSUME DraftsInv, UNCHANGED <<version, drafted, decided, workspace>>,
         submission' \in Submissions, submission'.step # "none" => workspace.step = "read",
         submission'.step \in {"revisions", "files"} /\ version = workspace.version =>
           submission'.draft.text \in workspace.shown
  PROVE  DraftsInv'
  BY DEF DraftsInv, DraftsTyped, PageUnderWay, PageIsComplete, Has

(* The greater of two numbers is one of them. *)
LEMMA MaxOfTwo ==
  ASSUME NEW a \in Edits, NEW b \in Edits
  PROVE  Max({a, b}) \in Edits
<1>1. a \in Int /\ b \in Int
  BY DEF Edits
<1>2. \E x \in {a, b} : \A y \in {a, b} : x >= y
  BY <1>1
<1>3. Max({a, b}) \in {a, b}
  BY <1>2 DEF Max
<1> QED
  BY <1>3

(* The number of the last decided revision is well typed after a decision. *)
LEMMA DecidedTyped ==
  ASSUME DraftsTyped
  PROVE  Max({decided, drafted["submitted"].no}) \in Edits
<1>1. PICK a \in Edits, b \in Edits : a = decided /\ b = drafted["submitted"].no
  BY DEF DraftsTyped, Revisions, Slots
<1> QED
  BY <1>1, MaxOfTwo

(* A write gives the resource a version of its own. *)
LEMMA EditIsNew ==
  ASSUME DraftsInv, Bump
  PROVE  NextEdit \in Edits /\ NextEdit # 0 /\ version' = NextEdit
  BY DraftsAssumption DEF Bump, NextEdit, DraftsInv, DraftsTyped, Edits

(* Files do not change the text. *)
LEMMA WholeTyped ==
  ASSUME NEW r \in Revisions, NEW whole \in BOOLEAN
  PROVE  [r EXCEPT !.whole = whole] \in Revisions /\ [r EXCEPT !.whole = whole].text = r.text
  BY DEF Revisions

(* The steps of the creator. *)
LEMMA CreatorKeeps ==
  ASSUME DraftsInv,
         OpenWorkspace \/ FinishWorkspace \/ SaveDraftAt \/ ReadResource \/ ReadRevisions
           \/ ReadFiles \/ SubmitBundle \/ DropSubmission
  PROVE  DraftsInv'
<1>1. DraftsTyped /\ workspace \in Workspaces /\ submission \in Submissions
      /\ version \in Edits /\ drafted \in [Slots -> Revisions] /\ 0 \in Edits
  BY DraftsAssumption DEF DraftsInv, DraftsTyped, Edits
<1>2. CASE OpenWorkspace
  <2>1. PICK v \in Edits : v = version
    BY <1>1
  <2>2. workspace' = [NoWorkspace EXCEPT !.step = "half", !.version = v]
    BY <1>2, <2>1 DEF OpenWorkspace
  <2>3. workspace' \in Workspaces /\ workspace'.step = "half" /\ workspace'.version = v
    BY <1>1, <2>2 DEF NoWorkspace, Workspaces
  <2>4. submission.step = "none" /\ UNCHANGED <<version, drafted, decided, submission>>
    BY <1>2 DEF OpenWorkspace, NoSubmission
  <2>5. version <= version
    BY <1>1 DEF Edits
  <2> QED
    BY <2>1, <2>3, <2>4, <2>5 DEF DraftsInv, DraftsTyped, PageUnderWay, PageIsComplete
<1>3. CASE FinishWorkspace
  <2>1. PICK texts \in SUBSET Edits : texts = {drafted[k].text : k \in Slots}
    BY <1>1 DEF Revisions
  <2>2. PICK newest \in Edits : newest = drafted[NewestSlot].id
    BY <1>1, NewestIsThere DEF Revisions
  <2>3. workspace' = [workspace EXCEPT !.step = "read", !.shown = texts, !.newest = newest]
    BY <1>3, <2>1, <2>2 DEF FinishWorkspace
  <2>4. /\ workspace' \in Workspaces /\ workspace'.step = "read" /\ workspace'.shown = texts
        /\ workspace'.version = workspace.version
    BY <1>1, <2>3 DEF Workspaces
  <2>5. UNCHANGED <<version, drafted, decided, submission>> /\ submission.step = "none"
    BY <1>1, <1>3 DEF FinishWorkspace, DraftsInv, PageUnderWay, Submissions
  <2> QED
    BY <2>1, <2>4, <2>5 DEF DraftsInv, DraftsTyped, PageUnderWay, PageIsComplete, Has
<1>4. CASE SaveDraftAt
  <2>1. Bump /\ workspace' = NoWorkspace /\ submission' = NoSubmission /\ decided' \in Edits
    BY <1>1, <1>4 DEF SaveDraftAt, DraftsTyped
  <2>2. PICK whole \in BOOLEAN :
          drafted' = [drafted EXCEPT !["creator"] = SavedDraft(NextEdit, whole), !["admin"] = NoRevision]
    BY <1>4 DEF SaveDraftAt
  <2>3. PICK next \in Edits : next = NextEdit
    BY <2>1, EditIsNew
  <2>4. SavedDraft(next, whole) \in Revisions
    BY <1>1, <2>3, SavedIsRevision
  <2>5. drafted' \in [Slots -> Revisions]
    BY <1>1, <2>2, <2>3, <2>4, NoRevisionTyped
  <2> QED
    BY <2>1, <2>5, ClosingKeeps
<1>5. CASE ReadResource
  <2>1. submission' = [submission EXCEPT !.step = "resource"] /\ workspace.step = "read"
        /\ UNCHANGED <<version, drafted, decided, workspace>>
    BY <1>5 DEF ReadResource
  <2>2. submission' \in Submissions /\ submission'.step = "resource"
    BY <1>1, <2>1 DEF Submissions
  <2> QED
    BY <2>1, <2>2, SubmittingKeeps
<1>6. CASE ReadRevisions
  <2>1. PICK r \in Revisions : r = drafted[NewestSlot]
    BY <1>1, NewestIsThere
  <2>2. submission' = [step |-> "revisions", draft |-> r]
        /\ UNCHANGED <<version, drafted, decided, workspace>> /\ workspace.step = "read" /\ Has(NewestSlot)
    BY <1>6, <2>1 DEF ReadRevisions, DraftsInv, PageUnderWay
  <2>3. submission' \in Submissions /\ submission'.draft.text = r.text
    BY <2>2 DEF Submissions
  <2>4. version = workspace.version => r.text \in workspace.shown
    BY <2>1, <2>2, NewestIsThere DEF DraftsInv, PageIsComplete
  <2> QED
    BY <2>2, <2>3, <2>4, SubmittingKeeps
<1>7. CASE ReadFiles
  <2>1. PICK whole \in BOOLEAN :
          whole = \E k \in Slots : drafted[k].id = submission.draft.id /\ drafted[k].whole
    OBVIOUS
  <2>2. PICK r \in Revisions : r = submission.draft
    BY <1>1 DEF Submissions
  <2>3. PICK s \in Revisions : s = [r EXCEPT !.whole = whole] /\ s.text = r.text
    BY WholeTyped
  <2>4. submission' = [submission EXCEPT !.step = "files", !.draft = s]
        /\ UNCHANGED <<version, drafted, decided, workspace>> /\ submission.step = "revisions"
    BY <1>7, <2>1, <2>2, <2>3 DEF ReadFiles
  <2>5. submission' \in Submissions /\ submission'.draft = s
    BY <1>1, <2>4 DEF Submissions
  <2>6. workspace.step = "read" /\ (version = workspace.version => s.text \in workspace.shown)
    BY <2>2, <2>3, <2>4 DEF DraftsInv, PageUnderWay, PageIsComplete
  <2> QED
    BY <2>4, <2>5, <2>6, SubmittingKeeps
<1>8. CASE SubmitBundle
  <2>1. Bump /\ workspace' = NoWorkspace /\ submission' = NoSubmission
        /\ decided' = Max({decided, drafted["submitted"].no})
    BY <1>8 DEF SubmitBundle
  <2>2. decided' \in Edits
    BY <1>1, <2>1, DecidedTyped
  <2>3. PICK text \in Edits : text = submission.draft.text
    BY <1>1 DEF Submissions, Revisions
  <2>4. PICK r \in Revisions : r = SavedDraft(text, TRUE)
    BY <1>1, <2>1, EditIsNew, SavedIsRevision
  <2>5. drafted' = [k \in Slots |-> IF k = "submitted" THEN r ELSE NoRevision]
    BY <1>8, <2>3, <2>4 DEF SubmitBundle
  <2>6. drafted' \in [Slots -> Revisions]
    BY <2>5, NoRevisionTyped
  <2> QED
    BY <2>1, <2>2, <2>6, ClosingKeeps
<1>9. CASE DropSubmission
  <2>1. submission' \in Submissions /\ submission'.step = "none"
        /\ UNCHANGED <<version, drafted, decided, workspace>>
    BY <1>9, NoRevisionTyped DEF DropSubmission, NoSubmission, Submissions
  <2> QED
    BY <2>1, SubmittingKeeps
<1> QED
  BY <1>2, <1>3, <1>4, <1>5, <1>6, <1>7, <1>8, <1>9

(* The writes of administrators and reviewers. *)
LEMMA AdminKeeps ==
  ASSUME DraftsInv,
         \/ AdminSaveRevision \/ AdminRollback \/ AdminSubmitRevision
         \/ \E k \in Slots : AdminDiscardRevision(k) \/ AdminAddAsset(k)
         \/ \E approve \in BOOLEAN : DecideRevision(approve)
  PROVE  DraftsInv'
<1>1. DraftsTyped /\ drafted \in [Slots -> Revisions] /\ decided \in Edits
      /\ {"creator", "admin", "submitted"} = Slots /\ NoRevision \in Revisions
  BY NoRevisionTyped DEF DraftsInv, DraftsTyped, Slots
<1>2. ASSUME NEW whole \in BOOLEAN, Bump PROVE NewDraft(whole) \in Revisions
  <2>1. PICK next \in Edits : next = NextEdit
    BY <1>2, EditIsNew
  <2> QED
    BY <2>1 DEF NewDraft, Revisions
<1>3. CASE AdminSaveRevision
  <2>1. Bump /\ UNCHANGED <<decided, workspace, submission>>
    BY <1>3 DEF AdminSaveRevision
  <2>2. PICK next \in Edits : next = NextEdit
    BY <2>1, EditIsNew
  <2>3. \A r \in Revisions : [r EXCEPT !.text = next] \in Revisions
    BY DEF Revisions
  <2>4. ASSUME NEW k \in {"admin", "submitted"}, drafted' = [drafted EXCEPT ![k].text = NextEdit]
        PROVE  drafted' \in [Slots -> Revisions]
    <3>1. PICK r \in Revisions : r = [drafted[k] EXCEPT !.text = next]
      BY <1>1, <2>3
    <3>2. drafted' = [drafted EXCEPT ![k] = r]
      BY <2>2, <2>4, <3>1
    <3> QED
      BY <1>1, <3>2
  <2>5. \/ \E k \in {"admin", "submitted"} : drafted' = [drafted EXCEPT ![k].text = NextEdit]
        \/ \E whole \in BOOLEAN : drafted' = [drafted EXCEPT !["admin"] = NewDraft(whole)]
    BY <1>3 DEF AdminSaveRevision
  <2>6. drafted' \in [Slots -> Revisions]
    BY <1>1, <1>2, <2>1, <2>4, <2>5
  <2> QED
    BY <1>1, <2>1, <2>6, NewEditKeeps
<1>4. CASE AdminRollback
  <2>1. Bump /\ UNCHANGED <<decided, workspace, submission>>
        /\ drafted' = [drafted EXCEPT !["admin"] = NewDraft(TRUE)]
    BY <1>4 DEF AdminRollback
  <2>2. drafted' \in [Slots -> Revisions]
    BY <1>1, <1>2, <2>1
  <2> QED
    BY <1>1, <2>1, <2>2, NewEditKeeps
<1>5. CASE AdminSubmitRevision
  <2>1. Bump /\ UNCHANGED <<workspace, submission>>
        /\ drafted' = [drafted EXCEPT !["submitted"] = drafted["admin"], !["admin"] = NoRevision]
        /\ decided' = Max({decided, drafted["submitted"].no})
    BY <1>5 DEF AdminSubmitRevision
  <2>2. drafted' \in [Slots -> Revisions] /\ decided' \in Edits
    BY <1>1, <2>1, DecidedTyped
  <2> QED
    BY <2>1, <2>2, NewEditKeeps
<1>6. ASSUME NEW k \in Slots, AdminDiscardRevision(k) PROVE DraftsInv'
  <2>1. drafted' = [drafted EXCEPT ![k] = NoRevision]
        /\ UNCHANGED <<version, decided, workspace, submission>>
    BY <1>6 DEF AdminDiscardRevision
  <2>2. drafted' \in [Slots -> Revisions] /\ decided' \in Edits
        /\ \A j \in Slots : Has(j)' => Has(j) /\ drafted'[j].text = drafted[j].text
    BY <1>1, <2>1 DEF Has
  <2> QED
    BY <2>1, <2>2, FewerKeeps
<1>7. ASSUME NEW k \in Slots, AdminAddAsset(k) PROVE DraftsInv'
  <2>0. PICK q \in Revisions : q = drafted[k]
    BY <1>1
  <2>1. PICK r \in Revisions : r = [q EXCEPT !.whole = TRUE] /\ r.text = q.text
    BY WholeTyped
  <2>2. drafted' = [drafted EXCEPT ![k] = r] /\ Has(k)
        /\ UNCHANGED <<version, decided, workspace, submission>>
    BY <1>7, <2>0, <2>1 DEF AdminAddAsset, Editable
  <2>3. drafted' \in [Slots -> Revisions] /\ decided' \in Edits
        /\ \A j \in Slots : Has(j)' => Has(j) /\ drafted'[j].text = drafted[j].text
    BY <1>1, <2>0, <2>1, <2>2 DEF Has
  <2> QED
    BY <2>2, <2>3, FewerKeeps
<1>8. ASSUME NEW approve \in BOOLEAN, DecideRevision(approve) PROVE DraftsInv'
  <2>1. drafted' = [drafted EXCEPT !["submitted"] = NoRevision]
        /\ decided' = Max({decided, drafted["submitted"].no})
        /\ UNCHANGED <<workspace, submission>> /\ (Bump \/ UNCHANGED version)
    BY <1>8 DEF DecideRevision
  <2>2. drafted' \in [Slots -> Revisions] /\ decided' \in Edits
        /\ \A j \in Slots : Has(j)' => Has(j) /\ drafted'[j].text = drafted[j].text
    BY <1>1, <2>1, DecidedTyped DEF Has
  <2> QED
    BY <2>1, <2>2, FewerKeeps, NewEditKeeps
<1> QED
  BY <1>3, <1>4, <1>5, <1>6, <1>7, <1>8

(* Nothing is drafted at the start. *)
LEMMA DraftsInvInit == DraftsInit => DraftsInv
<1> SUFFICES ASSUME DraftsInit PROVE DraftsInv
  OBVIOUS
<1>1. 0 \in Edits /\ NoRevision \in Revisions
  BY DraftsAssumption, NoRevisionTyped DEF Edits
<1>2. version = 0 /\ decided = 0 /\ drafted \in [Slots -> Revisions]
  BY <1>1 DEF DraftsInit
<1>3. workspace \in Workspaces /\ workspace.step = "closed" /\ workspace.version = 0
  BY <1>1 DEF DraftsInit, NoWorkspace, Workspaces
<1>4. submission \in Submissions /\ submission.step = "none"
  BY <1>1 DEF DraftsInit, NoSubmission, Submissions
<1> QED
  BY <1>1, <1>2, <1>3, <1>4 DEF DraftsInv, DraftsTyped, PageUnderWay, PageIsComplete

(* Every step keeps the invariant. *)
LEMMA DraftsInvStep == DraftsInv /\ [DraftsNext]_draftsVars => DraftsInv'
<1>1. ASSUME DraftsInv, UNCHANGED draftsVars PROVE DraftsInv'
  BY <1>1, FewerKeeps DEF draftsVars, DraftsInv, DraftsTyped, Has
<1> QED
  BY <1>1, CreatorKeeps, AdminKeeps DEF DraftsNext

(* Every reachable state of a resource's drafts satisfies the invariant. *)
THEOREM DraftsInvariance == DraftsSpec => []DraftsInv
  BY DraftsInvInit, DraftsInvStep, PTL DEF DraftsSpec

(* Every reachable state of a resource's drafts is well typed. *)
THEOREM DraftsTypeCorrect == DraftsSpec => []DraftsTypeOK
<1>1. DraftsInv => DraftsTypeOK
  BY DraftsTypes DEF DraftsInv
<1> QED
  BY <1>1, DraftsInvariance, PTL

(* The creator never replaces a text his page has not shown (SaveDraftAt, submit_draft.go),
   however many times administrators write. *)
THEOREM CreatorReplacesWhatHeSawAlways == DraftsSpec => CreatorReplacesWhatHeSaw
<1>1. ASSUME DraftsInv, SaveDraftAt \/ SubmitBundle
      PROVE  /\ \A k \in Slots : Has(k) => drafted[k].text \in workspace.shown
             /\ SubmitBundle => /\ Has("submitted")'
                                /\ drafted'["submitted"].text \in workspace.shown
                                /\ drafted'["submitted"].whole
  <2>1. workspace.step = "read" /\ version = workspace.version
    BY <1>1 DEF SaveDraftAt, SubmitBundle, Unchanged, DraftsInv, PageUnderWay
  <2>2. \A k \in Slots : Has(k) => drafted[k].text \in workspace.shown
    BY <1>1, <2>1 DEF DraftsInv, PageIsComplete
  <2>3. ASSUME SubmitBundle
        PROVE  /\ Has("submitted")' /\ drafted'["submitted"].text \in workspace.shown
               /\ drafted'["submitted"].whole
    <3>1. DraftsTyped /\ NextEdit \in Edits /\ NextEdit # 0 /\ submission.step = "files"
      BY <1>1, <2>3, EditIsNew DEF SubmitBundle, DraftsInv
    <3>2. PICK text \in Edits : text = submission.draft.text
      BY <3>1 DEF DraftsTyped, Submissions, Revisions
    <3>3. PICK r \in Revisions : r = SavedDraft(text, TRUE)
      BY <3>1, SavedIsRevision
    <3>4. r.no # 0 /\ r.text = text /\ r.whole
      BY <3>1, <3>3, SavedIsRevision
    <3>5. drafted'["submitted"] = r
      BY <2>3, <3>2, <3>3 DEF SubmitBundle, Slots
    <3>6. text \in workspace.shown
      BY <1>1, <2>1, <3>1, <3>2 DEF DraftsInv, PageIsComplete
    <3>7. r # NoRevision
      BY <3>4 DEF NoRevision
    <3> QED
      BY <3>4, <3>5, <3>6, <3>7 DEF Has
  <2> QED
    BY <2>2, <2>3
<1> QED
  BY <1>1, DraftsInvariance, PTL DEF DraftsSpec, CreatorReplacesWhatHeSaw

-----------------------------------------------------------------------------
(* Articles *)

Entries == [meta : Nat, body : Nat]
Texts == [Articles -> Entries]
Desks == [step : {"closed", "open", "saving"}, article : Articles \union {NoArticle}, shown : Nat, read : Nat]

BlogTyped ==
  /\ commits \in Seq(Texts) /\ Newest >= 1
  /\ desk \in [Editors -> Desks]
  /\ fetched \in [Syncs -> Nat] /\ posts \in [Articles -> Nat]
  /\ stage \in [Syncs -> {"idle", "writing", "withdrawing"}]
  /\ todo \in [Syncs -> SUBSET Articles] /\ locked \in [Syncs -> SUBSET Articles]
  /\ unseen \in [Syncs -> SUBSET Articles]
  /\ listed \in SUBSET Articles /\ mixed \in BOOLEAN

(* What was read of the repository is one of its commits. *)
ReadsAreCommits ==
  /\ \A e \in Editors : /\ desk[e].shown \in 1..Newest /\ desk[e].read \in 1..Newest
                        /\ desk[e].step # "closed" => desk[e].article \in Articles
  /\ \A s \in Syncs : fetched[s] \in 0..Newest

(* No commit holds the body of an article that its manifest does not list. *)
BodiesAreListed ==
  \A n \in 1..Newest : \A a \in Articles : Text(n, a).meta = 0 => Text(n, a).body = 0

(* What a save has read is what its author was shown: every entry of the manifest,
   and the body of the article. *)
ReadIsShown ==
  \A e \in Editors : desk[e].step = "saving" =>
    /\ \A a \in Articles : Text(desk[e].read, a).meta = Text(desk[e].shown, a).meta
    /\ Text(desk[e].read, desk[e].article).body = Text(desk[e].shown, desk[e].article).body

(* A synchronisation writes every article of its commit, and then every other row that
   there is but for those it does not see. *)
SnapshotIsComplete ==
  \A s \in Syncs :
    /\ stage[s] # "idle" => fetched[s] # 0
    /\ stage[s] = "writing" => Present(fetched[s]) \subseteq todo[s] \union locked[s]
    /\ stage[s] = "withdrawing" =>
         /\ Present(fetched[s]) \subseteq locked[s]
         /\ listed \ Present(fetched[s]) \subseteq todo[s] \union locked[s] \union unseen[s]

(* An article is published in its row. *)
PublishedIsListed == \A a \in Articles : posts[a] # 0 => a \in listed

BlogInv ==
  /\ BlogTyped /\ ReadsAreCommits /\ BodiesAreListed /\ ReadIsShown
  /\ SnapshotIsComplete /\ PublishedIsListed /\ PostsAreOneCommit

(* The type invariant of the run. *)
LEMMA BlogTypes ==
  ASSUME BlogTyped, ReadsAreCommits
  PROVE  BlogTypeOK
<1>1. commits \in Seq([Articles -> [meta : Nat, body : Nat]]) /\ commits # <<>>
  BY DEF BlogTyped, Texts, Entries, Newest
<1>2. desk \in [Editors -> [step : {"closed", "open", "saving"}, article : Articles \union {NoArticle},
                            shown : 1..Newest, read : 1..Newest]]
  <2>1. \A e \in Editors : desk[e] \in Desks
    BY DEF BlogTyped
  <2>2. \A e \in Editors :
          desk[e] \in [step : {"closed", "open", "saving"}, article : Articles \union {NoArticle},
                       shown : 1..Newest, read : 1..Newest]
    BY <2>1 DEF ReadsAreCommits, Desks
  <2> QED
    BY <2>2 DEF BlogTyped
<1>3. fetched \in [Syncs -> 0..Newest]
  BY DEF BlogTyped, ReadsAreCommits
<1> QED
  BY <1>1, <1>2, <1>3 DEF BlogTypeOK, BlogTyped

(* The repository begins with one commit, which nobody has read. *)
LEMMA BlogInvInit == BlogInit => BlogInv
<1> SUFFICES ASSUME BlogInit PROVE BlogInv
  OBVIOUS
<1>1. NoText \in Texts /\ \A a \in Articles : NoText[a].meta = 0 /\ NoText[a].body = 0
  BY DEF NoText, Texts, Entries
<1>2. commits \in Seq(Texts) /\ Newest = 1 /\ commits[1] = NoText
  BY <1>1 DEF BlogInit, Newest
<1>3. desk \in [Editors -> Desks]
      /\ \A e \in Editors : desk[e].shown = 1 /\ desk[e].read = 1 /\ desk[e].step = "closed"
  BY DEF BlogInit, NoDesk, Desks
<1>4. fetched \in [Syncs -> Nat] /\ posts \in [Articles -> Nat]
      /\ (\A s \in Syncs : fetched[s] = 0) /\ (\A a \in Articles : posts[a] = 0)
      /\ stage \in [Syncs -> {"idle", "writing", "withdrawing"}]
      /\ (\A s \in Syncs : stage[s] = "idle")
      /\ todo \in [Syncs -> SUBSET Articles] /\ locked \in [Syncs -> SUBSET Articles]
      /\ unseen \in [Syncs -> SUBSET Articles]
      /\ listed \in SUBSET Articles /\ mixed \in BOOLEAN
  BY DEF BlogInit
<1>5. \A n \in 1..Newest : n = 1
  BY <1>2
<1>6. PostsAreOneCommit
  BY <1>1, <1>2, <1>4 DEF PostsAreOneCommit, Text
<1>7. SnapshotIsComplete /\ PublishedIsListed
  BY <1>4 DEF SnapshotIsComplete, PublishedIsListed
<1>8. BlogTyped
  BY <1>2, <1>3, <1>4 DEF BlogTyped
<1> QED
  BY <1>1, <1>2, <1>3, <1>4, <1>5, <1>6, <1>7, <1>8 DEF BlogInv, ReadsAreCommits, BodiesAreListed,
       ReadIsShown, Text

(* One commit more: those before it stay. *)
LEMMA PushEffect ==
  ASSUME BlogTyped, NEW text \in Texts, Commit(text)
  PROVE  /\ commits' \in Seq(Texts) /\ Newest' = Newest + 1 /\ Newest \in Nat
         /\ \A n \in 1..Newest, a \in Articles : Text(n, a)' = Text(n, a)
         /\ \A n \in {Newest + 1}, a \in Articles : Text(n, a)' = text[a]
         /\ \A a \in Articles : Text(Newest, a)' = text[a]
<1>1. commits \in Seq(Texts) /\ commits' = Append(commits, text)
  BY DEF BlogTyped, Commit
<1>2. /\ commits' \in Seq(Texts) /\ Len(commits') = Len(commits) + 1 /\ Len(commits) \in Nat
      /\ commits'[Len(commits) + 1] = text /\ \A n \in 1..Len(commits) : commits'[n] = commits[n]
  BY <1>1
<1> QED
  BY <1>2 DEF Newest, Text

(* Synchronisations read commits, which stay; a step that is none of theirs leaves the
   copies as they are. *)
LEMMA CopiesStay ==
  ASSUME BlogInv, UNCHANGED copies, Newest <= Newest', Newest' \in Nat,
         \A n \in 1..Newest, a \in Articles : Text(n, a)' = Text(n, a)
  PROVE  SnapshotIsComplete' /\ PublishedIsListed' /\ PostsAreOneCommit'
<1>1. UNCHANGED <<fetched, stage, todo, locked, unseen, posts, listed, mixed>>
  BY DEF copies
<1>2. Newest \in Nat /\ \A s \in Syncs : fetched[s] \in 0..Newest
  BY DEF BlogInv, BlogTyped, ReadsAreCommits, Newest
<1>3. \A n \in 1..Newest : Present(n)' = Present(n)
  BY DEF Present
<1>4. \A s \in Syncs : stage[s] # "idle" => Present(fetched[s])' = Present(fetched[s])
  <2> SUFFICES ASSUME NEW s \in Syncs, stage[s] # "idle"
               PROVE  Present(fetched[s])' = Present(fetched[s])
    OBVIOUS
  <2>1. PICK n \in 1..Newest : n = fetched[s]
    BY <1>2 DEF BlogInv, SnapshotIsComplete
  <2>2. n = fetched'[s] /\ Present(n)' = Present(n)
    BY <1>1, <1>3, <2>1
  <2> QED
    BY <2>1, <2>2 DEF Present
<1>5. SnapshotIsComplete'
  BY <1>1, <1>4 DEF BlogInv, SnapshotIsComplete
<1>6. PublishedIsListed'
  BY <1>1 DEF BlogInv, PublishedIsListed
<1>7. PostsAreOneCommit'
  <2> SUFFICES ASSUME ~mixed
               PROVE  \E n \in 1..Newest' : \A a \in Articles : posts'[a] = Text(n, a).body'
    BY <1>1 DEF PostsAreOneCommit
  <2>1. PICK n \in 1..Newest : \A a \in Articles : posts[a] = Text(n, a).body
    BY DEF BlogInv, PostsAreOneCommit
  <2>2. n \in 1..Newest' /\ \A a \in Articles : posts'[a] = Text(n, a).body'
    BY <1>1, <1>2, <2>1
  <2> QED
    BY <2>2
<1> QED
  BY <1>5, <1>6, <1>7

(* A commit keeps the invariant when no body of it is unlisted; a save ends with it. *)
LEMMA PushedKeeps ==
  ASSUME BlogInv, NEW text \in Texts, Commit(text),
         \A a \in Articles : text[a].meta = 0 => text[a].body = 0,
         desk' \in [Editors -> Desks],
         \A e \in Editors : desk'[e] = desk[e] \/ desk'[e] = NoDesk,
         UNCHANGED copies
  PROVE  BlogInv'
<1>1. /\ commits' \in Seq(Texts) /\ Newest' = Newest + 1 /\ Newest \in Nat /\ Newest >= 1
      /\ \A n \in 1..Newest, a \in Articles : Text(n, a)' = Text(n, a)
      /\ \A n \in {Newest + 1}, a \in Articles : Text(n, a)' = text[a]
  BY PushEffect DEF BlogInv, BlogTyped
<1>2. BlogTyped'
  BY <1>1 DEF BlogInv, BlogTyped, copies
<1>3. /\ 1..Newest \subseteq 1..Newest' /\ 0..Newest \subseteq 0..Newest' /\ 1 \in 1..Newest'
      /\ \A n \in 1..Newest' : n \in 1..Newest \/ n = Newest + 1
  BY <1>1
<1>4. NoDesk.step = "closed" /\ NoDesk.shown = 1 /\ NoDesk.read = 1
  BY DEF NoDesk
<1>5. ReadsAreCommits'
  <2>1. ASSUME NEW e \in Editors
        PROVE  /\ desk'[e].shown \in 1..Newest' /\ desk'[e].read \in 1..Newest'
               /\ desk'[e].step # "closed" => desk'[e].article \in Articles
    <3>1. CASE desk'[e] = desk[e]
      BY <1>3, <3>1 DEF BlogInv, ReadsAreCommits
    <3>2. CASE desk'[e] = NoDesk
      BY <1>3, <1>4, <3>2
    <3> QED
      BY <3>1, <3>2
  <2>2. \A s \in Syncs : fetched'[s] \in 0..Newest'
    BY <1>3 DEF BlogInv, ReadsAreCommits, copies
  <2> QED
    BY <2>1, <2>2 DEF ReadsAreCommits
<1>6. BodiesAreListed'
  BY <1>1, <1>3 DEF BlogInv, BodiesAreListed
<1>7. ReadIsShown'
  <2> SUFFICES ASSUME NEW e \in Editors, desk'[e].step = "saving"
               PROVE  /\ \A a \in Articles : Text(desk[e].read, a).meta' = Text(desk[e].shown, a).meta'
                      /\ Text(desk[e].read, desk[e].article).body' = Text(desk[e].shown, desk[e].article).body'
    BY DEF ReadIsShown
  <2>1. desk'[e] = desk[e]
    BY <1>4
  <2>2. desk[e].shown \in 1..Newest /\ desk[e].read \in 1..Newest /\ desk[e].article \in Articles
    BY <2>1 DEF BlogInv, ReadsAreCommits
  <2>3. /\ \A a \in Articles : Text(desk[e].read, a).meta = Text(desk[e].shown, a).meta
        /\ Text(desk[e].read, desk[e].article).body = Text(desk[e].shown, desk[e].article).body
    BY <2>1 DEF BlogInv, ReadIsShown
  <2>4. \A a \in Articles : commits'[desk'[e].read][a] = commits[desk[e].read][a]
                            /\ commits'[desk'[e].shown][a] = commits[desk[e].shown][a]
    BY <1>1, <2>1, <2>2 DEF Text
  <2> QED
    BY <2>1, <2>2, <2>3, <2>4 DEF Text
<1>8. SnapshotIsComplete' /\ PublishedIsListed' /\ PostsAreOneCommit'
  BY <1>1, CopiesStay
<1> QED
  BY <1>2, <1>5, <1>6, <1>7, <1>8 DEF BlogInv

(* The removal of an article, pushed to the repository. *)
LEMMA RemovalKeeps ==
  ASSUME BlogInv, NEW a \in Articles, UNCHANGED <<desk, copies>>,
         Commit([commits[Newest] EXCEPT ![a] = [meta |-> 0, body |-> 0]])
  PROVE  BlogInv'
<1>1. commits[Newest] \in Texts /\ Newest \in 1..Newest
  BY DEF BlogInv, BlogTyped, Newest
<1>2. [meta |-> 0, body |-> 0] \in Entries
  BY DEF Entries
<1>3. PICK text \in Texts : text = [commits[Newest] EXCEPT ![a] = [meta |-> 0, body |-> 0]]
  BY <1>1, <1>2 DEF Texts
<1>4. \A c \in Articles : text[c] = IF c = a THEN [meta |-> 0, body |-> 0] ELSE commits[Newest][c]
  BY <1>1, <1>3 DEF Texts
<1>5. \A c \in Articles : commits[Newest][c].meta = 0 => commits[Newest][c].body = 0
  BY <1>1 DEF BlogInv, BodiesAreListed, Text
<1>6. \A c \in Articles : text[c].meta = 0 => text[c].body = 0
  BY <1>4, <1>5
<1> QED
  BY <1>3, <1>6, PushedKeeps DEF BlogInv, BlogTyped

(* A commit pushed to the repository disturbs no page and no save. *)
LEMMA PushKeeps ==
  ASSUME BlogInv, NEW a \in Articles, Push(a)
  PROVE  BlogInv'
<1> SUFFICES ASSUME ~(Commit([commits[Newest] EXCEPT ![a] = [meta |-> 0, body |-> 0]]))
             PROVE  BlogInv'
  BY RemovalKeeps DEF Push
<1>1. PICK meta \in BOOLEAN, body \in BOOLEAN :
        /\ meta \/ body
        /\ a \notin Present(Newest) => meta /\ body
        /\ Commit([commits[Newest] EXCEPT
             ![a].meta = IF meta THEN Newest + 1 ELSE @, ![a].body = IF body THEN Newest + 1 ELSE @])
  BY DEF Push
<1>2. commits[Newest] \in Texts /\ Newest \in Nat /\ Newest + 1 # 0 /\ Newest \in 1..Newest
  BY DEF BlogInv, BlogTyped, Newest
<1>3. commits[Newest][a] \in Entries
  BY <1>2 DEF Texts
<1>4. PICK m \in Nat, b \in Nat :
        /\ m = IF meta THEN Newest + 1 ELSE commits[Newest][a].meta
        /\ b = IF body THEN Newest + 1 ELSE commits[Newest][a].body
  BY <1>2, <1>3 DEF Entries
<1>5. PICK text \in Texts : text = [commits[Newest] EXCEPT ![a] = [meta |-> m, body |-> b]]
  BY <1>2 DEF Texts, Entries
<1>6. [commits[Newest] EXCEPT
             ![a].meta = IF meta THEN Newest + 1 ELSE @, ![a].body = IF body THEN Newest + 1 ELSE @] = text
  BY <1>2, <1>3, <1>4, <1>5 DEF Texts, Entries
<1>7. Commit(text)
  BY <1>1, <1>6
<1>8. \A c \in Articles : commits[Newest][c].meta = 0 => commits[Newest][c].body = 0
  BY <1>2 DEF BlogInv, BodiesAreListed, Text
<1>9. m = 0 => b = 0
  <2>1. CASE a \in Present(Newest)
    BY <1>2, <1>4, <2>1 DEF Present, Text
  <2>2. CASE a \notin Present(Newest)
    BY <1>1, <1>2, <1>4, <2>2
  <2> QED
    BY <2>1, <2>2
<1>10. \A c \in Articles : text[c] = IF c = a THEN [meta |-> m, body |-> b] ELSE commits[Newest][c]
  BY <1>2, <1>5 DEF Texts
<1>11. \A c \in Articles : text[c].meta = 0 => text[c].body = 0
  BY <1>8, <1>9, <1>10
<1>12. UNCHANGED <<desk, copies>>
  BY DEF Push
<1> QED
  BY <1>7, <1>11, <1>12, PushedKeeps DEF BlogInv, BlogTyped

(* The text that a save or a deletion commits. *)
LEMMA RewrittenText ==
  ASSUME BlogInv, NEW e \in Editors, desk[e].step = "saving", FilesUnchanged(e),
         NEW entry \in Nat, NEW body \in Nat
  PROVE  /\ Rewritten(e, entry, body) \in Texts
         /\ Rewritten(e, entry, body)[desk[e].article] = [meta |-> entry, body |-> body]
         /\ \A b \in Articles \ {desk[e].article} : Rewritten(e, entry, body)[b] = Text(Newest, b)
<1>1. /\ desk[e].read \in 1..Newest /\ desk[e].article \in Articles /\ Newest \in 1..Newest
      /\ \A n \in 1..Newest, b \in Articles : Text(n, b) \in Entries
  BY DEF BlogInv, BlogTyped, ReadsAreCommits, Newest, Text, Texts
<1>2. \A b \in Articles : Text(Newest, b).meta = Text(desk[e].read, b).meta
  BY DEF FilesUnchanged, Manifest
<1>3. \A b \in Articles : [meta |-> Text(desk[e].read, b).meta, body |-> Text(Newest, b).body] = Text(Newest, b)
  BY <1>1, <1>2 DEF Entries
<1>4. [meta |-> entry, body |-> body] \in Entries
  BY DEF Entries
<1>5. \A b \in Articles : Rewritten(e, entry, body)[b] =
        IF b = desk[e].article THEN [meta |-> entry, body |-> body] ELSE Text(Newest, b)
  BY <1>3 DEF Rewritten
<1>6. Rewritten(e, entry, body) \in Texts
  <2>1. \A b \in Articles : (IF b = desk[e].article THEN [meta |-> entry, body |-> body]
                      ELSE [meta |-> Text(desk[e].read, b).meta, body |-> Text(Newest, b).body]) \in Entries
    BY <1>1, <1>3, <1>4
  <2> QED
    BY <2>1 DEF Rewritten, Texts
<1> QED
  BY <1>1, <1>5, <1>6

(* A save, or the deletion of the article. *)
LEMMA RewriteKeeps ==
  ASSUME BlogInv, NEW e \in Editors, desk[e].step = "saving", FilesUnchanged(e),
         NEW entry \in Nat, NEW body \in Nat, entry = 0 => body = 0,
         Commit(Rewritten(e, entry, body)),
         desk' = [desk EXCEPT ![e] = NoDesk], UNCHANGED copies
  PROVE  BlogInv'
<1>1. PICK text \in Texts : text = Rewritten(e, entry, body)
  BY RewrittenText
<1>2. Newest \in 1..Newest
  BY DEF BlogInv, BlogTyped, Newest
<1>3. \A b \in Articles : text[b].meta = 0 => text[b].body = 0
  <2>1. /\ text[desk[e].article] = [meta |-> entry, body |-> body]
        /\ \A b \in Articles \ {desk[e].article} : text[b] = Text(Newest, b)
    BY <1>1, RewrittenText
  <2>2. \A b \in Articles : Text(Newest, b).meta = 0 => Text(Newest, b).body = 0
    BY <1>2 DEF BlogInv, BodiesAreListed
  <2> QED
    BY <2>1, <2>2
<1>4. NoDesk \in Desks
  BY DEF NoDesk, Desks
<1>5. desk' \in [Editors -> Desks] /\ \A d \in Editors : desk'[d] = desk[d] \/ desk'[d] = NoDesk
  BY <1>4 DEF BlogInv, BlogTyped
<1> QED
  BY <1>1, <1>3, <1>5, PushedKeeps

(* The handlers that only read. *)
LEMMA DeskKeeps ==
  ASSUME BlogInv, NEW e \in Editors, NEW d \in Desks, desk' = [desk EXCEPT ![e] = d],
         d.shown \in 1..Newest, d.read \in 1..Newest, d.step # "closed" => d.article \in Articles,
         d.step = "saving" =>
           /\ \A a \in Articles : Text(d.read, a).meta = Text(d.shown, a).meta
           /\ Text(d.read, d.article).body = Text(d.shown, d.article).body,
         UNCHANGED <<commits, copies>>
  PROVE  BlogInv'
<1>1. desk' \in [Editors -> Desks] /\ desk'[e] = d /\ \A c \in Editors : c # e => desk'[c] = desk[c]
  BY DEF BlogInv, BlogTyped
<1>2. /\ Newest' = Newest
      /\ \A n, a : Text(n, a)' = Text(n, a)
      /\ UNCHANGED commits /\ UNCHANGED fetched /\ UNCHANGED copies
  BY DEF Newest, Text, copies
<1>3. BlogTyped'
  BY <1>1, <1>2 DEF BlogInv, BlogTyped, copies
<1>4. ReadsAreCommits'
  BY <1>1, <1>2 DEF BlogInv, ReadsAreCommits
<1>5. BodiesAreListed'
  BY <1>2 DEF BlogInv, BodiesAreListed
<1>6. ReadIsShown'
  BY <1>1, <1>2 DEF BlogInv, ReadIsShown, Text
<1>7. SnapshotIsComplete' /\ PublishedIsListed' /\ PostsAreOneCommit'
  <2>1. Newest \in Nat
    BY DEF BlogInv, BlogTyped, Newest
  <2> QED
    BY <1>2, <2>1, CopiesStay
<1> QED
  BY <1>3, <1>4, <1>5, <1>6, <1>7 DEF BlogInv

(* The steps of an editor: open, read, save, delete, close. *)
LEMMA EditorKeeps ==
  ASSUME BlogInv, NEW e \in Editors,
         (\E a \in Articles : OpenArticle(e, a)) \/ ReadForSave(e) \/ SaveArticle(e) \/ DeleteArticle(e)
           \/ CloseArticle(e)
  PROVE  BlogInv'
<1>1. PICK n \in Nat : n = Newest /\ n \in 1..Newest /\ 1 \in 1..Newest
  BY DEF BlogInv, BlogTyped, Newest
<1>2. desk[e] \in Desks /\ NoDesk \in Desks /\ NoDesk.step = "closed" /\ NoDesk.shown = 1 /\ NoDesk.read = 1
  BY DEF BlogInv, BlogTyped, NoDesk, Desks
<1>3. ASSUME NEW a \in Articles, OpenArticle(e, a) PROVE BlogInv'
  <2> DEFINE page == [NoDesk EXCEPT !.step = "open", !.article = a, !.shown = n]
  <2>1. page \in Desks
    BY DEF Desks, NoDesk
  <2>2. page.step = "open" /\ page.article = a /\ page.shown = n /\ page.read = 1
    BY DEF NoDesk
  <2>3. desk' = [desk EXCEPT ![e] = page] /\ UNCHANGED <<commits, copies>>
    BY <1>1, <1>3 DEF OpenArticle
  <2> HIDE DEF page
  <2>4. PICK d \in Desks : d = page
    BY <2>1
  <2> QED
    BY <1>1, <2>2, <2>3, <2>4, DeskKeeps
<1>4. CASE ReadForSave(e)
  <2>1. PICK d \in Desks : d = [desk[e] EXCEPT !.step = "saving", !.read = n]
    BY <1>2 DEF Desks
  <2>2. d.step = "saving" /\ d.article = desk[e].article /\ d.shown = desk[e].shown /\ d.read = n
    BY <1>2, <2>1 DEF Desks
  <2>3. desk' = [desk EXCEPT ![e] = d] /\ UNCHANGED <<commits, copies>> /\ desk[e].step = "open"
    BY <1>1, <1>4, <2>1 DEF ReadForSave, BlogInv, BlogTyped
  <2>4. /\ \A a \in Articles : Text(Newest, a).meta = Text(desk[e].shown, a).meta
        /\ Text(Newest, desk[e].article).body = Text(desk[e].shown, desk[e].article).body
    BY <1>4 DEF ReadForSave, AsShown, Manifest
  <2>5. desk[e].shown \in 1..Newest /\ desk[e].article \in Articles
    BY <2>3 DEF BlogInv, ReadsAreCommits
  <2> QED
    BY <1>1, <2>2, <2>3, <2>4, <2>5, DeskKeeps
<1>5. CASE SaveArticle(e)
  <2>1. PICK entry \in {Newest + 1, Text(desk[e].read, desk[e].article).meta} \ {0} :
          Commit(Rewritten(e, entry, Newest + 1))
    BY <1>5 DEF SaveArticle
  <2>2. desk[e].step = "saving" /\ FilesUnchanged(e) /\ desk' = [desk EXCEPT ![e] = NoDesk]
        /\ UNCHANGED copies
    BY <1>5 DEF SaveArticle
  <2>3. Text(desk[e].read, desk[e].article).meta \in Nat
    BY <2>2 DEF BlogInv, BlogTyped, ReadsAreCommits, Newest, Text, Texts, Entries
  <2>4. PICK entries \in Nat, body \in Nat : entries = entry /\ body = Newest + 1
    BY <1>1, <2>1, <2>3
  <2>5. Commit(Rewritten(e, entries, body)) /\ entries # 0
    BY <2>1, <2>4
  <2> QED
    BY <2>2, <2>5, RewriteKeeps
<1>6. CASE DeleteArticle(e)
  BY <1>6, RewriteKeeps DEF DeleteArticle
<1>7. CASE CloseArticle(e)
  BY <1>1, <1>2, <1>7, DeskKeeps DEF CloseArticle
<1> QED
  BY <1>3, <1>4, <1>5, <1>6, <1>7

(* What a synchronisation writes of its own record. *)
LEMMA SyncTypes ==
  ASSUME BlogInv, NEW s \in Syncs,
         (\E a \in Articles : WriteRow(s, a)) \/ FetchContent(s) \/ StartWithdraw(s)
           \/ CommitSnapshot(s) \/ ContentSyncFails(s)
  PROVE  BlogTyped' /\ ReadsAreCommits' /\ UNCHANGED <<commits, desk>>
<1>1. UNCHANGED <<commits, desk>>
  BY DEF WriteRow, FetchContent, StartWithdraw, CommitSnapshot, ContentSyncFails
<1>2. Newest \in Nat /\ Newest >= 1 /\ Newest' = Newest
      /\ \A n \in 1..Newest, a \in Articles : Text(n, a).body \in Nat
  <2>1. Newest \in Nat /\ Newest >= 1 /\ Newest' = Newest
    BY <1>1 DEF BlogInv, BlogTyped, Newest
  <2>2. \A n \in 1..Newest : commits[n] \in Texts
    BY DEF BlogInv, BlogTyped, Newest
  <2> QED
    BY <2>1, <2>2 DEF Text, Texts, Entries
<1>3. \A n : Present(n) \in SUBSET Articles
  BY DEF Present
<1> USE DEF BlogInv, BlogTyped, ReadsAreCommits
<1>4. fetched' \in [Syncs -> Nat] /\ \A r \in Syncs : fetched'[r] \in 0..Newest
  <2>1. PICK n \in 0..Newest : fetched' = [fetched EXCEPT ![s] = n]
    BY <1>2 DEF WriteRow, FetchContent, StartWithdraw, CommitSnapshot, ContentSyncFails, Ends
  <2> QED
    BY <1>2, <2>1
<1>5. stage' \in [Syncs -> {"idle", "writing", "withdrawing"}]
  BY DEF WriteRow, FetchContent, StartWithdraw, CommitSnapshot, ContentSyncFails, Ends
<1>6. todo' \in [Syncs -> SUBSET Articles] /\ locked' \in [Syncs -> SUBSET Articles]
  <2>1. ASSUME NEW a \in Articles, WriteRow(s, a)
        PROVE  todo' \in [Syncs -> SUBSET Articles] /\ locked' \in [Syncs -> SUBSET Articles]
    <3>1. todo[s] \ {a} \in SUBSET Articles /\ locked[s] \union {a} \in SUBSET Articles
      OBVIOUS
    <3> QED
      BY <2>1, <3>1 DEF WriteRow
  <2>2. CASE FetchContent(s)
    BY <1>3, <2>2 DEF FetchContent
  <2>3. CASE StartWithdraw(s)
    <3>1. Unlisted(fetched[s]) \in SUBSET Articles
      BY DEF Unlisted
    <3> QED
      BY <2>3, <3>1 DEF StartWithdraw
  <2>4. CASE CommitSnapshot(s) \/ ContentSyncFails(s)
    BY <2>4 DEF CommitSnapshot, ContentSyncFails, Ends
  <2> QED
    BY <2>1, <2>2, <2>3, <2>4
<1>7. listed' \in SUBSET Articles /\ unseen' \in [Syncs -> SUBSET Articles]
  <2>1. CASE CommitSnapshot(s)
    <3>1. \A t \in Syncs : unseen[t] \union (Present(fetched[s]) \ listed) \in SUBSET Articles
      BY <1>3
    <3>2. Overlooked(s) \in [Syncs -> SUBSET Articles]
      BY <3>1 DEF Overlooked
    <3> QED
      BY <1>3, <2>1, <3>2 DEF CommitSnapshot
  <2>2. CASE ContentSyncFails(s)
    BY <2>2 DEF ContentSyncFails
  <2>3. CASE ~CommitSnapshot(s) /\ ~ContentSyncFails(s)
    BY <2>3 DEF WriteRow, FetchContent, StartWithdraw
  <2> QED
    BY <2>1, <2>2, <2>3
<1>8. posts' \in [Articles -> Nat] /\ mixed' \in BOOLEAN
  <2>1. CASE CommitSnapshot(s)
    <3>1. fetched[s] \in 1..Newest
      BY <1>2, <2>1 DEF CommitSnapshot, SnapshotIsComplete
    <3> QED
      BY <1>2, <2>1, <3>1 DEF CommitSnapshot
  <2>2. CASE ~CommitSnapshot(s)
    BY <2>2 DEF WriteRow, FetchContent, StartWithdraw, ContentSyncFails
  <2> QED
    BY <2>1, <2>2
<1> QED
  BY <1>1, <1>2, <1>4, <1>5, <1>6, <1>7, <1>8

(* Every statement takes its rows from what is left to do, and those that others put in
   the table meanwhile are remembered as not seen. *)
LEMMA SyncIsComplete ==
  ASSUME BlogInv, NEW s \in Syncs,
         (\E a \in Articles : WriteRow(s, a)) \/ FetchContent(s) \/ StartWithdraw(s)
           \/ CommitSnapshot(s) \/ ContentSyncFails(s)
  PROVE  SnapshotIsComplete' /\ PublishedIsListed'
<1>1. UNCHANGED <<commits, desk>>
  BY SyncTypes
<1>2. Newest \in Nat /\ Newest >= 1
  BY DEF BlogInv, BlogTyped, Newest
<1>3. \A n : Present(n)' = Present(n)
  BY <1>1 DEF Present, Text
<1> USE DEF BlogInv, BlogTyped, SnapshotIsComplete, PublishedIsListed
<1>4. ASSUME NEW a \in Articles, WriteRow(s, a) PROVE SnapshotIsComplete' /\ PublishedIsListed'
  <2>1. UNCHANGED <<fetched, stage, unseen, posts, listed>>
    BY <1>4 DEF WriteRow
  <2>2. \A t \in Syncs : todo[t] \union locked[t] = todo'[t] \union locked'[t] /\ locked[t] \subseteq locked'[t]
    BY <1>4 DEF WriteRow
  <2>3. \A t \in Syncs : Present(fetched[t])' = Present(fetched[t])
    BY <1>1, <2>1 DEF Present, Text
  <2> QED
    BY <2>1, <2>2, <2>3
<1>5. CASE FetchContent(s)
  <2>1. /\ fetched' = [fetched EXCEPT ![s] = Newest] /\ stage' = [stage EXCEPT ![s] = "writing"]
        /\ todo' = [todo EXCEPT ![s] = Present(Newest)] /\ UNCHANGED <<locked, unseen, posts, listed>>
    BY <1>5 DEF FetchContent
  <2>2. /\ fetched'[s] = Newest /\ todo'[s] = Present(Newest) /\ stage'[s] = "writing"
        /\ \A t \in Syncs \ {s} : fetched'[t] = fetched[t] /\ todo'[t] = todo[t] /\ stage'[t] = stage[t]
    BY <2>1
  <2>3. /\ Present(fetched[s])' = todo'[s]
        /\ \A t \in Syncs \ {s} : Present(fetched[t])' = Present(fetched[t])
    BY <1>1, <2>2 DEF Present, Text
  <2> QED
    BY <1>2, <2>1, <2>2, <2>3
<1>6. CASE StartWithdraw(s)
  <2>1. /\ stage[s] = "writing" /\ todo[s] = {} /\ stage' = [stage EXCEPT ![s] = "withdrawing"]
        /\ todo' = [todo EXCEPT ![s] = listed \ Present(fetched[s])]
        /\ UNCHANGED <<fetched, locked, unseen, posts, listed>>
    BY <1>6 DEF StartWithdraw, Unlisted
  <2>2. /\ todo'[s] = listed \ Present(fetched[s]) /\ stage'[s] = "withdrawing"
        /\ \A t \in Syncs \ {s} : todo'[t] = todo[t] /\ stage'[t] = stage[t]
    BY <2>1
  <2>3. \A t \in Syncs : Present(fetched[t])' = Present(fetched[t])
    BY <1>1, <2>1 DEF Present, Text
  <2> QED
    BY <2>1, <2>2, <2>3
<1>7. CASE CommitSnapshot(s)
  <2> DEFINE new == Present(fetched[s]) \ listed
  <2>1. stage[s] = "withdrawing" /\ todo[s] = {}
    BY <1>7 DEF CommitSnapshot
  <2>2. /\ stage'[s] = "idle" /\ listed' = listed \union new
        /\ \A t \in Syncs \ {s} : /\ fetched'[t] = fetched[t] /\ stage'[t] = stage[t]
                                  /\ todo'[t] = todo[t] /\ locked'[t] = locked[t]
                                  /\ stage[t] = "withdrawing" => unseen'[t] = unseen[t] \union new
    BY <1>7 DEF CommitSnapshot, Ends, Overlooked
  <2>3. \A t \in Syncs \ {s} : Present(fetched[t])' = Present(fetched[t])
    BY <1>1, <2>2 DEF Present, Text
  <2>4. SnapshotIsComplete'
    BY <2>2, <2>3
  <2>5. PublishedIsListed'
    <3>1. \A a \in Articles : posts'[a] # 0 => posts[a] # 0 \/ a \in Present(fetched[s])
      BY <1>7 DEF CommitSnapshot
    <3> QED
      BY <2>2, <3>1
  <2> QED
    BY <2>4, <2>5
<1>8. CASE ContentSyncFails(s)
  <2>1. /\ stage'[s] = "idle" /\ UNCHANGED <<posts, listed>>
        /\ \A t \in Syncs \ {s} : /\ fetched'[t] = fetched[t] /\ stage'[t] = stage[t]
                                  /\ todo'[t] = todo[t] /\ locked'[t] = locked[t] /\ unseen'[t] = unseen[t]
    BY <1>8 DEF ContentSyncFails, Ends
  <2>2. \A t \in Syncs \ {s} : Present(fetched[t])' = Present(fetched[t])
    BY <1>1, <2>1 DEF Present, Text
  <2> QED
    BY <2>1, <2>2
<1> QED
  BY <1>4, <1>5, <1>6, <1>7, <1>8

(* What a synchronisation leaves is the commit it read, when it has seen every row. *)
LEMMA SyncPublishes ==
  ASSUME BlogInv, NEW s \in Syncs, CommitSnapshot(s)
  PROVE  PostsAreOneCommit'
<1> SUFFICES ASSUME ~mixed' PROVE \E n \in 1..Newest' : \A a \in Articles : posts'[a] = Text(n, a).body'
  BY DEF PostsAreOneCommit
<1>1. UNCHANGED commits /\ unseen[s] = {} /\ todo[s] = {} /\ stage[s] = "withdrawing"
  BY DEF CommitSnapshot
<1>2. Newest \in Nat /\ fetched[s] \in 0..Newest
  BY DEF BlogInv, BlogTyped, ReadsAreCommits, Newest
<1>3. PICK n \in 1..Newest : n = fetched[s]
  BY <1>1, <1>2 DEF BlogInv, SnapshotIsComplete
<1>4. Present(n) \subseteq locked[s] /\ listed \ Present(n) \subseteq locked[s]
  BY <1>1, <1>3 DEF BlogInv, SnapshotIsComplete
<1>5. \A a \in Articles : a \notin Present(n) => Text(n, a).body = 0
  BY DEF BlogInv, BodiesAreListed, Present
<1>6. \A a \in Articles : posts'[a] =
        IF a \notin locked[s] THEN posts[a] ELSE IF a \in Present(n) THEN Text(n, a).body ELSE 0
  BY <1>3 DEF CommitSnapshot
<1>7. \A a \in Articles : a \notin locked[s] => posts[a] = 0
  BY <1>4 DEF BlogInv, PublishedIsListed
<1>8. \A a \in Articles : posts'[a] = Text(n, a).body
  BY <1>4, <1>5, <1>6, <1>7
<1>9. \A a \in Articles : Text(n, a).body' = Text(n, a).body
  BY <1>1 DEF Text
<1>10. n \in 1..Newest'
  BY <1>1 DEF Newest
<1> QED
  BY <1>8, <1>9, <1>10

(* The steps of a synchronisation. *)
LEMMA SyncKeeps ==
  ASSUME BlogInv, NEW s \in Syncs,
         (\E a \in Articles : WriteRow(s, a)) \/ FetchContent(s) \/ StartWithdraw(s)
           \/ CommitSnapshot(s) \/ ContentSyncFails(s)
  PROVE  BlogInv'
<1>1. BlogTyped' /\ ReadsAreCommits' /\ UNCHANGED <<commits, desk>>
  BY SyncTypes
<1>2. SnapshotIsComplete' /\ PublishedIsListed'
  BY SyncIsComplete
<1>3. BodiesAreListed' /\ ReadIsShown'
  BY <1>1 DEF BlogInv, BodiesAreListed, ReadIsShown, Newest, Text
<1>4. PostsAreOneCommit'
  <2>1. CASE ~CommitSnapshot(s)
    <3>1. UNCHANGED <<posts, mixed>>
      BY <2>1 DEF WriteRow, FetchContent, StartWithdraw, ContentSyncFails
    <3> QED
      BY <1>1, <3>1 DEF BlogInv, PostsAreOneCommit, Newest, Text
  <2> QED
    BY <2>1, SyncPublishes
<1> QED
  BY <1>1, <1>2, <1>3, <1>4 DEF BlogInv

(* Every step keeps the invariant. *)
LEMMA BlogInvStep == BlogInv /\ [BlogNext]_blogVars => BlogInv'
<1>1. ASSUME BlogInv, UNCHANGED blogVars PROVE BlogInv'
  BY <1>1 DEF blogVars, copies, BlogInv, BlogTyped, ReadsAreCommits, BodiesAreListed, ReadIsShown,
       SnapshotIsComplete, PublishedIsListed, PostsAreOneCommit, Present, Newest, Text
<1> QED
  BY <1>1, PushKeeps, EditorKeeps, SyncKeeps DEF BlogNext, SomebodyPushes, EditingNext, CopyingNext

(* Every reachable state of the articles satisfies the invariant. *)
THEOREM BlogInvariance == BlogSpec => []BlogInv
  BY BlogInvInit, BlogInvStep, PTL DEF BlogSpec

(* Every reachable state of the articles is well typed. *)
THEOREM BlogTypeCorrect == BlogSpec => []BlogTypeOK
<1>1. BlogInv => BlogTypeOK
  BY BlogTypes DEF BlogInv
<1> QED
  BY <1>1, BlogInvariance, PTL

(* What visitors read is one commit as a whole (ApplyBlogSnapshot), but for articles that
   an overlapping synchronisation has just put in the table, for any number of articles,
   editors, synchronisations and commits. *)
THEOREM PostsAreOneCommitAlways == BlogSpec => []PostsAreOneCommit
<1>1. BlogInv => PostsAreOneCommit
  BY DEF BlogInv
<1> QED
  BY <1>1, BlogInvariance, PTL

(* A save replaces what its author saw and nothing else (SaveArticle, DeleteArticle), for
   any number of articles, editors and commits. *)
THEOREM SavesOverwriteNothingAlways == BlogSpec => SavesOverwriteNothing
<1>1. ASSUME BlogInv, BlogNext, NEW e \in Editors,
             desk[e].step = "saving", desk'[e].step = "closed", commits' # commits
      PROVE  /\ Text(Newest, desk[e].article) = Text(desk[e].shown, desk[e].article)
             /\ \A b \in Articles \ {desk[e].article} : Text(Newest, b)' = Text(Newest, b)
  <2>1. PICK d \in Editors : SaveArticle(d) \/ DeleteArticle(d)
    <3>1. ~\E a \in Articles : Push(a)
      BY <1>1 DEF Push
    <3> QED
      BY <1>1, <3>1 DEF BlogNext, SomebodyPushes, EditingNext, CopyingNext, OpenArticle, ReadForSave,
           CloseArticle, FetchContent, WriteRow, StartWithdraw, CommitSnapshot, ContentSyncFails
  <2>2. desk' = [desk EXCEPT ![d] = NoDesk] /\ FilesUnchanged(d) /\ desk[d].step = "saving"
    BY <2>1 DEF SaveArticle, DeleteArticle
  <2>3. d = e
    BY <1>1, <2>2 DEF BlogInv, BlogTyped
  <2>4. /\ desk[e].article \in Articles /\ Newest \in 1..Newest
        /\ desk[e].shown \in 1..Newest /\ desk[e].read \in 1..Newest
        /\ \A n \in 1..Newest, b \in Articles : Text(n, b) \in Entries
    BY <1>1 DEF BlogInv, BlogTyped, ReadsAreCommits, Newest, Text, Texts
  <2>5. Text(Newest, desk[e].article) = Text(desk[e].shown, desk[e].article)
    <3>1. Text(Newest, desk[e].article).body = Text(desk[e].shown, desk[e].article).body
      BY <1>1, <2>2, <2>3 DEF FilesUnchanged, BodyUnchanged, BlogInv, ReadIsShown
    <3>2. Text(Newest, desk[e].article).meta = Text(desk[e].shown, desk[e].article).meta
      BY <1>1, <2>2, <2>3, <2>4 DEF FilesUnchanged, Manifest, BlogInv, ReadIsShown
    <3>3. PICK x \in Entries, y \in Entries :
            x = Text(Newest, desk[e].article) /\ y = Text(desk[e].shown, desk[e].article)
      BY <2>4
    <3>4. x = y
      BY <3>1, <3>2, <3>3 DEF Entries
    <3> QED
      BY <3>3, <3>4
  <2>6. \E entry \in Nat, body \in Nat : Commit(Rewritten(e, entry, body))
    <3>1. CASE SaveArticle(e)
      <4>1. PICK entry \in {Newest + 1, Text(desk[e].read, desk[e].article).meta} \ {0} :
              Commit(Rewritten(e, entry, Newest + 1))
        BY <3>1 DEF SaveArticle
      <4>2. entry \in Nat /\ Newest + 1 \in Nat
        BY <2>4, <4>1 DEF Entries
      <4> QED
        BY <4>1, <4>2
    <3>2. CASE DeleteArticle(e)
      BY <3>2 DEF DeleteArticle
    <3> QED
      BY <2>1, <2>3, <3>1, <3>2
  <2>7. PICK entry \in Nat, body \in Nat : Commit(Rewritten(e, entry, body))
    BY <2>6
  <2>8. PICK text \in Texts :
          text = Rewritten(e, entry, body) /\ \A b \in Articles \ {desk[e].article} : text[b] = Text(Newest, b)
    <3>1. FilesUnchanged(e)
      BY <2>2, <2>3
    <3> QED
      BY <1>1, <3>1, RewrittenText
  <2>9. \A a \in Articles : Text(Newest, a)' = text[a]
    BY <1>1, <2>7, <2>8, PushEffect DEF BlogInv
  <2> QED
    BY <2>5, <2>8, <2>9
<1>2. BlogInv /\ [BlogNext]_blogVars =>
        [\A e \in Editors :
           desk[e].step = "saving" /\ desk'[e].step = "closed" /\ commits' # commits =>
             /\ Text(Newest, desk[e].article) = Text(desk[e].shown, desk[e].article)
             /\ \A b \in Articles \ {desk[e].article} : Text(Newest, b)' = Text(Newest, b)]_blogVars
  BY <1>1 DEF blogVars
<1> QED
  BY <1>2, BlogInvariance, PTL DEF BlogSpec, SavesOverwriteNothing

-----------------------------------------------------------------------------
(* The home page *)

(* The lists an item may be in. *)
ListsOf(i) ==
  IF i \in Banners THEN {"banners"} ELSE IF i \in Sections THEN {"sections"} ELSE Sections

PlaceRows == [list : Lists \union {NoList}, position : 0..MaxPosition]
Wrotes == UNION {[D -> PlaceRows] : D \in SUBSET Items}
EditRecords == [step : {"idle", "locked", "written"}, op : {"none", "create", "delete", "move"},
                item : Items \union {NoList}, list : Lists \union {NoList}, wrote : Wrotes]

HomeTyped == placed \in [Items -> PlaceRows] /\ edit \in [Requests -> EditRecords]

(* No two rows of a list have the same position. *)
RowsInOrder ==
  \A i, j \in Items : i # j /\ There(i) /\ placed[i].list = placed[j].list =>
    placed[i].position # placed[j].position

(* Each row is in a list of its kind; that of a card is a section that is there. *)
RowsInPlace ==
  \A i \in Items : There(i) =>
    placed[i].list \in ListsOf(i) /\ (placed[i].list \in Sections => There(placed[i].list))

(* A transaction holds the lock of a list of its item, and no other holds it. *)
LocksHeld ==
  \A e \in Requests :
    IF edit[e].step = "idle" THEN edit[e].item = NoList /\ edit[e].list = NoList /\ edit[e].op = "none"
    ELSE /\ edit[e].item \in Items /\ edit[e].list \in ListsOf(edit[e].item) /\ edit[e].op # "none"
         /\ \A d \in Requests \ {e} : edit[d].list # edit[e].list

(* Nobody else can write of an item that is being created. *)
CreatesAlone ==
  \A e \in Requests : edit[e].op = "create" =>
    /\ ~There(edit[e].item)
    /\ \A d \in Requests \ {e} :
         edit[d].item = edit[e].item => edit[d].op = "move" /\ edit[d].step = "locked"

(* An item that is being deleted is in the list that is locked, if it still is. *)
DeletesThere ==
  \A e \in Requests : edit[e].op = "delete" /\ There(edit[e].item) =>
    placed[edit[e].item].list = edit[e].list

(* What a transaction wrote: a row at a place of its own in a list that is there, *)
CreateWritten(i, list, rows) ==
  /\ DOMAIN rows = {i} /\ rows[i].list = list
  /\ \A j \in Items : placed[j].list = list => placed[j].position # rows[i].position
  /\ list \in Sections => There(list)

(* or no row for the item and for what is in it, *)
DeleteWritten(i, rows) ==
  /\ i \in DOMAIN rows
  /\ \A j \in Items : placed[j].list = i => j \in DOMAIN rows
  /\ \A j \in DOMAIN rows : rows[j] = NoRow /\ (j # i => placed[j].list = i)

(* or the positions of two rows of the list exchanged. *)
MoveWritten(list, rows) ==
  \E a, b \in Items :
    /\ a # b /\ DOMAIN rows = {a, b} /\ placed[a].list = list /\ placed[b].list = list
    /\ rows[a].list = list /\ rows[a].position = placed[b].position
    /\ rows[b].list = list /\ rows[b].position = placed[a].position

Written(op, i, list, rows) ==
  /\ op = "create" => CreateWritten(i, list, rows)
  /\ op = "delete" => DeleteWritten(i, rows)
  /\ op = "move" => MoveWritten(list, rows)

WritesHold ==
  \A e \in Requests : edit[e].step = "written" =>
    Written(edit[e].op, edit[e].item, edit[e].list, edit[e].wrote)

(* Nobody has written to a section whose deletion is written. *)
DeletionsExclude ==
  \A d, e \in Requests :
    edit[d].step = "written" /\ edit[d].op = "delete" /\ edit[e].step = "written" =>
      edit[e].list # edit[d].item

HomeInv ==
  /\ HomeTyped /\ RowsInOrder /\ RowsInPlace /\ LocksHeld /\ CreatesAlone /\ DeletesThere
  /\ WritesHold /\ DeletionsExclude

-----------------------------------------------------------------------------

(* The greatest of some numbers up to a bound is one of them. *)
LEMMA GreatestIsThere ==
  ASSUME NEW n \in Nat, NEW T \in SUBSET (0..n), T # {}
  PROVE  Max(T) \in T /\ \A t \in T : t <= Max(T)
<1> DEFINE D == {n - t : t \in T}
<1>1. D \subseteq Nat /\ D # {}
  <2>1. \A t \in 0..n : n - t \in Nat
    OBVIOUS
  <2>2. \A t \in T : n - t \in Nat
    BY <2>1
  <2>3. PICK t \in T : TRUE
    OBVIOUS
  <2>4. n - t \in D
    OBVIOUS
  <2> QED
    BY <2>2, <2>4
<1>2. \A x, y \in Nat : x < y => <<x, y>> \in OpToRel(<, Nat)
  BY DEF OpToRel
<1>3. PICK d \in D : \A y \in D : ~ (<<y, d>> \in OpToRel(<, Nat))
  BY <1>1, NatLessThanWellFounded, WFMin
<1>4. \A y \in D : ~ (y < d)
  BY <1>1, <1>2, <1>3
<1>5. PICK m \in T : d = n - m
  OBVIOUS
<1>6. \A t \in T : m >= t
  BY <1>4, <1>5
<1>7. Max(T) \in T /\ \A t \in T : Max(T) >= t
  BY <1>5, <1>6 DEF Max
<1> QED
  BY <1>7

(* The names of lists, sections and items do not meet, but for the sections. *)
LEMMA NamesApart ==
  /\ \A i \in Items : ListsOf(i) \subseteq Lists /\ NoList \notin ListsOf(i)
  /\ \A i \in Items : \A l \in ListsOf(i) : l \in Items => l \in Sections
  /\ \A i \in Items : \A l \in ListsOf(i) : l \in Sections => i \notin Sections
  /\ \A i \in Sections : ListsOf(i) = {"sections"} /\ i \in Items
  /\ NoList \notin Items /\ NoList \notin Lists /\ "sections" \notin Items
  BY HomeAssumption DEF ListsOf, Lists, Items

(* Records and functions of the model that are used below are well typed. *)
LEMMA RowsTyped ==
  /\ \A D \in SUBSET Items : \A rows \in [D -> PlaceRows] : rows \in Wrotes
  /\ \A rows \in Wrotes : DOMAIN rows \subseteq Items /\ \A i \in DOMAIN rows : rows[i] \in PlaceRows
  /\ <<>> \in Wrotes
  /\ NoRow \in PlaceRows /\ NoRow.list = NoList
<1>1. \A D \in SUBSET Items : \A rows \in [D -> PlaceRows] : rows \in Wrotes
  BY DEF Wrotes
<1>2. \A rows \in Wrotes : DOMAIN rows \subseteq Items /\ \A i \in DOMAIN rows : rows[i] \in PlaceRows
  BY DEF Wrotes
<1>3. <<>> \in [{} -> PlaceRows]
  OBVIOUS
<1>4. NoRow \in PlaceRows /\ NoRow.list = NoList
  BY HomeAssumption DEF NoRow, PlaceRows
<1> QED
  BY <1>1, <1>2, <1>3, <1>4

(* What the invariant says of the properties that the run checks. *)
LEMMA HomeInvSuffices == HomeInv => HomeTypeOK /\ ListsAreOrdered
<1> SUFFICES ASSUME HomeInv PROVE HomeTypeOK /\ ListsAreOrdered
  OBVIOUS
<1>1. \A e \in Requests : edit[e] \in EditRecords /\ edit[e].wrote \in Wrotes
  BY DEF HomeInv, HomeTyped, EditRecords
<1>2. HomeTypeOK
  BY <1>1, RowsTyped DEF HomeInv, HomeTyped, HomeTypeOK, PlaceRows, EditRecords
<1>3. \A c \in Cards : ListsOf(c) = Sections /\ c \in Items
  BY HomeAssumption DEF ListsOf, Items
<1> QED
  BY <1>2, <1>3 DEF HomeInv, RowsInOrder, RowsInPlace, ListsAreOrdered

(* A request that does nothing is well typed. *)
LEMMA NoEditTyped == NoEdit \in EditRecords /\ NoEdit.step = "idle" /\ NoEdit.op = "none"
                      /\ NoEdit.item = NoList /\ NoEdit.list = NoList
  BY RowsTyped DEF NoEdit, EditRecords

(* The home page is empty at the start. *)
LEMMA HomeInvInit == HomeInit => HomeInv
<1> SUFFICES ASSUME HomeInit PROVE HomeInv
  OBVIOUS
<1>1. placed \in [Items -> PlaceRows] /\ \A i \in Items : ~There(i)
  BY RowsTyped DEF HomeInit, There
<1>2. edit \in [Requests -> EditRecords]
      /\ \A e \in Requests : edit[e].step = "idle" /\ edit[e].op = "none" /\ edit[e].item = NoList
                             /\ edit[e].list = NoList
  BY NoEditTyped DEF HomeInit
<1> QED
  BY <1>1, <1>2 DEF HomeInv, HomeTyped, RowsInOrder, RowsInPlace, LocksHeld, CreatesAlone,
       DeletesThere, WritesHold, DeletionsExclude

(* A transaction begins: its list is locked by nobody else. *)
LEMMA BeginKeeps ==
  ASSUME HomeInv, NEW e \in Requests, NEW op \in {"create", "delete", "move"}, NEW i \in Items,
         NEW list \in ListsOf(i), BeginEdit(e, op, i, list),
         op = "create" => Fresh(i), op = "delete" => placed[i].list = list
  PROVE  HomeInv'
<1> DEFINE r == [NoEdit EXCEPT !.step = "locked", !.op = op, !.item = i, !.list = list]
<1>1. r \in EditRecords /\ r.step = "locked" /\ r.op = op /\ r.item = i /\ r.list = list
  <2>1. list \in Lists
    BY NamesApart
  <2> QED
    BY <2>1, RowsTyped DEF NoEdit, EditRecords
<1>2. edit' = [edit EXCEPT ![e] = r] /\ UNCHANGED placed /\ LockFree(list)
      /\ edit \in [Requests -> EditRecords]
  BY DEF BeginEdit, HomeInv, HomeTyped
<1> HIDE DEF r
<1>3. edit' \in [Requests -> EditRecords] /\ edit'[e] = r /\ \A d \in Requests \ {e} : edit'[d] = edit[d]
  BY <1>1, <1>2
<1>4. HomeTyped' /\ RowsInOrder' /\ RowsInPlace'
  BY <1>2, <1>3 DEF HomeInv, HomeTyped, RowsInOrder, RowsInPlace, There
<1>5. LocksHeld'
  BY <1>1, <1>2, <1>3 DEF HomeInv, LocksHeld, LockFree
<1>6. CreatesAlone'
  <2>1. ASSUME NEW d \in Requests, edit'[d].op = "create" PROVE placed'[edit'[d].item].list = NoList
    BY <1>1, <1>2, <1>3, <2>1 DEF HomeInv, CreatesAlone, There, Fresh
  <2>2. ASSUME NEW d \in Requests, edit'[d].op = "create", NEW c \in Requests \ {d},
               edit'[c].item = edit'[d].item
        PROVE  edit'[c].op = "move" /\ edit'[c].step = "locked"
    <3>1. CASE d = e
      BY <1>1, <1>3, <2>2, <3>1 DEF Fresh
    <3>2. CASE d # e /\ c = e
      <4>1. edit[d].op = "create" /\ edit[d].item = i /\ ~There(i)
        BY <1>1, <1>3, <2>2, <3>2 DEF HomeInv, CreatesAlone
      <4>2. op # "create"
        BY <4>1 DEF Fresh
      <4>3. op # "delete"
        BY <4>1, NamesApart DEF There
      <4> QED
        BY <1>1, <1>3, <3>2, <4>2, <4>3
    <3>3. CASE d # e /\ c # e
      BY <1>3, <2>2, <3>3 DEF HomeInv, CreatesAlone
    <3> QED
      BY <3>1, <3>2, <3>3
  <2> QED
    BY <2>1, <2>2 DEF CreatesAlone, There
<1>7. DeletesThere'
  BY <1>1, <1>2, <1>3 DEF HomeInv, DeletesThere, There
<1>8. WritesHold'
  BY <1>1, <1>2, <1>3 DEF HomeInv, WritesHold, Written, CreateWritten, DeleteWritten, MoveWritten, There
<1>9. DeletionsExclude'
  BY <1>1, <1>3 DEF HomeInv, DeletionsExclude
<1> QED
  BY <1>4, <1>5, <1>6, <1>7, <1>8, <1>9 DEF HomeInv

(* A transaction writes; the rows it wrote are seen by nobody else yet. *)
LEMMA WriteKeepsHome ==
  ASSUME HomeInv, NEW e \in Requests, NEW rows \in Wrotes, edit[e].step = "locked",
         Wrote(e, rows), UNCHANGED placed, ~Deleting(edit[e].list),
         edit[e].op = "delete" => ~WrittenIn(edit[e].item),
         Written(edit[e].op, edit[e].item, edit[e].list, rows),
         edit[e].op = "move" => There(edit[e].item)
  PROVE  HomeInv'
<1>1. edit[e] \in EditRecords /\ edit \in [Requests -> EditRecords]
  BY DEF HomeInv, HomeTyped
<1>2. PICK r \in EditRecords : r = [edit[e] EXCEPT !.step = "written", !.wrote = rows]
  BY <1>1 DEF EditRecords
<1>3. r.step = "written" /\ r.wrote = rows /\ r.op = edit[e].op /\ r.item = edit[e].item /\ r.list = edit[e].list
  BY <1>1, <1>2 DEF EditRecords
<1>4. edit' = [edit EXCEPT ![e] = r]
  BY <1>1, <1>2 DEF Wrote
<1>5. edit' \in [Requests -> EditRecords] /\ edit'[e] = r /\ \A d \in Requests \ {e} : edit'[d] = edit[d]
  BY <1>1, <1>4
<1>6. \A d \in Requests : edit'[d].op = edit[d].op /\ edit'[d].item = edit[d].item
                          /\ edit'[d].list = edit[d].list /\ (edit'[d].step = "idle" <=> edit[d].step = "idle")
  BY <1>3, <1>5
<1>7. HomeTyped' /\ RowsInOrder' /\ RowsInPlace' /\ LocksHeld' /\ DeletesThere'
  BY <1>5, <1>6 DEF HomeInv, HomeTyped, RowsInOrder, RowsInPlace, LocksHeld, DeletesThere, There
<1>8. CreatesAlone'
  <2>1. \A d \in Requests : edit[d].op = "create" => placed[edit[d].item].list = NoList
    BY DEF HomeInv, CreatesAlone, There
  <2>3. \A d \in Requests : edit'[d].op = "create" => placed'[edit'[d].item].list = NoList
    BY <1>6, <2>1
  <2>2. ASSUME NEW d \in Requests, edit[d].op = "create", NEW c \in Requests \ {d},
               edit[c].item = edit[d].item
        PROVE  edit[c].op = "move" /\ edit'[c].step = "locked"
    <3>1. edit[c].op = "move" /\ edit[c].step = "locked"
      BY <2>2 DEF HomeInv, CreatesAlone
    <3>2. c # e
      BY <2>1, <2>2, <3>1 DEF There
    <3> QED
      BY <1>5, <3>1, <3>2
  <2>4. ASSUME NEW d \in Requests, edit'[d].op = "create", NEW c \in Requests \ {d},
               edit'[c].item = edit'[d].item
        PROVE  edit'[c].op = "move" /\ edit'[c].step = "locked"
    BY <1>6, <2>2, <2>4
  <2> QED
    BY <2>3, <2>4 DEF CreatesAlone, There
<1>9. WritesHold'
  <2>1. \A op, i, list, wrote : Written(op, i, list, wrote) => Written(op, i, list, wrote)'
    <3>1. placed' = placed
      OBVIOUS
    <3>2. \A i, list, wrote : CreateWritten(i, list, wrote) => CreateWritten(i, list, wrote)'
      BY <3>1, Zenon DEF CreateWritten, There
    <3>3. \A i, wrote : DeleteWritten(i, wrote) => DeleteWritten(i, wrote)'
      BY <3>1, Zenon DEF DeleteWritten
    <3>4. ASSUME NEW list, NEW wrote, MoveWritten(list, wrote)
          PROVE  MoveWritten(list, wrote)'
      <4>1. PICK a \in Items, b \in Items :
              /\ a # b /\ DOMAIN wrote = {a, b} /\ placed[a].list = list /\ placed[b].list = list
              /\ wrote[a].list = list /\ wrote[a].position = placed[b].position
              /\ wrote[b].list = list /\ wrote[b].position = placed[a].position
        BY <3>4 DEF MoveWritten
      <4> QED
        BY <3>1, <4>1, Zenon DEF MoveWritten
    <3> QED
      BY <3>2, <3>3, <3>4, Zenon DEF Written
  <2> SUFFICES ASSUME NEW d \in Requests, edit'[d].step = "written"
               PROVE  Written(edit[d].op, edit[d].item, edit[d].list, edit[d].wrote)'
    BY DEF WritesHold
  <2>2. PICK op, i, list, wrote : op = edit'[d].op /\ i = edit'[d].item /\ list = edit'[d].list
                                 /\ wrote = edit'[d].wrote
    OBVIOUS
  <2>3. Written(op, i, list, wrote)
    <3>1. CASE d = e
      BY <1>3, <1>5, <2>2, <3>1
    <3>2. CASE d # e
      BY <1>5, <2>2, <3>2 DEF HomeInv, WritesHold
    <3> QED
      BY <3>1, <3>2
  <2>4. Written(op, i, list, wrote)'
    BY <2>1, <2>3
  <2> QED
    BY <2>2, <2>4
<1>10. DeletionsExclude'
  <2> SUFFICES ASSUME NEW d \in Requests, NEW c \in Requests, edit'[d].step = "written",
                      edit'[d].op = "delete", edit'[c].step = "written"
               PROVE  edit[c].list # edit[d].item
    BY <1>6 DEF DeletionsExclude
  <2>1. CASE d = e /\ c = e
    <3>1. edit[e].item \in Items /\ edit[e].list \in ListsOf(edit[e].item)
      BY DEF HomeInv, LocksHeld
    <3>2. edit[e].list = edit[e].item => FALSE
      BY <3>1, NamesApart
    <3> QED
      BY <2>1, <3>2
  <2>2. CASE d = e /\ c # e
    BY <1>5, <1>6, <2>2 DEF WrittenIn
  <2>3. CASE d # e /\ c = e
    BY <1>5, <1>6, <2>3 DEF Deleting
  <2>4. CASE d # e /\ c # e
    BY <1>5, <2>4 DEF HomeInv, DeletionsExclude
  <2> QED
    BY <2>1, <2>2, <2>3, <2>4
<1> QED
  BY <1>7, <1>8, <1>9, <1>10 DEF HomeInv

(* A row is inserted behind the last of its list, *)
LEMMA InsertKeeps ==
  ASSUME HomeInv, NEW e \in Requests, InsertRow(e)
  PROVE  HomeInv'
<1>1. edit[e].step = "locked" /\ edit[e].op = "create" /\ UNCHANGED placed /\ ~Deleting(edit[e].list)
      /\ (edit[e].list \in Sections => There(edit[e].list)) /\ NextPosition(edit[e].list) <= MaxPosition
  BY DEF InsertRow
<1>2. PICK i \in Items : i = edit[e].item
  BY <1>1 DEF HomeInv, LocksHeld
<1>3. PICK list \in ListsOf(i) : list = edit[e].list
  BY <1>1, <1>2 DEF HomeInv, LocksHeld
<1>4. \A j \in Items : placed[j].position \in 0..MaxPosition
  BY DEF HomeInv, HomeTyped, PlaceRows
<1>5. /\ NextPosition(list) \in 0..MaxPosition
      /\ \A j \in Items : placed[j].list = list => placed[j].position # NextPosition(list)
  <2> DEFINE T == {placed[j].position : j \in Rows(list)}
  <2>1. CASE Rows(list) = {}
    BY <2>1, HomeAssumption DEF NextPosition, Rows
  <2>2. CASE Rows(list) # {}
    <3>1. T \in SUBSET (0..MaxPosition) /\ T # {}
      BY <1>4, <2>2 DEF Rows
    <3>2. Max(T) \in T /\ \A t \in T : t <= Max(T)
      BY <3>1, GreatestIsThere, HomeAssumption
    <3>3. NextPosition(list) = Max(T) + 1
      BY <2>2 DEF NextPosition
    <3>4. \A j \in Items : placed[j].list = list => placed[j].position \in T
      BY DEF Rows
    <3> HIDE DEF T
    <3>7. PICK top \in 0..MaxPosition : top = Max(T)
      BY <3>1, <3>2
    <3>8. PICK next \in Int : next = NextPosition(list) /\ next = top + 1 /\ next <= MaxPosition
      BY <1>1, <1>3, <3>3, <3>7
    <3>5. \A t \in T : t # next
      BY <3>1, <3>2, <3>7, <3>8
    <3>6. next \in 0..MaxPosition
      BY <3>8, HomeAssumption
    <3> QED
      BY <3>4, <3>5, <3>6, <3>8
  <2> QED
    BY <2>1, <2>2
<1>6. PICK p \in 0..MaxPosition : p = NextPosition(list)
  BY <1>5
<1>7. PICK record \in PlaceRows : record = [list |-> list, position |-> p] /\ record.list = list /\ record.position = p
  <2>1. list \in Lists
    BY NamesApart
  <2>2. [list |-> list, position |-> p] \in PlaceRows
    BY <2>1 DEF PlaceRows
  <2> QED
    BY <2>2
<1>8. PICK rows \in Wrotes : rows = [j \in {i} |-> record]
  BY RowsTyped
<1>9. DOMAIN rows = {i} /\ rows[i] = record
  BY <1>8
<1>10. Wrote(e, rows)
  BY <1>2, <1>3, <1>6, <1>7, <1>8 DEF InsertRow
<1>11. CreateWritten(i, list, rows)
  BY <1>1, <1>3, <1>5, <1>6, <1>7, <1>9 DEF CreateWritten
<1> QED
  BY <1>1, <1>2, <1>3, <1>10, <1>11, WriteKeepsHome DEF Written

(* one is deleted with what is in it, *)
LEMMA DeleteKeeps ==
  ASSUME HomeInv, NEW e \in Requests, DeleteRow(e)
  PROVE  HomeInv'
<1>1. edit[e].step = "locked" /\ edit[e].op = "delete" /\ UNCHANGED placed /\ ~Deleting(edit[e].list)
      /\ ~WrittenIn(edit[e].item)
  BY DEF DeleteRow
<1>2. PICK i \in Items : i = edit[e].item
  BY <1>1 DEF HomeInv, LocksHeld
<1>3. {i} \union Rows(i) \in SUBSET Items
  BY DEF Rows
<1>4. PICK rows \in Wrotes : rows = [j \in {i} \union Rows(i) |-> NoRow]
  BY <1>3, RowsTyped
<1>5. Wrote(e, rows)
  BY <1>2, <1>4 DEF DeleteRow
<1>6. DeleteWritten(i, rows)
  BY <1>4 DEF DeleteWritten, Rows
<1> QED
  BY <1>1, <1>2, <1>5, <1>6, WriteKeepsHome DEF Written

(* or two neighbours exchange their positions. *)
LEMMA MoveKeeps ==
  ASSUME HomeInv, NEW e \in Requests, NEW delta \in {-1, 1}, MoveRow(e, delta)
  PROVE  HomeInv'
<1>1. edit[e].step = "locked" /\ edit[e].op = "move" /\ UNCHANGED placed /\ ~Deleting(edit[e].list)
      /\ There(edit[e].item) /\ placed[edit[e].item].list = edit[e].list
  BY DEF MoveRow
<1>2. PICK i \in Items : i = edit[e].item
  BY <1>1 DEF HomeInv, LocksHeld
<1>3. PICK j \in Neighbours(i, delta) :
        Wrote(e, [k \in {i, j} |->
          [placed[k] EXCEPT !.position = IF k = i THEN placed[j].position ELSE placed[i].position]])
  BY <1>2 DEF MoveRow
<1>4. \A k \in Items : placed[k] \in PlaceRows
  BY DEF HomeInv, HomeTyped
<1>5. j \in Items /\ placed[j].list = placed[i].list /\ i # j
  <2>1. j \in Rows(placed[i].list) /\ (placed[j].position - placed[i].position) * delta > 0
    BY DEF Neighbours
  <2>2. placed[i].position \in Int
    BY <1>4 DEF PlaceRows
  <2>3. (placed[i].position - placed[i].position) * delta = 0
    BY <2>2
  <2> QED
    BY <2>1, <2>3 DEF Rows
<1>6. PICK p \in 0..MaxPosition, q \in 0..MaxPosition : p = placed[i].position /\ q = placed[j].position
  BY <1>4, <1>5 DEF PlaceRows
<1>7. \A r \in PlaceRows : \A n \in 0..MaxPosition :
        /\ [r EXCEPT !.position = n] \in PlaceRows
        /\ [r EXCEPT !.position = n].list = r.list /\ [r EXCEPT !.position = n].position = n
  BY DEF PlaceRows
<1>13. PICK x \in PlaceRows : x = [placed[i] EXCEPT !.position = q]
  BY <1>4, <1>7
<1>14. PICK y \in PlaceRows : y = [placed[j] EXCEPT !.position = p]
  BY <1>4, <1>5, <1>7
<1>15. x.list = placed[i].list /\ x.position = q
  BY <1>4, <1>7, <1>13
<1>16. y.list = placed[j].list /\ y.position = p
  BY <1>4, <1>5, <1>7, <1>14
<1>8. PICK rows \in Wrotes : rows = [k \in {i, j} |-> IF k = i THEN x ELSE y]
  BY <1>5, RowsTyped
<1>9. DOMAIN rows = {i, j} /\ rows[i] = x /\ rows[j] = y
  BY <1>5, <1>8
<1>10. [k \in {i, j} |->
          [placed[k] EXCEPT !.position = IF k = i THEN placed[j].position ELSE placed[i].position]] = rows
  <2>1. \A k \in {i, j} :
          [placed[k] EXCEPT !.position = IF k = i THEN placed[j].position ELSE placed[i].position]
            = IF k = i THEN x ELSE y
    BY <1>5, <1>6, <1>13, <1>14
  <2> QED
    BY <1>8, <2>1
<1>11. Wrote(e, rows)
  BY <1>3, <1>10
<1>12. MoveWritten(edit[e].list, rows)
  BY <1>1, <1>2, <1>5, <1>6, <1>9, <1>15, <1>16 DEF MoveWritten
<1> QED
  BY <1>1, <1>11, <1>12, WriteKeepsHome DEF Written

(* What was written is forgotten. *)
LEMMA RollbackKeeps ==
  ASSUME HomeInv, NEW e \in Requests, RollbackEdit(e)
  PROVE  HomeInv'
<1>1. edit' \in [Requests -> EditRecords] /\ edit'[e] = NoEdit /\ \A d \in Requests \ {e} : edit'[d] = edit[d]
  BY NoEditTyped DEF RollbackEdit, HomeInv, HomeTyped
<1>2. UNCHANGED placed
  BY DEF RollbackEdit
<1>3. HomeTyped' /\ RowsInOrder' /\ RowsInPlace' /\ DeletesThere' /\ DeletionsExclude'
  BY <1>1, <1>2, NoEditTyped DEF HomeInv, HomeTyped, RowsInOrder, RowsInPlace, DeletesThere,
       DeletionsExclude, There
<1>4. LocksHeld'
  <2>1. \A i \in Items : NoList \notin ListsOf(i)
    BY NamesApart
  <2> QED
    BY <1>1, <2>1, NoEditTyped DEF HomeInv, LocksHeld
<1>5. CreatesAlone'
  <2>1. \A d \in Requests : edit[d].op = "create" => edit[d].item \in Items
    BY DEF HomeInv, LocksHeld
  <2> QED
    BY <1>1, <1>2, <2>1, NoEditTyped, NamesApart DEF HomeInv, CreatesAlone, There
<1>6. WritesHold'
  BY <1>1, <1>2, NoEditTyped DEF HomeInv, WritesHold, Written, CreateWritten, DeleteWritten, MoveWritten, There
<1> QED
  BY <1>3, <1>4, <1>5, <1>6 DEF HomeInv

-----------------------------------------------------------------------------
(* The commit of one of the three. *)

CreatesRow(e) ==
  /\ edit[e].op = "create" /\ ~There(edit[e].item)
  /\ placed'[edit[e].item].list = edit[e].list
  /\ \A j \in Items \ {edit[e].item} : placed'[j] = placed[j]
  /\ \A j \in Items : placed[j].list = edit[e].list => placed[j].position # placed'[edit[e].item].position
  /\ edit[e].list \in Sections => There(edit[e].list)

DeletesRows(e) ==
  /\ edit[e].op = "delete"
  /\ There(edit[e].item) => placed[edit[e].item].list = edit[e].list
  /\ \A j \in Items :
       placed'[j] = IF There(j) /\ (j = edit[e].item \/ placed[j].list = edit[e].item)
                    THEN NoRow ELSE placed[j]

ExchangesRows(e) ==
  /\ edit[e].op = "move"
  /\ \E a, b \in Items :
       /\ a # b /\ placed[a].list = edit[e].list /\ placed[b].list = edit[e].list
       /\ placed'[a].list = edit[e].list /\ placed'[a].position = placed[b].position
       /\ placed'[b].list = edit[e].list /\ placed'[b].position = placed[a].position
       /\ \A j \in Items \ {a, b} : placed'[j] = placed[j]

(* What a commit does to the rows that others see. *)
LEMMA EditEffect ==
  ASSUME HomeInv, NEW e \in Requests, CommitEdit(e)
  PROVE  /\ placed' \in [Items -> PlaceRows]
         /\ edit' \in [Requests -> EditRecords] /\ edit'[e] = NoEdit
         /\ \A d \in Requests \ {e} : edit'[d] = edit[d]
         /\ CreatesRow(e) \/ DeletesRows(e) \/ ExchangesRows(e)
         /\ edit[e].step = "written" /\ edit[e].item \in Items /\ edit[e].list \in ListsOf(edit[e].item)
<1>1. /\ placed \in [Items -> PlaceRows] /\ edit \in [Requests -> EditRecords] /\ edit[e] \in EditRecords
      /\ edit[e].step = "written" /\ edit[e].item \in Items /\ edit[e].list \in ListsOf(edit[e].item)
      /\ edit[e].op # "none"
  BY DEF CommitEdit, HomeInv, HomeTyped, LocksHeld
<1>2. PICK rows \in Wrotes : rows = edit[e].wrote
  BY <1>1 DEF EditRecords
<1>3. \A i \in Items :
        placed'[i] = IF i \in DOMAIN rows /\ (There(i) \/ edit[e].op = "create") THEN rows[i] ELSE placed[i]
  BY <1>2 DEF CommitEdit
<1>4. placed' \in [Items -> PlaceRows]
  <2>1. \A i \in DOMAIN rows : rows[i] \in PlaceRows
    BY RowsTyped
  <2>2. \A i \in Items : placed'[i] \in PlaceRows
    BY <1>1, <1>3, <2>1
  <2>3. placed' = [i \in Items |-> placed'[i]]
    BY DEF CommitEdit
  <2> QED
    BY <2>2, <2>3
<1>5. edit' = [edit EXCEPT ![e] = NoEdit]
  BY DEF CommitEdit
<1>6. edit' \in [Requests -> EditRecords] /\ edit'[e] = NoEdit /\ \A d \in Requests \ {e} : edit'[d] = edit[d]
  BY <1>1, <1>5, NoEditTyped
<1>7. Written(edit[e].op, edit[e].item, edit[e].list, rows)
  BY <1>1, <1>2 DEF HomeInv, WritesHold
<1>8. CASE edit[e].op = "create"
  <2>1. CreateWritten(edit[e].item, edit[e].list, rows) /\ ~There(edit[e].item)
    BY <1>7, <1>8 DEF Written, HomeInv, CreatesAlone
  <2>2. placed'[edit[e].item] = rows[edit[e].item]
        /\ \A j \in Items \ {edit[e].item} : placed'[j] = placed[j]
    BY <1>1, <1>3, <1>8, <2>1 DEF CreateWritten
  <2>3. CreatesRow(e)
    BY <1>8, <2>1, <2>2 DEF CreatesRow, CreateWritten
  <2> QED
    BY <1>1, <1>4, <1>6, <2>3
<1>9. CASE edit[e].op = "delete"
  <2>1. DeleteWritten(edit[e].item, rows)
        /\ (There(edit[e].item) => placed[edit[e].item].list = edit[e].list)
    BY <1>7, <1>9 DEF Written, HomeInv, DeletesThere
  <2>2. \A j \in Items : j \in DOMAIN rows <=> (j = edit[e].item \/ placed[j].list = edit[e].item)
    BY <2>1 DEF DeleteWritten
  <2>3. DeletesRows(e)
    BY <1>3, <1>9, <2>1, <2>2 DEF DeletesRows, DeleteWritten
  <2> QED
    BY <1>1, <1>4, <1>6, <2>3
<1>10. CASE edit[e].op = "move"
  <2>1. PICK a \in Items, b \in Items :
          /\ a # b /\ DOMAIN rows = {a, b} /\ placed[a].list = edit[e].list /\ placed[b].list = edit[e].list
          /\ rows[a].list = edit[e].list /\ rows[a].position = placed[b].position
          /\ rows[b].list = edit[e].list /\ rows[b].position = placed[a].position
    BY <1>7, <1>10 DEF Written, MoveWritten
  <2>2. edit[e].list # NoList
    BY <1>1, NamesApart
  <2>3. placed'[a] = rows[a] /\ placed'[b] = rows[b] /\ \A j \in Items \ {a, b} : placed'[j] = placed[j]
    BY <1>3, <2>1, <2>2 DEF There
  <2>4. ExchangesRows(e)
    BY <1>10, <2>1, <2>3 DEF ExchangesRows
  <2> QED
    BY <1>1, <1>4, <1>6, <2>4
<1>11. edit[e].op \in {"none", "create", "delete", "move"}
  BY <1>1 DEF EditRecords
<1> QED
  BY <1>1, <1>8, <1>9, <1>10, <1>11

(* The committed rows keep their order and their places. *)
LEMMA CommitKeepsRows ==
  ASSUME HomeInv, NEW e \in Requests, CommitEdit(e)
  PROVE  RowsInOrder' /\ RowsInPlace'
<1> DEFINE i == edit[e].item
           list == edit[e].list
<1>1. /\ i \in Items /\ list \in ListsOf(i) /\ list # NoList /\ i # NoList
      /\ RowsInOrder /\ RowsInPlace /\ NoRow.list = NoList
  BY EditEffect, NamesApart, RowsTyped DEF HomeInv
<1>2. CASE CreatesRow(e)
  <2>1. RowsInOrder'
    BY <1>1, <1>2 DEF CreatesRow, RowsInOrder, There
  <2>2. \A j \in Items : There(j) => There(j)'
    BY <1>1, <1>2 DEF CreatesRow, There
  <2>3. ASSUME list \in Sections PROVE placed'[list].list # NoList
    <3>1. PICK s \in Items : s = list
      BY <2>3, NamesApart
    <3>2. placed[s].list # NoList
      BY <1>2, <2>3, <3>1 DEF CreatesRow, There
    <3>3. placed'[s].list # NoList
      BY <2>2, <3>2 DEF There
    <3> QED
      BY <3>1, <3>3
  <2>4. ASSUME NEW j \in Items, There(j)'
        PROVE  placed'[j].list \in ListsOf(j) /\ (placed'[j].list \in Sections => placed'[placed'[j].list].list # NoList)
    <3>1. CASE j = i
      BY <1>1, <1>2, <2>3, <3>1 DEF CreatesRow
    <3>2. CASE j # i
      <4>1. placed'[j] = placed[j] /\ There(j)
        BY <1>2, <2>4, <3>2 DEF CreatesRow, There
      <4>2. placed[j].list \in ListsOf(j)
            /\ (placed[j].list \in Sections => placed[j].list \in Items /\ There(placed[j].list))
        BY <1>1, <4>1, NamesApart DEF RowsInPlace
      <4>3. \A s \in Items : There(s) => placed'[s].list # NoList
        BY <2>2 DEF There
      <4> QED
        BY <4>1, <4>2, <4>3
    <3> QED
      BY <3>1, <3>2
  <2> QED
    BY <2>1, <2>4 DEF RowsInPlace, There
<1>3. CASE DeletesRows(e)
  <2>1. \A j \in Items : There(j)' => placed'[j] = placed[j] /\ There(j) /\ placed[j].list # i /\ j # i
    BY <1>1, <1>3 DEF DeletesRows, There
  <2>2. RowsInOrder'
    BY <1>1, <2>1 DEF RowsInOrder, There
  <2>3. ASSUME NEW j \in Items, There(j)'
        PROVE  placed'[j].list \in ListsOf(j) /\ (placed'[j].list \in Sections => placed'[placed'[j].list].list # NoList)
    <3>1. placed'[j] = placed[j] /\ There(j) /\ placed[j].list # i
      BY <2>1, <2>3
    <3>2. placed[j].list \in ListsOf(j) /\ (placed[j].list \in Sections => There(placed[j].list))
      BY <1>1, <3>1 DEF RowsInPlace
    <3>3. ASSUME placed[j].list \in Sections PROVE placed'[placed[j].list].list # NoList
      <4>1. PICK s \in Sections : s = placed[j].list
        BY <3>3
      <4>2. s \in Items /\ s # i /\ There(s) /\ placed[s].list = "sections"
        BY <1>1, <3>1, <3>2, <4>1, NamesApart DEF RowsInPlace
      <4>3. placed[s].list # i
        BY <1>1, <4>2, NamesApart
      <4>4. placed'[s] = placed[s]
        BY <1>3, <4>2, <4>3 DEF DeletesRows
      <4> QED
        BY <3>1, <4>1, <4>2, <4>4 DEF There
    <3> QED
      BY <3>1, <3>2, <3>3
  <2> QED
    BY <2>2, <2>3 DEF RowsInPlace, There
<1>4. CASE ExchangesRows(e)
  <2>1. PICK a \in Items, b \in Items :
          /\ a # b /\ placed[a].list = list /\ placed[b].list = list
          /\ placed'[a].list = list /\ placed'[a].position = placed[b].position
          /\ placed'[b].list = list /\ placed'[b].position = placed[a].position
          /\ \A j \in Items \ {a, b} : placed'[j] = placed[j]
    BY <1>4 DEF ExchangesRows
  <2>2. \A j \in Items : placed'[j].list = placed[j].list
    BY <2>1
  <2>3. \A j \in Items : There(j)' <=> There(j)
    BY <2>2 DEF There
  <2>4. RowsInPlace'
    <3> SUFFICES ASSUME NEW j \in Items, There(j)'
                 PROVE  placed'[j].list \in ListsOf(j)
                        /\ (placed'[j].list \in Sections => placed'[placed'[j].list].list # NoList)
      BY DEF RowsInPlace, There
    <3>1. placed[j].list \in ListsOf(j) /\ (placed[j].list \in Sections => There(placed[j].list))
      BY <1>1, <2>3 DEF RowsInPlace
    <3>2. ASSUME placed[j].list \in Sections PROVE placed'[placed'[j].list].list # NoList
      <4>1. PICK s \in Items : s = placed[j].list
        BY <3>2, NamesApart
      <4>2. placed'[j].list = s /\ placed[s].list # NoList
        BY <2>2, <3>1, <3>2, <4>1 DEF There
      <4>3. placed'[s].list # NoList
        BY <2>2, <4>2
      <4> QED
        BY <4>2, <4>3
    <3> QED
      BY <2>2, <3>1, <3>2
  <2>5. RowsInOrder'
    <3> SUFFICES ASSUME NEW j \in Items, NEW k \in Items, j # k, There(j)', placed'[j].list = placed'[k].list
                 PROVE  placed'[j].position # placed'[k].position
      BY DEF RowsInOrder, There
    <3>1. There(j) /\ placed[j].list = placed[k].list /\ There(a) /\ There(b)
      BY <1>1, <2>1, <2>2, <2>3 DEF There
    <3>2. placed[a].position # placed[b].position
      BY <1>1, <2>1, <3>1 DEF RowsInOrder
    <3>3. \A m \in Items \ {a, b} : placed[m].list = list =>
            placed[m].position # placed[a].position /\ placed[m].position # placed[b].position
      BY <1>1, <2>1, <3>1 DEF RowsInOrder
    <3>4. CASE j \in {a, b} /\ k \in {a, b}
      BY <2>1, <3>2, <3>4
    <3>5. CASE j \in {a, b} /\ k \notin {a, b}
      BY <2>1, <3>1, <3>3, <3>5
    <3>6. CASE j \notin {a, b} /\ k \in {a, b}
      BY <2>1, <3>1, <3>3, <3>6
    <3>7. CASE j \notin {a, b} /\ k \notin {a, b}
      BY <1>1, <2>1, <3>1, <3>7 DEF RowsInOrder
    <3> QED
      BY <3>4, <3>5, <3>6, <3>7
  <2> QED
    BY <2>4, <2>5
<1> QED
  BY <1>2, <1>3, <1>4, EditEffect

(* Another transaction's list is as it was, and so are the rows of a section that
   it has deleted. *)
LEMMA CommitSparesOthers ==
  ASSUME HomeInv, NEW e \in Requests, CommitEdit(e), NEW d \in Requests \ {e}, edit[d].step = "written"
  PROVE  /\ \A k \in Items : placed[k].list = edit[d].list \/ placed'[k].list = edit[d].list =>
              placed'[k] = placed[k]
         /\ edit[d].list \in Sections /\ There(edit[d].list) => placed'[edit[d].list].list # NoList
         /\ edit[d].op = "delete" =>
              \A k \in Items : placed[k].list = edit[d].item \/ placed'[k].list = edit[d].item =>
                placed'[k] = placed[k]
<1> DEFINE i == edit[e].item
           list == edit[e].list
           m == edit[d].item
           l == edit[d].list
<1>1. /\ i \in Items /\ list \in ListsOf(i) /\ list # NoList /\ i # NoList /\ edit[e].step = "written"
      /\ m \in Items /\ l \in ListsOf(m) /\ l # NoList /\ m # NoList
      /\ l # list /\ NoRow.list = NoList
  BY EditEffect, NamesApart, RowsTyped DEF HomeInv, LocksHeld
<1>2. /\ edit[e].op = "delete" => l # i
      /\ edit[d].op = "delete" => list # m
  BY <1>1 DEF HomeInv, DeletionsExclude
<1>3. edit[e].op = "delete" /\ edit[d].op = "delete" =>
        \A k \in Items : There(k) /\ placed[k].list = m => i # m
  <2>1. ASSUME NEW k \in Items, There(k), placed[k].list = m, i = m PROVE FALSE
    <3>1. m \in Sections
      BY <1>1, <2>1, NamesApart DEF HomeInv, RowsInPlace
    <3> QED
      BY <1>1, <2>1, <3>1, NamesApart
  <2> QED
    BY <2>1
<1>4. ASSUME l \in Sections PROVE l \in Items /\ (There(l) => placed[l].list = "sections")
  BY <1>4, NamesApart DEF HomeInv, RowsInPlace
<1>5. "sections" \notin Items
  BY NamesApart
<1> HIDE DEF i, list, m, l
<1>6. CASE CreatesRow(e)
  BY <1>1, <1>2, <1>4, <1>6 DEF CreatesRow, There, i, list, m, l
<1>7. CASE DeletesRows(e)
  <2>1. \A k \in Items : placed[k].list = l \/ placed'[k].list = l => placed'[k] = placed[k]
    BY <1>1, <1>2, <1>7 DEF DeletesRows, There, i, list
  <2>2. l \in Sections /\ There(l) => placed'[l].list # NoList
    BY <1>1, <1>2, <1>4, <1>5, <1>7 DEF DeletesRows, There, i, list, l
  <2>3. ASSUME edit[d].op = "delete", NEW k \in Items, placed[k].list = m \/ placed'[k].list = m
        PROVE  placed'[k] = placed[k]
    BY <1>1, <1>2, <1>3, <1>7, <2>3 DEF DeletesRows, There, i, list
  <2> QED
    BY <2>1, <2>2, <2>3 DEF l, m
<1>8. CASE ExchangesRows(e)
  <2>1. PICK a \in Items, b \in Items :
          /\ placed[a].list = list /\ placed[b].list = list
          /\ placed'[a].list = list /\ placed'[b].list = list
          /\ \A j \in Items \ {a, b} : placed'[j] = placed[j]
    BY <1>8 DEF ExchangesRows, list
  <2>2. \A k \in Items : placed[k].list = l \/ placed'[k].list = l => placed'[k] = placed[k]
    BY <1>1, <2>1
  <2>3. l \in Sections /\ There(l) => placed'[l].list # NoList
    BY <1>1, <1>4, <2>1 DEF There, l
  <2>4. ASSUME edit[d].op = "delete", NEW k \in Items, placed[k].list = m \/ placed'[k].list = m
        PROVE  placed'[k] = placed[k]
    BY <1>2, <2>1, <2>4
  <2> QED
    BY <2>2, <2>3, <2>4 DEF l, m
<1> QED
  BY <1>6, <1>7, <1>8, EditEffect

(* What the others have begun and written holds after the commit. *)
LEMMA CommitKeepsOthers ==
  ASSUME HomeInv, NEW e \in Requests, CommitEdit(e)
  PROVE  LocksHeld' /\ CreatesAlone' /\ DeletesThere' /\ WritesHold' /\ DeletionsExclude'
<1>1. edit'[e] = NoEdit /\ \A d \in Requests \ {e} : edit'[d] = edit[d]
  BY EditEffect
<1>2. edit[e].step = "written" /\ edit[e].item \in Items /\ edit[e].list \in ListsOf(edit[e].item)
      /\ edit[e].list # NoList /\ NoRow.list = NoList
  BY EditEffect, NamesApart, RowsTyped
<1>3. LocksHeld'
  <2>1. \A i \in Items : NoList \notin ListsOf(i)
    BY NamesApart
  <2> QED
    BY <1>1, <2>1, NoEditTyped DEF HomeInv, LocksHeld
<1>4. CreatesAlone'
  <2>1. ASSUME NEW d \in Requests, edit'[d].op = "create" PROVE placed'[edit'[d].item].list = NoList
    <3>1. d # e /\ edit'[d] = edit[d] /\ edit[d].item \in Items /\ ~There(edit[d].item)
      BY <1>1, <2>1, NoEditTyped DEF HomeInv, LocksHeld, CreatesAlone
    <3>2. edit[e].item # edit[d].item \/ edit[e].op = "move"
      BY <2>1, <3>1 DEF HomeInv, CreatesAlone
    <3>3. placed'[edit[d].item].list = placed[edit[d].item].list
      <4>1. CASE CreatesRow(e)
        BY <3>1, <3>2, <4>1 DEF CreatesRow
      <4>2. CASE DeletesRows(e)
        BY <3>1, <4>2 DEF DeletesRows
      <4>3. CASE ExchangesRows(e)
        BY <3>1, <4>3 DEF ExchangesRows
      <4> QED
        BY <4>1, <4>2, <4>3, EditEffect
    <3> QED
      BY <3>1, <3>3 DEF There
  <2>2. \A d \in Requests : edit[d].op = "create" => edit[d].item \in Items
    BY DEF HomeInv, LocksHeld
  <2>3. ASSUME NEW d \in Requests, edit'[d].op = "create", NEW c \in Requests \ {d},
               edit'[c].item = edit'[d].item
        PROVE  edit'[c].op = "move" /\ edit'[c].step = "locked"
    <3>1. d # e /\ edit'[d] = edit[d]
      BY <1>1, <2>3, NoEditTyped
    <3>2. edit[d].item \in Items
      BY <2>2, <2>3, <3>1
    <3>3. c # e /\ edit'[c] = edit[c]
      BY <1>1, <2>3, <3>1, <3>2, NoEditTyped, NamesApart
    <3> QED
      BY <2>3, <3>1, <3>3 DEF HomeInv, CreatesAlone
  <2> QED
    BY <2>1, <2>3 DEF CreatesAlone, There
<1>5. DeletesThere'
  <2> SUFFICES ASSUME NEW d \in Requests, edit'[d].op = "delete", placed'[edit'[d].item].list # NoList
               PROVE  placed'[edit'[d].item].list = edit'[d].list
    BY DEF DeletesThere, There
  <2>1. d # e /\ edit'[d] = edit[d] /\ edit[d].item \in Items
    BY <1>1, NoEditTyped DEF HomeInv, LocksHeld
  <2>2. There(edit[d].item) => placed[edit[d].item].list = edit[d].list
    BY <2>1 DEF HomeInv, DeletesThere
  <2>3. CASE CreatesRow(e)
    <3>1. edit[d].item # edit[e].item
      BY <2>1, <2>3 DEF CreatesRow, HomeInv, CreatesAlone
    <3> QED
      BY <2>1, <2>2, <2>3, <3>1 DEF CreatesRow, There
  <2>4. CASE DeletesRows(e)
    BY <1>2, <2>1, <2>2, <2>4 DEF DeletesRows, There
  <2>5. CASE ExchangesRows(e)
    BY <1>2, <2>1, <2>2, <2>5 DEF ExchangesRows, There
  <2> QED
    BY <2>3, <2>4, <2>5, EditEffect
<1>6. WritesHold'
  <2> SUFFICES ASSUME NEW d \in Requests, edit'[d].step = "written"
               PROVE  Written(edit[d].op, edit[d].item, edit[d].list, edit[d].wrote)' /\ edit'[d] = edit[d]
    BY DEF WritesHold
  <2>1. d \in Requests \ {e} /\ edit'[d] = edit[d] /\ edit[d].step = "written"
    BY <1>1, NoEditTyped
  <2>2. Written(edit[d].op, edit[d].item, edit[d].list, edit[d].wrote)
    BY <2>1 DEF HomeInv, WritesHold
  <2>3. /\ \A k \in Items : placed[k].list = edit[d].list \/ placed'[k].list = edit[d].list =>
             placed'[k] = placed[k]
        /\ edit[d].list \in Sections /\ There(edit[d].list) => placed'[edit[d].list].list # NoList
        /\ edit[d].op = "delete" =>
             \A k \in Items : placed[k].list = edit[d].item \/ placed'[k].list = edit[d].item =>
               placed'[k] = placed[k]
    BY <2>1, CommitSparesOthers
  <2>4. edit[d].op = "create" => CreateWritten(edit[d].item, edit[d].list, edit[d].wrote)'
    BY <2>1, <2>2, <2>3 DEF Written, CreateWritten, There
  <2>5. edit[d].op = "delete" => DeleteWritten(edit[d].item, edit[d].wrote)'
    <3>1. edit[d] \in EditRecords
      BY <2>1 DEF HomeInv, HomeTyped
    <3>2. DOMAIN edit[d].wrote \subseteq Items
      BY <3>1, RowsTyped DEF EditRecords
    <3> QED
      BY <2>1, <2>2, <2>3, <3>2 DEF Written, DeleteWritten
  <2>6. edit[d].op = "move" => MoveWritten(edit[d].list, edit[d].wrote)'
    BY <2>1, <2>2, <2>3 DEF Written, MoveWritten
  <2> QED
    BY <2>1, <2>4, <2>5, <2>6 DEF Written
<1>7. DeletionsExclude'
  BY <1>1, NoEditTyped DEF HomeInv, DeletionsExclude
<1> QED
  BY <1>3, <1>4, <1>5, <1>6, <1>7

(* A commit keeps the invariant. *)
LEMMA CommitEditKeeps ==
  ASSUME HomeInv, NEW e \in Requests, CommitEdit(e)
  PROVE  HomeInv'
<1>1. HomeTyped'
  BY EditEffect DEF HomeTyped
<1> QED
  BY <1>1, CommitKeepsRows, CommitKeepsOthers DEF HomeInv

(* The handlers of the administration lock the list of their item. *)
LEMMA HandlersKeep ==
  ASSUME HomeInv, NEW e \in Requests,
         \/ \E b \in Banners : CreateHomeBanner(e, b) \/ DeleteHomeBanner(e, b) \/ MoveHomeBanner(e, b)
         \/ \E s \in Sections :
              \/ CreateHomeSection(e, s) \/ DeleteHomeSection(e, s) \/ MoveHomeSection(e, s)
              \/ \E c \in Cards : CreateHomeSectionCard(e, c, s) \/ MoveHomeSectionCard(e, c, s)
         \/ \E c \in Cards : DeleteHomeSectionCard(e, c)
  PROVE  HomeInv'
<1>1. /\ \A b \in Banners : b \in Items /\ ListsOf(b) = {"banners"}
      /\ \A s \in Sections : s \in Items /\ ListsOf(s) = {"sections"}
      /\ \A c \in Cards : c \in Items /\ ListsOf(c) = Sections
  BY HomeAssumption DEF Items, ListsOf
<1>2. \A i \in Items : There(i) => placed[i].list \in ListsOf(i)
  BY DEF HomeInv, RowsInPlace
<1>3. ASSUME NEW b \in Banners, CreateHomeBanner(e, b) \/ DeleteHomeBanner(e, b) \/ MoveHomeBanner(e, b)
      PROVE  HomeInv'
  <2>1. There(b) => placed[b].list = "banners"
    BY <1>1, <1>2
  <2>2. b \in Items /\ "banners" \in ListsOf(b)
    BY <1>1
  <2> QED
    BY <1>3, <2>1, <2>2, BeginKeeps DEF CreateHomeBanner, DeleteHomeBanner, MoveHomeBanner
<1>4. ASSUME NEW s \in Sections, CreateHomeSection(e, s) \/ DeleteHomeSection(e, s) \/ MoveHomeSection(e, s)
      PROVE  HomeInv'
  <2>1. There(s) => placed[s].list = "sections"
    BY <1>1, <1>2
  <2>2. s \in Items /\ "sections" \in ListsOf(s)
    BY <1>1
  <2> QED
    BY <1>4, <2>1, <2>2, BeginKeeps DEF CreateHomeSection, DeleteHomeSection, MoveHomeSection
<1>5. ASSUME NEW s \in Sections, NEW c \in Cards, CreateHomeSectionCard(e, c, s) \/ MoveHomeSectionCard(e, c, s)
      PROVE  HomeInv'
  <2>1. c \in Items /\ s \in ListsOf(c)
    BY <1>1
  <2> QED
    BY <1>5, <2>1, BeginKeeps DEF CreateHomeSectionCard, MoveHomeSectionCard
<1>6. ASSUME NEW c \in Cards, DeleteHomeSectionCard(e, c)
      PROVE  HomeInv'
  <2>1. There(c) /\ BeginEdit(e, "delete", c, placed[c].list) /\ c \in Items
    BY <1>1, <1>6 DEF DeleteHomeSectionCard
  <2>2. PICK s \in ListsOf(c) : s = placed[c].list
    BY <1>2, <2>1
  <2>3. BeginEdit(e, "delete", c, s)
    BY <2>1, <2>2
  <2> QED
    BY <2>1, <2>2, <2>3, BeginKeeps
<1> QED
  BY <1>3, <1>4, <1>5, <1>6

(* Every step keeps the invariant. *)
LEMMA HomeInvStep == HomeInv /\ [HomeNext]_homeVars => HomeInv'
<1>1. ASSUME HomeInv, UNCHANGED homeVars PROVE HomeInv'
  BY <1>1 DEF homeVars, HomeInv, HomeTyped, RowsInOrder, RowsInPlace, LocksHeld, CreatesAlone, DeletesThere,
       WritesHold, DeletionsExclude, Written, CreateWritten, DeleteWritten, MoveWritten, There
<1> QED
  BY <1>1, HandlersKeep, InsertKeeps, DeleteKeeps, MoveKeeps, CommitEditKeeps, RollbackKeeps DEF HomeNext

(* Every reachable state of the home page satisfies the invariant. *)
THEOREM HomeInvariance == HomeSpec => []HomeInv
  BY HomeInvInit, HomeInvStep, PTL DEF HomeSpec

(* Every reachable state of the home page is well typed. *)
THEOREM HomeTypeCorrect == HomeSpec => []HomeTypeOK
<1>1. HomeInv => HomeTypeOK
  BY HomeInvSuffices
<1> QED
  BY <1>1, HomeInvariance, PTL

(* The positions of a list are apart and every card is in a section that is there
   (home.go), for any number of requests, banners, sections and cards. *)
THEOREM ListsAreOrderedAlways == HomeSpec => []ListsAreOrdered
<1>1. HomeInv => ListsAreOrdered
  BY HomeInvSuffices
<1> QED
  BY <1>1, HomeInvariance, PTL

-----------------------------------------------------------------------------
(* Releases of the app *)

SyncRecords == [step : {"idle", "reading", "copying"}, left : SUBSET Sources, read : Listings,
                shifted : BOOLEAN]

TablesTyped ==
  /\ tagged \in Listings /\ followed \in Listings
  /\ offers \in [ReleaseRows -> Offers] /\ copy \in [ReleaseRows -> Offers]
  /\ syncing \in SyncRecords

(* A version is in one row, and a row without one is no row. *)
VersionsApart(table) ==
  /\ \A i \in ReleaseRows : table[i].version = 0 <=> table[i] = Vacant
  /\ \A i, j \in ReleaseRows : table[i].version = table[j].version /\ table[i] # Vacant => i = j

(* A row that is available is one of the console, or as the listing has it. *)
AsListed(table, listing) ==
  \A i \in ReleaseRows :
    table[i].source # NoSource /\ table[i].available => listing[table[i].source] = table[i].version

(* What is copied so far is as it was read. *)
CopiedAsRead ==
  /\ syncing.left \subseteq Listed
  /\ \A i \in ReleaseRows :
       copy[i].source \in Listed \ syncing.left => copy[i].version = syncing.read[copy[i].source]

ReleasesInv ==
  /\ TablesTyped
  /\ VersionsApart(offers) /\ VersionsApart(copy) /\ OneRowEach(offers) /\ OneRowEach(copy)
  /\ AsListed(offers, followed)
  /\ syncing.step # "copying" => copy = offers
  /\ syncing.step = "copying" => CopiedAsRead

(* What the invariant says of the property that the run checks. *)
LEMMA ReleasesInvSuffices == ReleasesInv => OfferedWasListed
  BY DEF ReleasesInv, VersionsApart, AsListed, OfferedWasListed, Offered

(* Records of the model that are used below are well typed. *)
LEMMA ReleasesTypes ==
  /\ Untagged \in Listings /\ NotSyncing \in SyncRecords
  /\ NotSyncing.step = "idle" /\ NotSyncing.left = {}
  /\ Vacant \in Offers /\ Vacant.version = 0 /\ Vacant.source = NoSource
  /\ ~Vacant.available /\ ~Vacant.revoked
  /\ NoSource \notin Sources
<1>1. 0 \in 0..MaxVersion
  BY ReleasesAssumption
<1>2. Untagged \in Listings
  BY <1>1 DEF Untagged, Listings
<1>3. NotSyncing \in SyncRecords /\ NotSyncing.step = "idle" /\ NotSyncing.left = {}
  BY <1>2 DEF NotSyncing, SyncRecords
<1>4. Vacant \in Offers /\ Vacant.version = 0 /\ Vacant.source = NoSource
  BY <1>1 DEF Vacant, Offers
<1>5. ~Vacant.available /\ ~Vacant.revoked
  BY DEF Vacant
<1> QED
  BY <1>2, <1>3, <1>4, <1>5, ReleasesAssumption

(* There is no release at the start. *)
LEMMA ReleasesInvInit == ReleasesInit => ReleasesInv
<1> SUFFICES ASSUME ReleasesInit PROVE ReleasesInv
  OBVIOUS
<1>1. offers \in [ReleaseRows -> Offers] /\ copy = offers /\ \A i \in ReleaseRows : offers[i] = Vacant
  BY ReleasesTypes DEF ReleasesInit
<1>2. tagged \in Listings /\ followed \in Listings /\ syncing \in SyncRecords /\ syncing.step = "idle"
  BY ReleasesTypes DEF ReleasesInit
<1>3. TablesTyped
  BY <1>1, <1>2 DEF TablesTyped, SyncRecords
<1>4. VersionsApart(offers) /\ OneRowEach(offers) /\ AsListed(offers, followed)
  BY <1>1, ReleasesTypes DEF VersionsApart, OneRowEach, RowsFrom, AsListed
<1> QED
  BY <1>1, <1>2, <1>3, <1>4 DEF ReleasesInv

(* Only the synchronisation moves. *)
LEMMA SyncingKeeps ==
  ASSUME ReleasesInv, UNCHANGED <<offers, copy, followed>>, tagged' \in Listings, syncing' \in SyncRecords,
         syncing'.step = "copying" =>
           IF syncing.step = "copying" THEN syncing'.left = syncing.left /\ syncing'.read = syncing.read
           ELSE syncing'.left = {s \in Sources : syncing'.read[s] # 0},
         syncing.step = "copying" => syncing'.step = "copying"
  PROVE  ReleasesInv'
<1>1. TablesTyped'
  BY DEF ReleasesInv, TablesTyped, SyncRecords
<1>2. /\ VersionsApart(offers)' /\ VersionsApart(copy)' /\ OneRowEach(offers)' /\ OneRowEach(copy)'
      /\ AsListed(offers, followed)'
  BY DEF ReleasesInv, VersionsApart, OneRowEach, RowsFrom, AsListed
<1>3. syncing'.step # "copying" => copy' = offers'
  BY DEF ReleasesInv
<1>4. ASSUME syncing'.step = "copying" PROVE CopiedAsRead'
  <2>1. CASE syncing.step = "copying"
    BY <1>4, <2>1 DEF ReleasesInv, CopiedAsRead, Listed
  <2>2. CASE syncing.step # "copying"
    BY <1>4, <2>2 DEF CopiedAsRead, Listed
  <2> QED
    BY <2>1, <2>2
<1> QED
  BY <1>1, <1>2, <1>3, <1>4 DEF ReleasesInv

(* The repository is tagged. *)
LEMMA RepositoryKeeps ==
  ASSUME ReleasesInv, NEW s \in Sources, NEW v \in Tags \union {0}, Tag(s, v)
  PROVE  ReleasesInv'
<1>1. tagged' \in Listings
  <2>1. v \in 0..MaxVersion
    BY ReleasesAssumption
  <2> QED
    BY <2>1 DEF ReleasesInv, TablesTyped, Tag, Listings
<1>2. syncing \in SyncRecords
  BY DEF ReleasesInv, TablesTyped
<1>3. PICK b \in BOOLEAN : syncing' = [syncing EXCEPT !.shifted = b]
  <2>1. (syncing.step = "reading" /\ (syncing.shifted \/ v = 0)) \in BOOLEAN
    OBVIOUS
  <2> QED
    BY <2>1, Zenon DEF Tag
<1>4. syncing' \in SyncRecords /\ syncing'.step = syncing.step /\ syncing'.left = syncing.left
      /\ syncing'.read = syncing.read
  BY <1>2, <1>3 DEF SyncRecords
<1> QED
  BY <1>1, <1>4, SyncingKeeps DEF Tag

(* A synchronisation begins, reads, and begins its transaction. *)
LEMMA ReadingKeeps ==
  ASSUME ReleasesInv,
         BeginSync \/ BeginCopy \/ \E s \in Sources : ReadRelease(s) \/ MissRelease(s)
  PROVE  ReleasesInv'
<1>1. syncing \in SyncRecords /\ tagged \in Listings
  BY DEF ReleasesInv, TablesTyped
<1>2. CASE BeginSync
  <2>1. syncing' \in SyncRecords /\ syncing'.step = "reading"
    BY <1>2, ReleasesTypes DEF BeginSync, SyncRecords
  <2> QED
    BY <1>1, <1>2, <2>1, SyncingKeeps DEF BeginSync
<1>3. CASE BeginCopy
  <2>1. Listed \subseteq Sources
    BY DEF Listed
  <2>2. syncing' \in SyncRecords /\ syncing'.step = "copying" /\ syncing'.left = Listed /\ syncing'.read = syncing.read
    BY <1>1, <1>3, <2>1 DEF BeginCopy, SyncRecords
  <2> QED
    BY <1>1, <1>3, <2>2, SyncingKeeps DEF BeginCopy, Listed
<1>4. ASSUME NEW s \in Sources, ReadRelease(s) PROVE ReleasesInv'
  <2>1. Version(tagged[s]) \in 0..MaxVersion
    <3>1. tagged[s] \in 0..MaxVersion
      BY <1>1 DEF Listings
    <3>2. tagged[s] # 0 => Plain[tagged[s]] \in 1..MaxVersion
      BY <3>1, ReleasesAssumption
    <3> QED
      BY <3>1, <3>2, ReleasesAssumption DEF Version
  <2>2. syncing' \in SyncRecords /\ syncing'.step = "reading"
    BY <1>1, <1>4, <2>1 DEF ReadRelease, SyncRecords, Listings
  <2> QED
    BY <1>1, <1>4, <2>2, SyncingKeeps DEF ReadRelease
<1>5. ASSUME NEW s \in Sources, MissRelease(s) PROVE ReleasesInv'
  <2>1. syncing' \in SyncRecords /\ syncing'.step = "reading"
    BY <1>1, <1>5 DEF MissRelease, SyncRecords
  <2> QED
    BY <1>1, <1>5, <2>1, SyncingKeeps DEF MissRelease
<1> QED
  BY <1>2, <1>3, <1>4, <1>5

(* One row of the transaction's table is written. *)
LEMMA CopyKeeps ==
  ASSUME ReleasesInv, NEW s \in Sources, CopyRelease(s)
  PROVE  ReleasesInv'
<1>1. /\ syncing \in SyncRecords /\ copy \in [ReleaseRows -> Offers] /\ syncing.step = "copying"
      /\ s \in Listed /\ CopiedAsRead /\ VersionsApart(copy) /\ s \in syncing.left
  BY DEF CopyRelease, ReleasesInv, CopiedAsRead, TablesTyped
<1>2. PICK v \in AppVersions : v = syncing.read[s]
  <2>1. syncing.read \in Listings
    BY <1>1 DEF SyncRecords
  <2>2. syncing.read[s] \in 0..MaxVersion /\ syncing.read[s] # 0
    BY <1>1, <2>1 DEF Listed, Listings
  <2> QED
    BY <2>2, ReleasesAssumption DEF AppVersions
<1>3. v \in 0..MaxVersion /\ v # 0
  BY ReleasesAssumption DEF AppVersions
<1>4. syncing' \in SyncRecords /\ syncing'.step = "copying" /\ syncing'.left = syncing.left \ {s}
      /\ syncing'.read = syncing.read
  BY <1>1 DEF CopyRelease, SyncRecords
<1>5. PICK i \in ReleaseRows, record \in Offers :
        /\ copy' = [copy EXCEPT ![i] = record]
        /\ record.version = v
        /\ \A j \in ReleaseRows \ {i} : copy[j].version # v
        /\ record.source = s \/ (record.source = copy[i].source /\ copy[i].source = s)
  <2>1. CASE Adopts(s, v)
    <3>1. PICK i \in ReleaseRows : copy[i].version = v
            /\ copy' = [copy EXCEPT ![i].source = s, ![i].available = TRUE]
      BY <2>1 DEF Adopts, RowsOf
    <3>2. copy[i] \in Offers
      BY <1>1
    <3>3. PICK record \in Offers : record = [copy[i] EXCEPT !.source = s, !.available = TRUE]
      BY <3>2 DEF Offers
    <3>4. record.version = v /\ record.source = s
      BY <3>1, <3>2, <3>3 DEF Offers
    <3>5. copy' = [copy EXCEPT ![i] = record]
      BY <1>1, <3>1, <3>2, <3>3 DEF Offers
    <3>6. \A j \in ReleaseRows \ {i} : copy[j].version # v
      BY <1>1, <1>3, <3>1, ReleasesTypes DEF VersionsApart
    <3> QED
      BY <3>4, <3>5, <3>6
  <2>2. CASE Renames(s, v)
    <3>1. PICK i \in ReleaseRows : copy[i].source = s
            /\ copy' = [copy EXCEPT ![i].version = v, ![i].available = TRUE]
      BY <2>2 DEF Renames, RowsFrom
    <3>2. copy[i] \in Offers
      BY <1>1
    <3>3. PICK record \in Offers : record = [copy[i] EXCEPT !.version = v, !.available = TRUE]
      BY <1>3, <3>2 DEF Offers
    <3>4. record.version = v /\ record.source = s
      BY <3>1, <3>2, <3>3 DEF Offers
    <3>5. copy' = [copy EXCEPT ![i] = record]
      BY <1>1, <3>1, <3>2, <3>3 DEF Offers
    <3>6. \A j \in ReleaseRows : copy[j].version # v
      BY <2>2 DEF Renames, RowsOf
    <3> QED
      BY <3>4, <3>5, <3>6
  <2>3. CASE Inserts(s, v)
    <3>1. PICK i \in ReleaseRows : copy' = [copy EXCEPT ![i] = Row(v, s)]
      BY <2>3 DEF Inserts
    <3>4. Row(v, s) \in Offers /\ Row(v, s).version = v /\ Row(v, s).source = s
      BY <1>3 DEF Offers, Row
    <3>2. PICK record \in Offers : record = Row(v, s) /\ record.version = v /\ record.source = s
      BY <3>4
    <3>3. \A j \in ReleaseRows : copy[j].version # v
      BY <2>3 DEF Inserts, RowsOf
    <3> QED
      BY <3>1, <3>2, <3>3
  <2> QED
    BY <1>2, <2>1, <2>2, <2>3 DEF CopyRelease
<1>6. record.source = s
  BY <1>5
<1>7. /\ copy' \in [ReleaseRows -> Offers] /\ copy'[i] = record
      /\ \A j \in ReleaseRows \ {i} : copy'[j] = copy[j]
  BY <1>1, <1>5
<1>8. TablesTyped'
  <2>1. UNCHANGED <<tagged, offers, followed>>
    BY DEF CopyRelease
  <2> QED
    BY <1>4, <1>7, <2>1 DEF ReleasesInv, TablesTyped, SyncRecords
<1>9. VersionsApart(copy)'
  <2>1. record # Vacant /\ Vacant.version = 0
    BY <1>3, <1>5, ReleasesTypes
  <2> QED
    BY <1>1, <1>3, <1>5, <1>7, <2>1 DEF VersionsApart
<1>10. OneRowEach(copy)'
  BY DEF CopyRelease, OneRowEach, RowsFrom
<1>11. UNCHANGED <<offers, followed>>
  BY DEF CopyRelease
<1>12. VersionsApart(offers)' /\ OneRowEach(offers)' /\ AsListed(offers, followed)'
  BY <1>11 DEF ReleasesInv, VersionsApart, OneRowEach, RowsFrom, AsListed
<1>13. CopiedAsRead'
  <2>1. Listed' = Listed
    BY <1>4 DEF Listed
  <2>2. \A j \in ReleaseRows \ {i} : copy[j].source # s
    BY <1>6, <1>7, <1>10 DEF OneRowEach, RowsFrom
  <2>3. ASSUME NEW j \in ReleaseRows, copy'[j].source \in Listed \ (syncing.left \ {s})
        PROVE  copy'[j].version = syncing.read[copy'[j].source]
    <3>1. CASE j = i
      BY <1>2, <1>5, <1>6, <1>7, <3>1
    <3>2. CASE j # i
      BY <1>1, <1>7, <2>2, <2>3, <3>2 DEF CopiedAsRead
    <3> QED
      BY <3>1, <3>2
  <2> QED
    BY <1>1, <1>4, <2>1, <2>3 DEF CopiedAsRead
<1> QED
  BY <1>4, <1>8, <1>9, <1>10, <1>12, <1>13 DEF ReleasesInv

(* The commit: what is not listed is not offered. *)
LEMMA CommitSyncKeeps ==
  ASSUME ReleasesInv, CommitSync
  PROVE  ReleasesInv'
<1>1. /\ syncing \in SyncRecords /\ copy \in [ReleaseRows -> Offers] /\ CopiedAsRead
      /\ syncing.left = {} /\ VersionsApart(copy) /\ OneRowEach(copy)
  BY DEF CommitSync, ReleasesInv, TablesTyped
<1>2. \A r \in Offers :
        /\ [r EXCEPT !.available = FALSE] \in Offers
        /\ [r EXCEPT !.available = FALSE].version = r.version
        /\ [r EXCEPT !.available = FALSE].source = r.source
        /\ ~[r EXCEPT !.available = FALSE].available
  BY DEF Offers
<1>3. offers' = [i \in ReleaseRows |->
                   IF copy[i].source \in Sources \ Listed THEN [copy[i] EXCEPT !.available = FALSE]
                   ELSE copy[i]]
  BY DEF CommitSync, Withheld
<1>4. offers' \in [ReleaseRows -> Offers]
  BY <1>1, <1>2, <1>3
<1>5. \A i \in ReleaseRows :
        /\ offers'[i] \in Offers /\ offers'[i].version = copy[i].version /\ offers'[i].source = copy[i].source
        /\ copy[i].source \in Sources \ Listed => ~offers'[i].available
        /\ copy[i].source \notin Sources => offers'[i] = copy[i]
  BY <1>1, <1>2, <1>3
<1>6. copy' = offers' /\ followed' = syncing.read /\ syncing' = NotSyncing /\ tagged' = tagged
  BY DEF CommitSync
<1>7. TablesTyped'
  <2>1. syncing.read \in Listings
    BY <1>1 DEF SyncRecords
  <2> QED
    BY <1>4, <1>6, <2>1, ReleasesTypes DEF ReleasesInv, TablesTyped, SyncRecords
<1>8. VersionsApart(offers)'
  <2>1. \A i \in ReleaseRows : offers'[i].version = 0 => offers'[i] = Vacant
    BY <1>1, <1>5, ReleasesTypes DEF VersionsApart
  <2> QED
    BY <1>1, <1>5, <2>1, ReleasesTypes DEF VersionsApart
<1>9. OneRowEach(offers)'
  BY <1>1, <1>5 DEF OneRowEach, RowsFrom
<1>10. AsListed(offers, followed)'
  <2> SUFFICES ASSUME NEW i \in ReleaseRows, offers'[i].source # NoSource, offers'[i].available
               PROVE  syncing.read[offers'[i].source] = offers'[i].version
    BY <1>6 DEF AsListed
  <2>1. copy[i].source \in Sources
    BY <1>1, <1>5 DEF Offers
  <2>2. copy[i].source \in Listed \ {}
    BY <1>5, <2>1
  <2> QED
    BY <1>1, <1>5, <2>2 DEF CopiedAsRead
<1>11. VersionsApart(copy)' /\ OneRowEach(copy)'
  BY <1>6, <1>8, <1>9 DEF VersionsApart, OneRowEach, RowsFrom
<1> QED
  BY <1>6, <1>7, <1>8, <1>9, <1>10, <1>11, ReleasesTypes DEF ReleasesInv

(* The transaction is rolled back. *)
LEMMA SyncFailsKeeps ==
  ASSUME ReleasesInv, SyncFails
  PROVE  ReleasesInv'
<1>1. UNCHANGED <<tagged, offers, followed>> /\ copy' = offers /\ syncing' = NotSyncing
  BY DEF SyncFails
<1>2. TablesTyped'
  BY <1>1, ReleasesTypes DEF ReleasesInv, TablesTyped, SyncRecords
<1>3. VersionsApart(offers)' /\ OneRowEach(offers)' /\ AsListed(offers, followed)'
  BY <1>1 DEF ReleasesInv, VersionsApart, OneRowEach, RowsFrom, AsListed
<1>4. copy' = offers'
  BY <1>1
<1>5. VersionsApart(copy)' /\ OneRowEach(copy)'
  BY <1>1 DEF ReleasesInv, VersionsApart, OneRowEach, RowsFrom
<1> QED
  BY <1>1, <1>2, <1>3, <1>4, <1>5, ReleasesTypes DEF ReleasesInv

(* A release is published from the console. *)
LEMMA PublishKeeps ==
  ASSUME ReleasesInv, NEW v \in AppVersions, PublishAppRelease(v)
  PROVE  ReleasesInv'
<1>1. PICK i \in ReleaseRows :
        /\ NextFree(i)
        /\ offers' = [offers EXCEPT ![i] = Row(v, NoSource)]
        /\ copy' = [copy EXCEPT ![i] = Row(v, NoSource)]
  BY DEF PublishAppRelease
<1>2. UNCHANGED <<tagged, syncing, followed>>
  BY DEF PublishAppRelease
<1>3. v \in 0..MaxVersion /\ v # 0
  BY ReleasesAssumption DEF AppVersions
<1>4. PICK record \in Offers : record = Row(v, NoSource) /\ record.version = v /\ record.source = NoSource
  <2>1. /\ Row(v, NoSource) \in Offers
        /\ Row(v, NoSource).version = v /\ Row(v, NoSource).source = NoSource
    BY <1>3 DEF Offers, Row
  <2> QED
    BY <2>1
<1>5. offers \in [ReleaseRows -> Offers] /\ copy \in [ReleaseRows -> Offers]
  BY DEF ReleasesInv, TablesTyped
<1>6. /\ offers' \in [ReleaseRows -> Offers] /\ offers'[i] = record
      /\ \A j \in ReleaseRows \ {i} : offers'[j] = offers[j]
      /\ copy' \in [ReleaseRows -> Offers] /\ copy'[i] = record
      /\ \A j \in ReleaseRows \ {i} : copy'[j] = copy[j]
  BY <1>1, <1>4, <1>5
<1>7. \A j \in ReleaseRows : offers[j].version # v /\ copy[j].version # v
  BY DEF PublishAppRelease, RowsOf
<1>8. record # Vacant /\ Vacant.version = 0 /\ NoSource \notin Sources
  BY <1>3, <1>4, ReleasesTypes
<1>9. TablesTyped'
  BY <1>2, <1>6 DEF ReleasesInv, TablesTyped
<1>10. VersionsApart(offers)' /\ VersionsApart(copy)'
  BY <1>3, <1>4, <1>6, <1>7, <1>8 DEF ReleasesInv, VersionsApart
<1>11. OneRowEach(offers)' /\ OneRowEach(copy)'
  BY <1>4, <1>6, <1>8 DEF ReleasesInv, OneRowEach, RowsFrom
<1>12. AsListed(offers, followed)'
  BY <1>2, <1>4, <1>6 DEF ReleasesInv, AsListed
<1>13. syncing'.step # "copying" => copy' = offers'
  BY <1>1, <1>2 DEF ReleasesInv
<1>14. syncing'.step = "copying" => CopiedAsRead'
  BY <1>2, <1>4, <1>6, <1>8 DEF ReleasesInv, CopiedAsRead, Listed
<1> QED
  BY <1>9, <1>10, <1>11, <1>12, <1>13, <1>14 DEF ReleasesInv

(* A release is enabled, disabled or revoked. *)
LEMMA StateKeeps ==
  ASSUME ReleasesInv, NEW i \in ReleaseRows, NEW enabled \in BOOLEAN, NEW revoked \in BOOLEAN,
         SetReleaseState(i, enabled, revoked)
  PROVE  ReleasesInv'
<1>1. offers \in [ReleaseRows -> Offers] /\ copy \in [ReleaseRows -> Offers] /\ offers[i] \in Offers
  BY DEF ReleasesInv, TablesTyped
<1>2. PICK record \in Offers : record = [offers[i] EXCEPT !.enabled = enabled, !.revoked = revoked]
  BY <1>1 DEF Offers
<1>3. record.version = offers[i].version /\ record.source = offers[i].source /\ record.available = offers[i].available
  BY <1>1, <1>2 DEF Offers
<1>4. offers' = [offers EXCEPT ![i] = record]
  BY <1>1, <1>2 DEF SetReleaseState, Offers
<1>5. /\ offers' \in [ReleaseRows -> Offers] /\ offers'[i] = record
      /\ \A j \in ReleaseRows \ {i} : offers'[j] = offers[j]
  BY <1>1, <1>4
<1>6. copy' = [copy EXCEPT ![i] = record]
  BY <1>5 DEF SetReleaseState
<1>7. /\ copy' \in [ReleaseRows -> Offers] /\ copy'[i] = record
      /\ \A j \in ReleaseRows \ {i} : copy'[j] = copy[j]
  BY <1>1, <1>6
<1>8. copy[i] = offers[i] /\ offers[i] # Vacant /\ UNCHANGED <<tagged, syncing, followed>>
  BY DEF SetReleaseState
<1>9. offers[i].version # 0 /\ record # Vacant
  BY <1>3, <1>8, ReleasesTypes DEF ReleasesInv, VersionsApart
<1>10. TablesTyped'
  BY <1>5, <1>7, <1>8 DEF ReleasesInv, TablesTyped
<1>11. VersionsApart(offers)' /\ VersionsApart(copy)'
  BY <1>3, <1>5, <1>7, <1>8, <1>9 DEF ReleasesInv, VersionsApart
<1>12. OneRowEach(offers)' /\ OneRowEach(copy)'
  BY <1>3, <1>5, <1>7, <1>8 DEF ReleasesInv, OneRowEach, RowsFrom
<1>13. AsListed(offers, followed)'
  BY <1>3, <1>5, <1>8 DEF ReleasesInv, AsListed
<1>14. syncing'.step # "copying" => copy' = offers'
  BY <1>4, <1>6, <1>8 DEF ReleasesInv
<1>15. syncing'.step = "copying" => CopiedAsRead'
  BY <1>3, <1>7, <1>8 DEF ReleasesInv, CopiedAsRead, Listed
<1> QED
  BY <1>10, <1>11, <1>12, <1>13, <1>14, <1>15 DEF ReleasesInv

(* Every step keeps the invariant. *)
LEMMA ReleasesInvStep == ReleasesInv /\ [ReleasesNext]_releasesVars => ReleasesInv'
<1>1. ASSUME ReleasesInv, UNCHANGED releasesVars PROVE ReleasesInv'
  BY <1>1 DEF releasesVars, ReleasesInv, TablesTyped, VersionsApart, OneRowEach, RowsFrom, AsListed,
       CopiedAsRead, Listed
<1> QED
  BY <1>1, RepositoryKeeps, ReadingKeeps, CopyKeeps, CommitSyncKeeps, SyncFailsKeeps, PublishKeeps, StateKeeps
     DEF ReleasesNext

(* Every reachable state of the releases satisfies the invariant. *)
THEOREM ReleasesInvariance == ReleasesSpec => []ReleasesInv
  BY ReleasesInvInit, ReleasesInvStep, PTL DEF ReleasesSpec

(* Every reachable state of the releases is well typed. *)
THEOREM ReleasesTypeCorrect == ReleasesSpec => []ReleasesTypeOK
<1>1. ReleasesInv => ReleasesTypeOK
  BY DEF ReleasesInv, TablesTyped, VersionsApart, SyncRecords, ReleasesTypeOK
<1> QED
  BY <1>1, ReleasesInvariance, PTL

(* What is offered was listed (SyncAppReleases, PublishAppRelease, AdminSetReleaseState),
   for any number of releases, versions and rows. *)
THEOREM OfferedWasListedAlways == ReleasesSpec => []OfferedWasListed
  BY ReleasesInvSuffices, ReleasesInvariance, PTL

-----------------------------------------------------------------------------
(* The eight modules in one *)

(* Every step of the composition is a step of each module or leaves it alone. *)
LEMMA ContentSteps ==
  ASSUME [Next]_vars
  PROVE  /\ [PluginsNext]_pluginsVars /\ [StorageNext]_storageVars /\ [UpdateNext]_updateVars
         /\ [HomeNext]_homeVars /\ [BlogNext]_blogVars /\ [PoliciesNext]_policiesVars
         /\ [DraftsNext]_draftsVars /\ [ReleasesNext]_releasesVars
<1>1. SomebodyPushes \/ EditingNext \/ CopyingNext => BlogNext
  BY DEF BlogNext
<1>2. LegalNext \/ PolicyNext \/ Restart => PoliciesNext
  BY DEF PoliciesNext
<1>3. CASE Next
  BY <1>1, <1>2, <1>3 DEF Next
<1>4. CASE UNCHANGED vars
  BY <1>4 DEF vars
<1> QED
  BY <1>3, <1>4

(* The modules put in one implement each of the eight: what is proved of a module
   alone holds of it beside the others. *)
THEOREM ContentImplementEach ==
  Spec => /\ PluginsSpec /\ StorageSpec /\ UpdateSpec /\ HomeSpec
          /\ BlogSpec /\ PoliciesSpec /\ DraftsSpec /\ ReleasesSpec
<1>1. Init => /\ PluginsInit /\ StorageInit /\ UpdateInit /\ HomeInit
              /\ BlogInit /\ PoliciesInit /\ DraftsInit /\ ReleasesInit
  BY DEF Init
<1>2. [Next]_vars => /\ [PluginsNext]_pluginsVars /\ [StorageNext]_storageVars /\ [UpdateNext]_updateVars
                     /\ [HomeNext]_homeVars /\ [BlogNext]_blogVars /\ [PoliciesNext]_policiesVars
                     /\ [DraftsNext]_draftsVars /\ [ReleasesNext]_releasesVars
  BY ContentSteps
<1> QED
  BY <1>1, <1>2, PTL DEF Spec, PluginsSpec, StorageSpec, UpdateSpec, HomeSpec,
       BlogSpec, PoliciesSpec, DraftsSpec, ReleasesSpec

(* Every variable of the eight modules keeps its type. *)
THEOREM ContentTypeCorrect == Spec => []TypeOK
<1>1. PluginsTypeOK /\ StorageTypeOK /\ UpdateTypeOK /\ HomeTypeOK /\ BlogTypeOK /\ PoliciesTypeOK
        /\ DraftsTypeOK /\ ReleasesTypeOK => TypeOK
  BY DEF TypeOK
<1> QED
  BY <1>1, ContentImplementEach, PluginsTypeCorrect, StorageTypeCorrect, ConsoleTypeCorrect,
     HomeTypeCorrect, BlogTypeCorrect, PoliciesTypeCorrect, DraftsTypeCorrect, ReleasesTypeCorrect, PTL
=============================================================================
