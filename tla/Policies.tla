------------------------------- MODULE Policies -------------------------------
(***************************************************************************)
(* What the server reads from its settings and keeps in memory: the legal   *)
(* documents, copied from a repository (external), and the policies on      *)
(* client builds and on the moderation of comments.  A restart forgets the  *)
(* memory and keeps the settings, which a write whose answer was lost may    *)
(* have changed.                                                            *)
(***************************************************************************)
EXTENDS Naturals

CONSTANTS
  Values,       \* what a policy may say: builds refused, or how comments are judged
  Changers,     \* requests that change a policy, and RunPolicyRefresh
  NoChanger,    \* the mutex is free
  Default,      \* the policy of the configuration, while there is no setting
  MaxRevision   \* bound of the model on the revisions of the document

ASSUME PoliciesAssumption ==
  NoChanger \notin Changers /\ Default \in Values /\ MaxRevision \in Nat \ {0}

VARIABLES
  upstream,   \* the document in the repository: its revision and its text
  cache,      \* the setting content.legal.cache
  legal,      \* the document in memory
  copying,    \* the document syncLegal has read, or checked
  served,     \* the last document that any process had in memory
  free,       \* nothing holds the next document to the one that was served
  stored,     \* the settings policy.build and policy.ai
  enforced,   \* the policies in memory
  astray,     \* policies that were not read at the start, were written without an
              \* answer or could not be applied, and that nothing applied since
  holder,     \* runtime.updateMu
  changing    \* per changer: its step and the policy it will apply

legalVars == <<upstream, cache, legal, copying, served, free>>
policyVars == <<stored, enforced, astray, holder, changing>>
policiesVars == <<upstream, cache, legal, copying, served, free,
                  stored, enforced, astray, holder, changing>>

Documents == [revision : 1..MaxRevision, text : {"one", "other"}]
NoDocument == [revision |-> 0, text |-> "none"]  \* the manifest has none, or no copy was made
NoCopy == [step |-> "loading", document |-> NoDocument]
Kinds == {"build", "ai"}
NoChange == [step |-> "idle", kind |-> "build", value |-> Default]

PoliciesInit ==
  /\ upstream \in [revision : {1}, text : {"one"}]
  /\ cache = NoDocument /\ legal = NoDocument /\ copying = NoCopy
  /\ served = NoDocument /\ free = FALSE
  /\ stored = [k \in Kinds |-> Default] /\ enforced = stored /\ astray = {}
  /\ holder = NoChanger
  /\ changing = [c \in Changers |-> NoChange]

-----------------------------------------------------------------------------
(* Legal documents *)

\* The document is edited, or removed from the manifest and added again, as that of
\* the rules of reviewing may be; whether the revision grows is up to the author.
EditDocument ==
  /\ upstream' \in Documents \union {NoDocument}
  /\ UNCHANGED <<cache, legal, copying, served, free, policyVars>>

\* A copy comes to memory, from where it is served.
Serve(document) ==
  /\ legal' = document
  /\ IF document = NoDocument THEN UNCHANGED <<served, free>>
     ELSE served' = document /\ free' = FALSE

\* RunContentSync loads what was copied before; a read that fails is passed over,
\* and the next copy is compared with nothing.
LoadCache ==
  /\ copying.step = "loading"
  /\ copying' = [NoCopy EXCEPT !.step = "idle"]
  /\ \/ Serve(cache)
     \/ free' = TRUE /\ UNCHANGED <<legal, served>>
  /\ UNCHANGED <<upstream, cache, policyVars>>

\* syncLegal reads the manifest and the files at one commit.
FetchLegal ==
  /\ copying.step = "idle"
  /\ copying' = [step |-> "read", document |-> upstream]
  /\ UNCHANGED <<upstream, cache, legal, served, free, policyVars>>

\* Mutant: a revision that is not older is taken as it is.
NotOlder(next, old) == next.revision >= old.revision

\* "legal document changed without a newer revision": only a document that both
\* the manifest and memory have is compared.
Acceptable(next, old) ==
  next = NoDocument \/ next.revision > old.revision \/ next = old

\* SetSetting, when the document may follow the one in memory.  When its answer is
\* lost the call ends with an error, and memory stays behind the setting.  A copy
\* without the document leaves nothing to compare its return with.
StoreLegal ==
  /\ copying.step = "read" /\ Acceptable(copying.document, legal)
  /\ cache' = copying.document
  /\ copying' \in {[copying EXCEPT !.step = "stored"], [NoCopy EXCEPT !.step = "idle"]}
  /\ free' = (free \/ copying.document = NoDocument)
  /\ UNCHANGED <<upstream, legal, served, policyVars>>

UseLegal ==
  /\ copying.step = "stored"
  /\ Serve(copying.document)
  /\ copying' = [NoCopy EXCEPT !.step = "idle"]
  /\ UNCHANGED <<upstream, cache, policyVars>>

\* The repository is unavailable, the document is refused or is not stored.
LegalSyncFails ==
  /\ copying.step = "read"
  /\ copying' = [NoCopy EXCEPT !.step = "idle"]
  /\ UNCHANGED <<upstream, cache, legal, served, free, policyVars>>

-----------------------------------------------------------------------------
(* The policies on builds and on moderation *)

\* Mutant: the refresh does not wait for a change that is under way.
NotAwaited(c) == TRUE

\* runtime.updateMu.Lock()
MutexFree(c) == holder = NoChanger

LockPolicy(c) ==
  /\ changing[c].step = "idle" /\ MutexFree(c)
  /\ holder' = c
  /\ changing' = [changing EXCEPT ![c].step = "locked"]
  /\ UNCHANGED <<stored, enforced, astray, legalVars>>

\* The policy that will be applied.
Knows(c, kind, value) ==
  changing' = [changing EXCEPT ![c] = [step |-> "known", kind |-> kind, value |-> value]]

ChangePolicy(c, kind, value) ==
  /\ changing[c].step = "locked"
  /\ stored' = [stored EXCEPT ![kind] = value]
  /\ Knows(c, kind, value)
  /\ UNCHANGED <<enforced, astray, holder, legalVars>>

\* handleBuildPolicy changes the setting it reads again under its row lock;
\* handleAIPolicy writes the whole policy and the prompt in one transaction.
ChangeBuildPolicy(c) == \E value \in Values : ChangePolicy(c, "build", value)
ChangeAIPolicy(c) == \E value \in Values : ChangePolicy(c, "ai", value)

\* The call ends and unlocks.
Unlock(c) ==
  /\ changing' = [changing EXCEPT ![c] = NoChange]
  /\ holder' = IF holder = c THEN NoChanger ELSE holder

\* The same commit, whose answer is lost: the call ends with an error.
ChangeUnanswered(c) ==
  /\ changing[c].step = "locked"
  /\ \E kind \in Kinds, value \in Values :
       stored' = [stored EXCEPT ![kind] = value] /\ astray' = astray \union {kind}
  /\ Unlock(c)
  /\ UNCHANGED <<enforced, legalVars>>

\* RefreshPolicies reads a setting; that it does so for both with the mutex held
\* only leaves fewer orders.
ReadPolicy(c, kind) ==
  /\ changing[c].step = "locked"
  /\ Knows(c, kind, stored[kind])
  /\ UNCHANGED <<stored, enforced, astray, holder, legalVars>>

Apply(c, kind) ==
  /\ changing[c].step = "known" /\ changing[c].kind = kind
  /\ enforced' = [enforced EXCEPT ![kind] = changing[c].value]
  /\ astray' = astray \ {kind}
  /\ Unlock(c)
  /\ UNCHANGED <<stored, legalVars>>

ApplyBuildPolicy(c) == Apply(c, "build")

\* The keys of the moderators are those the server can decrypt.
ApplyAIPolicy(c) == Apply(c, "ai")

\* One of the keys cannot be decrypted: the policy is stored and not applied.
ApplyAIPolicyFails(c) ==
  /\ changing[c].step = "known" /\ changing[c].kind = "ai"
  /\ astray' = astray \union {"ai"}
  /\ Unlock(c)
  /\ UNCHANGED <<stored, enforced, legalVars>>

\* The request is invalid or the setting cannot be read or written.
PolicyFails(c) ==
  /\ changing[c].step = "locked"
  /\ Unlock(c)
  /\ UNCHANGED <<stored, enforced, astray, legalVars>>

\* The process ends and begins again.  RefreshPolicies runs before it listens, and
\* passes over a setting that it cannot read or apply: what the configuration says
\* is enforced then.
Restart ==
  /\ legal' = NoDocument /\ copying' = NoCopy
  /\ \E missed \in SUBSET Kinds :
       /\ enforced' = [k \in Kinds |-> IF k \in missed THEN Default ELSE stored[k]]
       /\ astray' = missed
  /\ holder' = NoChanger
  /\ changing' = [c \in Changers |-> NoChange]
  /\ UNCHANGED <<upstream, cache, served, free, stored>>

LegalNext ==
  EditDocument \/ LoadCache \/ FetchLegal \/ StoreLegal \/ UseLegal \/ LegalSyncFails

PolicyNext ==
  \E c \in Changers :
    \/ LockPolicy(c) \/ ChangeBuildPolicy(c) \/ ChangeAIPolicy(c)
    \/ \E kind \in Kinds : ReadPolicy(c, kind)
    \/ ChangeUnanswered(c) \/ PolicyFails(c)
    \/ ApplyBuildPolicy(c) \/ ApplyAIPolicy(c) \/ ApplyAIPolicyFails(c)

PoliciesNext == LegalNext \/ PolicyNext \/ Restart

PoliciesSpec == PoliciesInit /\ [][PoliciesNext]_policiesVars
-----------------------------------------------------------------------------
(* Properties *)

PoliciesTypeOK ==
  /\ {upstream, cache, legal, served} \subseteq Documents \union {NoDocument}
  /\ copying \in [step : {"loading", "idle", "read", "stored"},
                  document : Documents \union {NoDocument}]
  /\ free \in BOOLEAN
  /\ stored \in [Kinds -> Values] /\ enforced \in [Kinds -> Values]
  /\ astray \subseteq Kinds /\ holder \in Changers \union {NoChanger}
  /\ changing \in [Changers -> [step : {"idle", "locked", "known"}, kind : Kinds, value : Values]]

\* A document people agreed to keeps its words: over edits of the repository,
\* synchronisations that fail or store without an answer, and restarts, the copy
\* that memory serves after another is a newer revision or the same.  Two things
\* let go of what was served: a manifest that was copied without the document, and
\* a process that could not read the copy when it started.  The documents built
\* into the server, which it serves while memory has none, are not compared.
RevisionKeepsItsWords ==
  [][free \/ served' = served \/ served'.revision > served.revision]_policiesVars

\* When no change is under way, each policy that is enforced is what the settings
\* say, whatever changes and refreshes of either overlapped, unless it went astray:
\* its setting was not read at the start, was written without an answer or could
\* not be applied, and no change and no refresh has applied it since.
PolicyIsEnforced ==
  (\A c \in Changers : changing[c].step = "idle") =>
    \A k \in Kinds \ astray : enforced[k] = stored[k]
=============================================================================
