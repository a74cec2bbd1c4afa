---------------------------- MODULE ConsoleUpdate ----------------------------
(***************************************************************************)
(* The installation of a build of the administration console: download,     *)
(* unpack, validate, put in place, point current.json at it; and the pages  *)
(* that are served meanwhile.  A crash loses what was not synced: a rename   *)
(* that no sync of its directory followed may be undone.  A file that was    *)
(* synced is assumed to keep its entry, as journaling file systems do.      *)
(***************************************************************************)
EXTENDS Naturals

CONSTANTS
  Installers,  \* requests and RunConsoleSync, which may install at once
  NoInstaller, \* the mutex is free
  MaxAssets,   \* bound of the model on the releases of the console
  MaxDirs      \* bound of the model on the directories made for them

ASSUME ConsoleUpdateAssumption ==
  NoInstaller \notin Installers /\ MaxAssets \in Nat /\ MaxDirs \in Nat

VARIABLES
  release,    \* asset of the newest release of the repository
  latest,     \* state.latest: the asset the last check found (0: none)
  mutex,      \* state.install: who holds it
  at,         \* per installer: the step it is at
  work,       \* per installer: asset asked for, asset captured, directory, previous
  dirs,       \* per directory under versions: what is in it
  pointer,    \* current.json as it is read
  stable,     \* current.json as a crash would bring it back
  unsynced,   \* installations between stable and pointer
  loaded      \* a page in a browser: its directory (0: none), the installations
              \* since that current.json has, whether a crash undid its own

updateVars == <<release, latest, mutex, at, work, dirs, pointer, stable, unsynced, loaded>>

Assets == 0..MaxAssets
Dirs == 1..MaxDirs
NoPointer == [dir |-> 0, asset |-> 0, previous |-> 0]
NothingLoaded == [dir |-> 0, age |-> 0, undone |-> FALSE]
NoWork == [asked |-> 0, asset |-> 0, dir |-> 0, previous |-> 0]

UpdateInit ==
  /\ release = 0 /\ latest = 0 /\ mutex = NoInstaller
  /\ at = [i \in Installers |-> "idle"] /\ work = [i \in Installers |-> NoWork]
  /\ dirs = [d \in Dirs |-> "free"]
  /\ pointer = NoPointer /\ stable = NoPointer /\ unsynced = 0
  /\ loaded = NothingLoaded

\* A release is published.
PublishRelease ==
  /\ release < MaxAssets
  /\ release' = release + 1
  /\ UNCHANGED <<latest, mutex, at, work, dirs, pointer, stable, unsynced, loaded>>

\* checkConsole: the check that answers replaces what the last one found.
CheckConsole ==
  /\ release # 0
  /\ latest' = release
  /\ UNCHANGED <<release, mutex, at, work, dirs, pointer, stable, unsynced, loaded>>

\* Installed: current.json names a directory that validates.
Installed == pointer.dir # 0 /\ dirs[pointer.dir] \in {"final", "durable"}

-----------------------------------------------------------------------------
(* An installation *)

Goes(i, from, to) == at[i] = from /\ at' = [at EXCEPT ![i] = to]

\* TryLock
MayInstall == mutex = NoInstaller

\* Install of an asset that was latest when the console showed it, or Ensure
\* with the latest; installConsole makes a forced check first.
Install(i, asset) ==
  /\ MayInstall /\ Goes(i, "idle", "checking")
  /\ asset \in 1..release
  /\ mutex' = i
  /\ work' = [work EXCEPT ![i] = [NoWork EXCEPT !.asked = asset]]
  /\ UNCHANGED <<release, latest, dirs, pointer, stable, unsynced, loaded>>

\* Ensure: nothing is installed, and the latest is taken.
Ensure(i) == ~Installed /\ latest # 0 /\ Install(i, latest)

\* The forced check, and the pointer to its result taken after it; another
\* check may have replaced it meanwhile.
InstallChecked(i) ==
  /\ Goes(i, "checking", "checked")
  /\ latest' = release
  /\ UNCHANGED <<release, mutex, work, dirs, pointer, stable, unsynced, loaded>>

\* "Console release changed; check again"
Captured(i) ==
  /\ Goes(i, "checked", "downloading")
  /\ latest = work[i].asked
  /\ work' = [work EXCEPT ![i].asset = latest]
  /\ UNCHANGED <<release, latest, mutex, dirs, pointer, stable, unsynced, loaded>>

\* Download and extractConsole, each file synced, size and checksum compared;
\* validateConsolePackage.  What is wrong is an error (InstallFails).
Unpack(i, d) ==
  /\ Goes(i, "downloading", "validated")
  /\ dirs[d] = "free"
  /\ dirs' = [dirs EXCEPT ![d] = "candidate"]
  /\ work' = [work EXCEPT ![i].dir = d]
  /\ UNCHANGED <<release, latest, mutex, pointer, stable, unsynced, loaded>>

\* os.Rename(candidate, final), and the directory of current.json becomes the
\* previous one.
PutInPlace(i) ==
  /\ Goes(i, "validated", "in place")
  /\ dirs' = [dirs EXCEPT ![work[i].dir] = "final"]
  /\ work' = [work EXCEPT ![i].previous = pointer.dir]
  /\ UNCHANGED <<release, latest, mutex, pointer, stable, unsynced, loaded>>

\* syncConsoleDirectory of the directory and of versions
SyncVersions(i) ==
  /\ Goes(i, "in place", "synced")
  /\ dirs' = [dirs EXCEPT ![work[i].dir] = "durable"]
  /\ UNCHANGED <<release, latest, mutex, work, pointer, stable, unsynced, loaded>>

\* Mutant: current.json is replaced before the versions are synced.
AnyPlaced == {"in place", "synced"}

\* Where an installation replaces current.json.
BeforePointer == {"synced"}

\* The temporary file is synced and renamed to current.json.
WritePointer(i) ==
  /\ at[i] \in BeforePointer /\ at' = [at EXCEPT ![i] = "kept"]
  /\ pointer' = [dir |-> work[i].dir, asset |-> work[i].asset, previous |-> work[i].previous]
  /\ unsynced' = unsynced + 1
  /\ loaded' = [loaded EXCEPT !.age = @ + 1]
  /\ UNCHANGED <<release, latest, mutex, work, dirs, stable>>

\* The directory of current.json is synced, or not: the error is ignored.
InstallDone(i) ==
  /\ Goes(i, "kept", "idle")
  /\ \/ stable' = pointer /\ unsynced' = 0
     \/ UNCHANGED <<stable, unsynced>>
  /\ mutex' = NoInstaller
  /\ work' = [work EXCEPT ![i] = NoWork]
  /\ UNCHANGED <<release, latest, dirs, pointer, loaded>>

\* An error of any step until current.json is replaced: what was unpacked or put
\* in place is removed again.
InstallFails(i) ==
  /\ at[i] \notin {"idle", "kept"}
  /\ at' = [at EXCEPT ![i] = "idle"]
  /\ mutex' = NoInstaller
  /\ dirs' = [d \in Dirs |-> IF d = work[i].dir THEN "free" ELSE dirs[d]]
  /\ work' = [work EXCEPT ![i] = NoWork]
  /\ UNCHANGED <<release, latest, pointer, stable, unsynced, loaded>>

\* What a crash leaves of current.json and of the page that a browser shows: as
\* it is read, or without the installations that were not synced.
PointerKept == UNCHANGED <<pointer, loaded>> /\ stable' = pointer
PointerUndone ==
  /\ pointer' = stable /\ UNCHANGED stable
  /\ loaded' = IF loaded.age < unsynced THEN [loaded EXCEPT !.undone = TRUE]
               ELSE [loaded EXCEPT !.age = @ - unsynced]

\* A crash: a name that was not synced may be lost, current.json may be the one
\* of before, candidates stay as rubbish.  A page outlives the server's crash.
Crash ==
  /\ PointerKept \/ PointerUndone
  /\ unsynced' = 0
  /\ \E lost \in SUBSET {d \in Dirs : dirs[d] = "final"} :
       dirs' = [d \in Dirs |-> IF d \in lost THEN "candidate" ELSE dirs[d]]
  /\ at' = [i \in Installers |-> "idle"] /\ work' = [i \in Installers |-> NoWork]
  /\ mutex' = NoInstaller /\ latest' = 0
  /\ UNCHANGED release

-----------------------------------------------------------------------------
(* What is served *)

\* ServeHTTP for the index: a browser loads the page.
LoadPage ==
  /\ Installed
  /\ loaded' = [NothingLoaded EXCEPT !.dir = pointer.dir]
  /\ UNCHANGED <<release, latest, mutex, at, work, dirs, pointer, stable, unsynced>>

\* ServeHTTP for an asset: it is looked for in the current directory, then in the
\* one before it.
AssetServed(d) == Installed /\ d \in {pointer.dir, pointer.previous} \ {0}

UpdateNext ==
  \/ PublishRelease \/ CheckConsole \/ LoadPage \/ Crash
  \/ \E i \in Installers :
       \/ \E asset \in Assets : Install(i, asset)
       \/ \E d \in Dirs : Unpack(i, d)
       \/ Ensure(i) \/ InstallChecked(i) \/ Captured(i) \/ PutInPlace(i) \/ SyncVersions(i)
       \/ WritePointer(i) \/ InstallDone(i) \/ InstallFails(i)

UpdateSpec == UpdateInit /\ [][UpdateNext]_updateVars
-----------------------------------------------------------------------------
(* Properties *)

UpdateTypeOK ==
  /\ release \in Assets /\ latest \in Assets /\ mutex \in Installers \union {NoInstaller}
  /\ at \in [Installers -> {"idle", "checking", "checked", "downloading", "validated",
                            "in place", "synced", "kept"}]
  /\ work \in [Installers -> [asked : Assets, asset : Assets, dir : {0} \union Dirs,
                              previous : {0} \union Dirs]]
  /\ dirs \in [Dirs -> {"free", "candidate", "final", "durable"}]
  /\ {pointer, stable} \subseteq [dir : {0} \union Dirs, asset : Assets, previous : {0} \union Dirs]
  /\ unsynced \in Nat
  /\ loaded \in [dir : {0} \union Dirs, age : Nat, undone : BOOLEAN]

\* Whatever fails, and wherever the server crashes: current.json, as it is read
\* and as a crash brings it back, names directories that are whole and whose
\* names are synced, so an installed console stays installed; and a page in a
\* browser still finds its assets as long as current.json has no more than one
\* installation after its own, crashes of the server in between included.  The
\* page of an installation that a crash undoes is excepted: Install ignores the
\* error of the last sync, and such a page finds nothing until it is loaded anew.
ConsoleStaysWhole ==
  /\ \A p \in {pointer, stable} :
       \A d \in {p.dir, p.previous} \ {0} : dirs[d] = "durable"
  /\ loaded.dir # 0 /\ ~loaded.undone /\ loaded.age <= 1 => AssetServed(loaded.dir)
=============================================================================
