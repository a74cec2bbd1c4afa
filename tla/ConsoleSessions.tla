---------------------------- MODULE ConsoleSessions ----------------------------
(***************************************************************************)
(* The console session of one member of the staff: the login through       *)
(* BandBBS, the credential in a cookie, its rotation, and the ways a        *)
(* session ends.  A credential is derived from the generation of the        *)
(* session and named by it.  Cookies the browser was given stay around: a  *)
(* tab may present any of them at any time.                                 *)
(***************************************************************************)
EXTENDS Integers

CONSTANTS
  Tabs,      \* requests of the browser in progress
  Overlap,   \* 30 seconds, in ticks of the model
  MaxTime,   \* bound of the model on the clock
  MaxGeneration  \* bound of the model on rotations

ASSUME ConsoleAssumption ==
  Overlap \in Nat \ {0} /\ MaxTime \in Nat /\ MaxGeneration \in Nat

VARIABLES
  clock,
  staff,     \* the users row: role and whether the account is banned
  callback,  \* how far the login is
  console,   \* the admin_sessions row: whether it exists, generation (that of
             \* credential_hash; previous_hash is the one before) and rotated_at
  tab,       \* per tab: its request, the credential and the generation read
  handed     \* when the browser was last given the credential of a generation

consoleVars == <<clock, staff, callback, console, tab, handed>>

Generations == 0..MaxGeneration
Never == -1
NoConsole == [exists |-> FALSE, generation |-> 0, rotated |-> Never]
NoRequest == [pc |-> "idle", credential |-> 0, generation |-> 0]

ConsoleInit ==
  /\ clock = 0
  /\ staff = [role |-> "reviewer", banned |-> FALSE]
  /\ callback = "none"
  /\ console = NoConsole
  /\ tab = [t \in Tabs |-> NoRequest]
  /\ handed = [g \in Generations |-> Never]

Tick ==
  /\ clock < MaxTime
  /\ clock' = clock + 1
  /\ UNCHANGED <<staff, callback, console, tab, handed>>

-----------------------------------------------------------------------------
(* Login: handleAdminAuthorize and handleConsoleBandBBSCallback *)

MayEnter == ~staff.banned /\ staff.role \in {"reviewer", "admin"}

CallbackStep(from, to) ==
  /\ callback = from /\ callback' = to
  /\ UNCHANGED <<clock, staff, console, tab, handed>>

Authorize == CallbackStep("none", "started")

\* The state is consumed, the binding cookie compared, the code exchanged and
\* the profile read; the account is looked at when it is upserted.
Identify == MayEnter /\ CallbackStep("started", "identified")

RefuseStaff == CallbackStep("started", "none")

\* CreateAdminSession, in a statement of its own.
Enter ==
  /\ callback = "identified" /\ ~console.exists
  /\ callback' = "entered"
  /\ console' = [NoConsole EXCEPT !.exists = TRUE]
  /\ handed' = [handed EXCEPT ![0] = clock]
  /\ UNCHANGED <<clock, staff, tab>>

-----------------------------------------------------------------------------
(* Requests *)

PreviousLives == console.rotated # Never /\ console.rotated + Overlap > clock

\* The WHERE of AdminSession, and the comparison of RotateAdminSession.
Accepted(c) ==
  /\ console.exists
  /\ \/ c = console.generation
     \/ c = console.generation - 1 /\ PreviousLives

\* requireAdmin: the session by its credential, then the account.
Request(t) ==
  /\ tab[t].pc = "idle"
  /\ \E c \in Generations, pc \in {"refresh", "touch", "logout"} :
       /\ handed[c] # Never /\ Accepted(c) /\ MayEnter
       /\ tab' = [tab EXCEPT ![t] =
            [pc |-> pc, credential |-> c, generation |-> console.generation]]
  /\ UNCHANGED <<clock, staff, callback, console, handed>>

\* TouchAdminSession; the cookie is set again to the current credential.
TouchSession(t) ==
  /\ tab[t].pc = "touch"
  /\ handed' = IF console.exists THEN [handed EXCEPT ![console.generation] = clock] ELSE handed
  /\ tab' = [tab EXCEPT ![t] = NoRequest]
  /\ UNCHANGED <<clock, staff, callback, console>>

\* Mutant: every refresh of the current generation rotates.
Stale(t) == console.generation # tab[t].generation

\* Another tab has rotated since, or somebody has less than Overlap ago.
Settled(t) == console.generation # tab[t].generation \/ PreviousLives

\* handleAdminRefresh and RotateAdminSession, which compares the credential again.
RefreshSession(t) ==
  /\ tab[t].pc = "refresh" /\ Accepted(tab[t].credential)
  /\ \/ /\ Settled(t)
        /\ handed' = [handed EXCEPT ![console.generation] = clock]
        /\ UNCHANGED console
     \/ /\ ~Settled(t)
        /\ console.generation < MaxGeneration
        /\ console' = [console EXCEPT !.generation = @ + 1, !.rotated = clock]
        /\ handed' = [handed EXCEPT ![console.generation + 1] = clock]
  /\ tab' = [tab EXCEPT ![t] = NoRequest]
  /\ UNCHANGED <<clock, staff, callback>>

\* The credential is too old by now, or the session is gone.
RefreshRefused(t) ==
  /\ tab[t].pc = "refresh"
  /\ ~Accepted(tab[t].credential)
  /\ tab' = [tab EXCEPT ![t] = NoRequest]
  /\ UNCHANGED <<clock, staff, callback, console, handed>>

\* The row goes; what was handed out is worth nothing any more.
Ended == /\ console' = NoConsole
         /\ handed' = [g \in Generations |-> Never]

ConsoleLogout(t) ==
  /\ tab[t].pc = "logout"
  /\ Ended
  /\ tab' = [tab EXCEPT ![t] = NoRequest]
  /\ UNCHANGED <<clock, staff, callback>>

\* Twelve idle hours or seven days; the row is deleted by CleanupExpired.
SessionExpires ==
  /\ console.exists
  /\ Ended
  /\ UNCHANGED <<clock, staff, callback, tab>>

\* AdminManageUser by another administrator
SetRole(role) ==
  /\ staff' = [staff EXCEPT !.role = role]
  /\ UNCHANGED <<clock, callback, console, tab, handed>>

BanStaff ==
  /\ staff' = [staff EXCEPT !.banned = TRUE]
  /\ Ended
  /\ UNCHANGED <<clock, callback, tab>>

UnbanStaff ==
  /\ staff' = [staff EXCEPT !.banned = FALSE]
  /\ UNCHANGED <<clock, callback, console, tab, handed>>

ConsoleNext ==
  \/ Tick \/ Authorize \/ Identify \/ RefuseStaff \/ Enter \/ SessionExpires
  \/ \E t \in Tabs : Request(t) \/ TouchSession(t) \/ RefreshSession(t)
                     \/ RefreshRefused(t) \/ ConsoleLogout(t)
  \/ \E role \in {"user", "reviewer"} : SetRole(role)
  \/ BanStaff \/ UnbanStaff

ConsoleSpec == ConsoleInit /\ [][ConsoleNext]_consoleVars
-----------------------------------------------------------------------------
(* Properties *)

ConsoleTypeOK ==
  /\ clock \in 0..MaxTime
  /\ staff \in [role : {"user", "reviewer", "admin"}, banned : BOOLEAN]
  /\ callback \in {"none", "started", "identified", "entered"}
  /\ console \in [exists : BOOLEAN, generation : Generations, rotated : {Never} \union 0..MaxTime]
  /\ tab \in [Tabs -> [pc : {"idle", "refresh", "touch", "logout"},
                       credential : Generations, generation : Generations]]
  /\ handed \in [Generations -> {Never} \union 0..MaxTime]

\* A tab that was given a cookie less than Overlap ago is still let in with it,
\* however many other tabs rotate: only the end of the session takes it away.
HandedOutIsAccepted ==
  \A g \in Generations :
    handed[g] # Never /\ handed[g] + Overlap > clock => Accepted(g)
=============================================================================
