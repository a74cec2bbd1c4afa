------------------------------- MODULE Sessions -------------------------------
(***************************************************************************)
(* The client sessions of one account: authorizations that end in a login  *)
(* ticket, the exchange of a ticket for a session, the rotation of refresh *)
(* tokens with receipts, logout, revocation by an administrator and bans.  *)
(* A pair of tokens is a number.  Requests and answers stay in the network *)
(* for ever: each may be lost, late or handled any number of times.        *)
(***************************************************************************)
EXTENDS Naturals, FiniteSets

CONSTANTS
  Logins,       \* authorizations, each with the client that began it
  RotationIds,  \* ids a client may give a rotation
  NoId,         \* an older client gives none
  MaxPairs      \* bound of the model on the pairs of tokens ever made

ASSUME SessionsAssumption == NoId \notin RotationIds /\ MaxPairs \in Nat

VARIABLES
  banned,    \* users.banned_at is set
  login,     \* per login: how far its oauth_states and login_tickets rows are
  session,   \* per login: its sessions row; pair is access_hash and refresh_hash
  receipts,  \* session_rotation_receipts; live for two minutes
  pairs,     \* the pairs handed out so far are 1..pairs
  client,    \* per login: the pair the client holds, the id it gives the rotation
             \* of this pair, and whether it has kept to this id
  requests,  \* rotations ever asked for: [pair, id]
  answers,   \* successful answers to them: [presented, pair]
  left       \* logins whose client has logged out in time (see Logout)

sessionsVars == <<banned, login, session, receipts, pairs, client, requests, answers, left>>

NoSession == [state |-> "none", pair |-> 0, access |-> FALSE, refresh |-> FALSE]
NoClient == [pair |-> 0, id |-> NoId, kept |-> TRUE]

SessionsInit ==
  /\ banned = FALSE
  /\ login = [l \in Logins |-> "none"]
  /\ session = [l \in Logins |-> NoSession]
  /\ client = [l \in Logins |-> NoClient]
  /\ receipts = {} /\ requests = {} /\ answers = {} /\ left = {}
  /\ pairs = 0

-----------------------------------------------------------------------------
(* Authorization *)

\* The conditions of handleBandBBSCallback, each read at a time of its own:
\* started, then the state consumed, then the account looked at, then a ticket.
LoginStep(l, from, to) ==
  /\ login[l] = from
  /\ login' = [login EXCEPT ![l] = to]
  /\ UNCHANGED <<banned, session, receipts, pairs, client, requests, answers, left>>

StartAuthorization(l) == LoginStep(l, "none", "started")

\* ConsumeState: once, and not after its expiry.
ConsumeState(l) == LoginStep(l, "started", "consumed")

\* The exchange of the code and the checks of scopes and identity come between.
AdmitUser(l) == ~banned /\ LoginStep(l, "consumed", "admitted")

RefuseUser(l) == LoginStep(l, "consumed", "failed")

CreateTicket(l) == LoginStep(l, "admitted", "ticket")

\* An oauth_states or login_tickets row is out of date, and cleaned up.
LoginExpires(l) == \E from \in {"started", "ticket"} : LoginStep(l, from, "failed")

\* The row ConsumeLoginTicket selects.
TicketValid(l) == login[l] = "ticket" /\ ~banned

\* handleTicketExchange: the ticket is used, the session inserted; the answer
\* may be lost, and nobody holds the pair then.
ExchangeTicket(l) ==
  /\ TicketValid(l) /\ pairs < MaxPairs
  /\ pairs' = pairs + 1
  /\ login' = [login EXCEPT ![l] = "used"]
  /\ session' = [session EXCEPT ![l] =
       [state |-> "open", pair |-> pairs + 1, access |-> TRUE, refresh |-> TRUE]]
  /\ \/ client' = [client EXCEPT ![l].pair = pairs + 1]
     \/ UNCHANGED client
  /\ UNCHANGED <<banned, receipts, requests, answers, left>>

-----------------------------------------------------------------------------
(* Rotation *)

\* Mutant: the session is found by a pair it had, the row lock not awaited.
EverIts(l, p) == session[l].pair = p \/ \E r \in receipts : r.from = p /\ r.session = l

\* refresh_hash, read again after waiting for the row.
Its(l, p) == session[l].pair = p

\* A row the first SELECT of RotateSessionWithReceipt finds.
Rotatable(l, p) ==
  session[l].state = "open" /\ session[l].refresh /\ ~banned /\ Its(l, p)

\* A receipt of this rotation whose pair is still the session's.
Replayable(l, q, r) ==
  /\ r.live /\ r.from = q.pair /\ r.id = q.id /\ r.session = l
  /\ session[l].state = "open" /\ session[l].pair = r.to /\ ~banned

\* The tokens decrypted from the receipt replace those made for this request.
Replayed(r) == r.to

\* The client asks for a rotation, or asks again.
AskRotation(l, id) ==
  /\ client[l].pair # 0
  /\ requests' = requests \union {[pair |-> client[l].pair, id |-> id]}
  /\ client' = [client EXCEPT ![l].id = id,
       ![l].kept = client[l].kept /\
         (client[l].id = id \/ [pair |-> client[l].pair, id |-> client[l].id] \notin requests)]
  /\ UNCHANGED <<banned, login, session, receipts, pairs, answers, left>>

\* handleRefresh with a token that is the session's.
Rotate(l, q) ==
  /\ q \in requests /\ Rotatable(l, q.pair) /\ pairs < MaxPairs
  /\ pairs' = pairs + 1
  /\ session' = [session EXCEPT ![l].pair = pairs + 1, ![l].access = TRUE, ![l].refresh = TRUE]
  /\ receipts' = receipts \union
       {[from |-> q.pair, id |-> id, session |-> l, to |-> pairs + 1, live |-> TRUE] :
          id \in {q.id} \ {NoId}}
  /\ answers' = answers \union {[presented |-> q.pair, pair |-> pairs + 1]}
  /\ UNCHANGED <<banned, login, client, requests, left>>

\* handleRefresh with a token that was rotated before under the same id.
Replay(l, q, r) ==
  /\ q \in requests /\ r \in receipts
  /\ ~Rotatable(l, q.pair) /\ Replayable(l, q, r)
  /\ answers' = answers \union {[presented |-> q.pair, pair |-> Replayed(r)]}
  /\ UNCHANGED <<banned, login, session, receipts, pairs, client, requests, left>>

\* An answer arrives at the client that still waits for it.
Adopt(l, a) ==
  /\ a \in answers /\ a.presented = client[l].pair
  /\ client' = [client EXCEPT ![l] = [NoClient EXCEPT !.pair = a.pair]]
  /\ UNCHANGED <<banned, login, session, receipts, pairs, requests, answers, left>>

ReceiptExpires(r) ==
  /\ r \in receipts /\ r.live
  /\ receipts' = (receipts \ {r}) \union {[r EXCEPT !.live = FALSE]}
  /\ UNCHANGED <<banned, login, session, pairs, client, requests, answers, left>>

TokenExpires(l) ==
  /\ \/ session[l].access /\ session' = [session EXCEPT ![l].access = FALSE]
     \/ session[l].refresh /\ session' = [session EXCEPT ![l].access = FALSE, ![l].refresh = FALSE]
  /\ UNCHANGED <<banned, login, receipts, pairs, client, requests, answers, left>>

-----------------------------------------------------------------------------
(* Ends of a session *)

\* UPDATE sessions SET revoked_at=now() WHERE revoked_at IS NULL AND ...
Revoke(ls) ==
  session' = [l \in Logins |->
    IF l \in ls /\ session[l].state = "open" THEN [session[l] EXCEPT !.state = "revoked"]
    ELSE session[l]]

\* Mutant: the pair must be the session's.
FoundByPair(p) == {l \in Logins : session[l].state = "open" /\ Its(l, p)}

\* The SELECTs of RevokeSessionCredentials: by a token, or by a receipt of it.
FoundByCredential(p) ==
  {l \in Logins : session[l].state = "open" /\
     (Its(l, p) \/ \E r \in receipts : r.from = p /\ r.live /\ r.session = l)}

\* handleSessionRevoke with both tokens the client holds: 204 whether or not a
\* session is found.  The client is in time when it always gave an id and no
\* receipt of its pair is out of date.
Logout(l) ==
  LET p == client[l].pair IN
  /\ p # 0
  /\ Revoke(FoundByCredential(p))
  /\ client' = [client EXCEPT ![l] = NoClient]
  /\ left' = IF [pair |-> p, id |-> NoId] \in requests
                \/ \E r \in receipts : r.from = p /\ ~r.live
             THEN left ELSE left \union {l}
  /\ UNCHANGED <<banned, login, receipts, pairs, requests, answers>>

\* AdminRevokeUserSession, and AdminRevokeAllUserSessions
AdminRevoke(ls) ==
  /\ Revoke({l \in ls : session[l].refresh})
  /\ UNCHANGED <<banned, login, receipts, pairs, client, requests, answers, left>>

EndedByBan == Logins

\* AdminManageUser, "ban": the account and its sessions in one transaction.
Ban ==
  /\ banned' = TRUE
  /\ Revoke(EndedByBan)
  /\ UNCHANGED <<login, receipts, pairs, client, requests, answers, left>>

Unban ==
  /\ banned' = FALSE
  /\ UNCHANGED <<login, session, receipts, pairs, client, requests, answers, left>>

SessionsNext ==
  \/ \E l \in Logins :
       \/ StartAuthorization(l) \/ ConsumeState(l) \/ AdmitUser(l) \/ RefuseUser(l)
       \/ CreateTicket(l) \/ LoginExpires(l) \/ ExchangeTicket(l)
       \/ \E id \in RotationIds \union {NoId} : AskRotation(l, id)
       \/ \E q \in requests : Rotate(l, q) \/ \E r \in receipts : Replay(l, q, r)
       \/ \E a \in answers : Adopt(l, a)
       \/ TokenExpires(l) \/ Logout(l) \/ AdminRevoke({l})
  \/ \E r \in receipts : ReceiptExpires(r)
  \/ AdminRevoke(Logins) \/ Ban \/ Unban

SessionsSpec == SessionsInit /\ [][SessionsNext]_sessionsVars
-----------------------------------------------------------------------------
(* Properties *)

Pairs == 0..MaxPairs

SessionsTypeOK ==
  /\ banned \in BOOLEAN /\ pairs \in Pairs /\ left \subseteq Logins
  /\ login \in [Logins -> {"none", "started", "consumed", "admitted", "ticket", "used", "failed"}]
  /\ session \in [Logins ->
       [state : {"none", "open", "revoked"}, pair : Pairs, access : BOOLEAN, refresh : BOOLEAN]]
  /\ client \in [Logins -> [pair : Pairs, id : RotationIds \union {NoId}, kept : BOOLEAN]]
  /\ receipts \subseteq [from : Pairs, id : RotationIds, session : Logins, to : Pairs, live : BOOLEAN]
  /\ requests \subseteq [pair : Pairs, id : RotationIds \union {NoId}]
  /\ answers \subseteq [presented : Pairs, pair : Pairs]

\* A pair is exchanged for one other pair, whoever asks and how often: a token
\* never has two successors, and a repeated answer is the first one.  A client
\* that keeps the id of its rotation is not locked out by lost answers: the pair
\* it holds is its session's, or the receipt that leads there has its id.
RotationHasOneAnswer ==
  /\ \A a, b \in answers : a.presented = b.presented => a.pair = b.pair
  /\ \A l \in Logins :
       client[l].pair # 0 /\ client[l].kept /\ client[l].id # NoId =>
         \/ Its(l, client[l].pair)
         \/ \E r \in receipts :
              r.from = client[l].pair /\ r.id = client[l].id /\ Its(l, r.to)

\* UserByAccessToken and requireUser
Admitted(l) == session[l].state = "open" /\ session[l].access /\ ~banned

\* After a logout in time nobody uses the session, not even by a rotation that
\* was on its way; and under a ban no session opens or goes on.
EndedIsEnded ==
  /\ \A l \in left : ~Admitted(l)
  /\ banned => \A l \in Logins : session[l].state # "open"
=============================================================================
