-------------------------------- MODULE Grants --------------------------------
(***************************************************************************)
(* The BandBBS grant of one account and provider: GrantToken, called by     *)
(* HTTP handlers and publishing workers of any process, renews it with a    *)
(* refresh token BandBBS accepts once; a login replaces it.  The advisory   *)
(* lock is held on the connection all statements of the holder use.  A      *)
(* pair of tokens is a number.                                              *)
(***************************************************************************)
EXTENDS Naturals

CONSTANTS
  Callers,    \* running calls of GrantToken
  NoCaller,
  MaxTokens   \* bound of the model on the pairs BandBBS ever issues

ASSUME GrantsAssumption == NoCaller \notin Callers /\ MaxTokens \in Nat \ {0}

VARIABLES
  grant,      \* the oauth_grants row; pending is pending_token_cipher (0: none)
  suspended,  \* users.banned_at is set
  issued,     \* BandBBS has issued the pairs 1..issued
  accepted,   \* the refresh tokens it still accepts
  holder,     \* who holds the advisory lock
  caller,     \* per caller: how far it is, the pair in hand, whether it has
              \* its connection and whether it has validated once
  exchanged,  \* pairs of logins not stored yet
  forfeited   \* a reason to ask the user again: access was revoked at BandBBS,
              \* belongs to somebody else, or a new pair was lost unsaved

grantsVars == <<grant, suspended, issued, accepted, holder, caller, exchanged, forfeited>>

NoCall == [pc |-> "idle", token |-> 0, connected |-> TRUE, again |-> FALSE]

GrantsInit ==
  /\ grant = [token |-> 1, pending |-> 0, invalid |-> FALSE]
  /\ suspended = FALSE /\ forfeited = FALSE
  /\ issued = 1 /\ accepted = {1} /\ exchanged = {}
  /\ holder = NoCaller
  /\ caller = [c \in Callers |-> NoCall]

\* The call ends and with it its lock.
Return(c) ==
  /\ caller' = [caller EXCEPT ![c] = NoCall]
  /\ holder' = IF holder = c THEN NoCaller ELSE holder

GoOn(c, pc, token) == caller' = [caller EXCEPT ![c].pc = pc, ![c].token = token]

-----------------------------------------------------------------------------
(* Logins, bans and BandBBS *)

\* handleBandBBSCallback: the exchange of the code, without the lock.
ExchangeCode ==
  /\ issued < MaxTokens
  /\ issued' = issued + 1
  /\ accepted' = accepted \union {issued + 1}
  /\ exchanged' = exchanged \union {issued + 1}
  /\ UNCHANGED <<grant, suspended, holder, caller, forfeited>>

\* Mutant: the grant is read and renewed without waiting.
NotWaited(c) == TRUE

\* pg_advisory_lock has returned.
LockGranted(c) == holder = NoCaller

\* UpsertOAuthGrant under the lock; nothing of the old grant is left.
UpsertOAuthGrant(token) == grant' = [token |-> token, pending |-> 0, invalid |-> FALSE]

StoreLogin(token) ==
  /\ token \in exchanged /\ holder = NoCaller /\ ~suspended
  /\ UpsertOAuthGrant(token)
  /\ exchanged' = exchanged \ {token}
  /\ forfeited' = (token \notin accepted)
  /\ UNCHANGED <<suspended, issued, accepted, holder, caller>>

\* A login that failed later on revokes its pair.
RevokePair(token) ==
  /\ token \in exchanged
  /\ exchanged' = exchanged \ {token}
  /\ accepted' = accepted \ {token}
  /\ UNCHANGED <<grant, suspended, issued, holder, caller, forfeited>>

\* The user withdraws the access at BandBBS.
UserWithdraws ==
  /\ accepted' = {}
  /\ forfeited' = TRUE
  /\ UNCHANGED <<grant, suspended, issued, holder, caller, exchanged>>

Suspend ==
  /\ suspended' = ~suspended
  /\ UNCHANGED <<grant, issued, accepted, holder, caller, exchanged, forfeited>>

-----------------------------------------------------------------------------
(* GrantToken *)

\* The grant is read under the lock.  One that is invalid, or a banned user, is
\* sent to authorize again; a stored access token that is neither about to
\* expire nor the one rejected is returned: no step.  A pending pair is used
\* unless it has expired.
ReadGrant(c) ==
  /\ caller[c].pc = "idle" /\ LockGranted(c)
  /\ ~grant.invalid /\ ~suspended
  /\ holder' = c
  /\ IF grant.pending # 0
     THEN \E pc \in {"validate", "renew"} : GoOn(c, pc, grant.pending)
     ELSE GoOn(c, "renew", grant.token)
  /\ UNCHANGED <<grant, suspended, issued, accepted, exchanged, forfeited>>

\* BandBBS takes the refresh token and issues the next pair.
Renewed(c) ==
  /\ caller[c].token \in accepted /\ issued < MaxTokens
  /\ issued' = issued + 1
  /\ accepted' = (accepted \ {caller[c].token}) \union {issued + 1}

Refresh(c) ==
  /\ caller[c].pc = "renew"
  /\ \/ /\ Renewed(c) /\ GoOn(c, "save", issued + 1)
        /\ forfeited' = (forfeited \/ ~caller[c].connected)
     \/ /\ caller[c].token \notin accepted       \* invalid_grant
        /\ GoOn(c, "invalidate", caller[c].token)
        /\ UNCHANGED <<issued, accepted, forfeited>>
  /\ UNCHANGED <<grant, suspended, holder, exchanged>>

\* The answer is lost, with a new pair or without.
RefreshFails(c) ==
  /\ caller[c].pc = "renew"
  /\ Return(c)
  /\ \/ Renewed(c) /\ forfeited' = TRUE
     \/ UNCHANGED <<issued, accepted, forfeited>>
  /\ UNCHANGED <<grant, suspended, exchanged>>

\* pending_token_cipher is the pair in hand.
PendingSaved(c) == [grant EXCEPT !.pending = caller[c].token]

\* SavePendingOAuthToken, also when the request is gone.
SavePending(c) ==
  /\ caller[c].pc = "save" /\ caller[c].connected
  /\ grant' = PendingSaved(c)
  /\ GoOn(c, "validate", caller[c].token)
  /\ UNCHANGED <<suspended, issued, accepted, holder, exchanged, forfeited>>

\* It cannot be saved: the connection is lost or the database refuses.
SaveFails(c) ==
  /\ caller[c].pc = "save"
  /\ Return(c)
  /\ forfeited' = TRUE
  /\ UNCHANGED <<grant, suspended, issued, accepted, exchanged>>

\* ValidateScopes: accepted; rejected the first time, and renewed once more;
\* of another account or with other scopes; or no answer.
Validate(c) ==
  /\ caller[c].pc = "validate"
  /\ \/ GoOn(c, "store", caller[c].token) /\ UNCHANGED <<holder, forfeited>>
     \/ /\ ~caller[c].again
        /\ caller' = [caller EXCEPT ![c].pc = "renew", ![c].again = TRUE]
        /\ UNCHANGED <<holder, forfeited>>
     \/ GoOn(c, "invalidate", caller[c].token) /\ forfeited' = TRUE /\ UNCHANGED holder
     \/ Return(c) /\ UNCHANGED forfeited
  /\ UNCHANGED <<grant, suspended, issued, accepted, exchanged>>

StoreGrant(c) ==
  /\ caller[c].pc = "store" /\ caller[c].connected
  /\ UpsertOAuthGrant(caller[c].token)
  /\ Return(c)
  /\ UNCHANGED <<suspended, issued, accepted, exchanged, forfeited>>

\* InvalidateOAuthGrant
Invalidate(c) ==
  /\ caller[c].pc = "invalidate" /\ caller[c].connected
  /\ grant' = [grant EXCEPT !.invalid = TRUE, !.pending = 0]
  /\ Return(c)
  /\ UNCHANGED <<suspended, issued, accepted, exchanged, forfeited>>

\* A statement fails, the request is cancelled or the process dies, with
\* nothing in hand that is not saved.
GiveUp(c) ==
  /\ caller[c].pc \in {"validate", "store", "invalidate"}
  /\ Return(c)
  /\ UNCHANGED <<grant, suspended, issued, accepted, exchanged, forfeited>>

\* The connection goes, and the lock with it; the caller notices at its next
\* statement.
DropConnection(c) ==
  /\ caller[c].pc # "idle" /\ caller[c].connected
  /\ caller' = [caller EXCEPT ![c].connected = FALSE]
  /\ holder' = IF holder = c THEN NoCaller ELSE holder
  /\ forfeited' = (forfeited \/ caller[c].pc = "save")
  /\ UNCHANGED <<grant, suspended, issued, accepted, exchanged>>

GrantsNext ==
  \/ ExchangeCode \/ UserWithdraws \/ Suspend
  \/ \E token \in exchanged : StoreLogin(token) \/ RevokePair(token)
  \/ \E c \in Callers :
       \/ ReadGrant(c) \/ Refresh(c) \/ RefreshFails(c) \/ SavePending(c) \/ SaveFails(c)
       \/ Validate(c) \/ StoreGrant(c) \/ Invalidate(c) \/ GiveUp(c) \/ DropConnection(c)

GrantsSpec == GrantsInit /\ [][GrantsNext]_grantsVars
-----------------------------------------------------------------------------
(* Properties *)

Tokens == 0..MaxTokens

GrantsTypeOK ==
  /\ grant \in [token : Tokens, pending : Tokens, invalid : BOOLEAN]
  /\ suspended \in BOOLEAN /\ forfeited \in BOOLEAN
  /\ issued \in Tokens /\ accepted \subseteq Tokens /\ exchanged \subseteq Tokens
  /\ holder \in Callers \union {NoCaller}
  /\ caller \in [Callers ->
       [pc : {"idle", "renew", "save", "validate", "store", "invalidate"},
        token : Tokens, connected : BOOLEAN, again : BOOLEAN]]

\* The user is asked to authorize again only for a reason: two renewals never
\* spend one refresh token, a crash after the new pair was saved loses nothing,
\* and a caller that lost its connection does not undo what others renewed.
ReauthorizationHasAReason == grant.invalid => forfeited
=============================================================================
