------------------------------ MODULE GitHubLink ------------------------------
(***************************************************************************)
(* The GitHub authorization of one account: flows of the web and of the     *)
(* device that end in a stored token, the disconnection by the user, and    *)
(* the requests that drop a token GitHub has rejected.  A flow yields one   *)
(* token at most, which has its name.                                       *)
(***************************************************************************)
EXTENDS Naturals

CONSTANTS
  Flows,          \* authorizations
  WebFlows,       \* those of a browser; the others are of a device
  Checks,         \* requests to GitHub in the name of the user
  NoFlow,         \* no flow, no token
  MaxDisconnects  \* bound of the model

ASSUME GitHubLinkAssumption ==
  WebFlows \subseteq Flows /\ NoFlow \notin Flows /\ MaxDisconnects \in Nat

VARIABLES
  flow,      \* the rows of oauth_states and github_device_flows: state and the
             \* disconnections before the flow was begun
  tokenIn,   \* flows whose handler has the token and has not stored it
  stored,    \* the token in github_grants
  honoured,  \* the tokens GitHub accepts
  barred,    \* users.banned_at is set
  unlink,    \* handleGitHubGrantDelete, which holds the advisory lock: how far it
             \* is, the token it read, and whether its connection is still there
  check,     \* per request: how far it is, and its token
  era        \* disconnections so far

linkVars == <<flow, tokenIn, stored, honoured, barred, unlink, check, era>>

NoUnlink == [pc |-> "idle", token |-> NoFlow, connected |-> TRUE]
NoCheck == [pc |-> "idle", token |-> NoFlow]

LinkInit ==
  /\ flow = [f \in Flows |-> [state |-> "none", era |-> 0]]
  /\ tokenIn = {} /\ honoured = {}
  /\ stored = NoFlow
  /\ barred = FALSE
  /\ unlink = NoUnlink
  /\ check = [c \in Checks |-> NoCheck]
  /\ era = 0

-----------------------------------------------------------------------------
(* Flows *)

\* CreateState, CreateGitHubDeviceFlow
Begin(f) ==
  /\ flow[f].state = "none" /\ ~barred
  /\ flow' = [flow EXCEPT ![f].state = "open", ![f].era = era]
  /\ UNCHANGED <<tokenIn, stored, honoured, barred, unlink, check, era>>

BeginWeb(f) == f \in WebFlows /\ Begin(f)
BeginDevice(f) == f \notin WebFlows /\ Begin(f)

\* GitHub gives the token of a flow once; the row of the flow is left in state.
ReceiveToken(f, state) ==
  /\ flow[f].state = "open" /\ f \notin honoured /\ f \notin tokenIn
  /\ flow' = [flow EXCEPT ![f].state = state]
  /\ honoured' = honoured \union {f}
  /\ tokenIn' = tokenIn \union {f}
  /\ UNCHANGED <<stored, barred, unlink, check, era>>

\* The state of a web flow is consumed before the code is exchanged; a device is
\* polled while its row is open.
WebToken(f) == f \in WebFlows /\ ReceiveToken(f, "used")
DeviceToken(f) == f \notin WebFlows /\ ReceiveToken(f, "open")

FlowExpires(f) ==
  /\ flow[f].state \in {"open", "used"}
  /\ flow' = [flow EXCEPT ![f].state = "gone"]
  /\ UNCHANGED <<tokenIn, stored, honoured, barred, unlink, check, era>>

\* The UPDATE of CompleteGitHubWebFlow and of CompleteGitHubDeviceFlow.
MayComplete(f) ==
  /\ flow[f].state = (IF f \in WebFlows THEN "used" ELSE "open")
  /\ ~barred

\* The advisory lock is free: nobody disconnects.
LinkFree == unlink.pc = "idle" \/ ~unlink.connected

Complete(f) ==
  /\ f \in tokenIn /\ LinkFree /\ MayComplete(f)
  /\ stored' = f
  /\ flow' = [flow EXCEPT ![f].state = "done"]
  /\ tokenIn' = tokenIn \ {f}
  /\ UNCHANGED <<honoured, barred, unlink, check, era>>

\* The row is gone or the user banned: the new token is revoked, if GitHub answers.
CompleteFails(f) ==
  /\ f \in tokenIn /\ ~MayComplete(f)
  /\ tokenIn' = tokenIn \ {f}
  /\ honoured' \in {honoured, honoured \ {f}}
  /\ UNCHANGED <<flow, stored, barred, unlink, check, era>>

\* The handler stops between the exchange and the transaction.
Abandon(f) ==
  /\ f \in tokenIn
  /\ tokenIn' = tokenIn \ {f}
  /\ UNCHANGED <<flow, stored, honoured, barred, unlink, check, era>>

-----------------------------------------------------------------------------
(* handleGitHubGrantDelete *)

BeginUnlink ==
  /\ unlink.pc = "idle" /\ ~barred /\ era < MaxDisconnects
  /\ unlink' = [NoUnlink EXCEPT !.pc = IF stored = NoFlow THEN "delete" ELSE "revoke",
                                !.token = stored]
  /\ UNCHANGED <<flow, tokenIn, stored, honoured, barred, check, era>>

\* 204, or 404 when GitHub no longer knows the token; or no answer to either.
RevokeStored ==
  /\ unlink.pc = "revoke"
  /\ honoured' = honoured \ {unlink.token}
  /\ \/ unlink' = [unlink EXCEPT !.pc = "delete"]
     \/ unlink' = NoUnlink
  /\ UNCHANGED <<flow, tokenIn, stored, barred, check, era>>

UnlinkFails ==
  /\ unlink.pc # "idle"
  /\ unlink' = NoUnlink
  /\ UNCHANGED <<flow, tokenIn, stored, honoured, barred, check, era>>

DropUnlinkConnection ==
  /\ unlink.pc # "idle"
  /\ unlink' = [unlink EXCEPT !.connected = FALSE]
  /\ UNCHANGED <<flow, tokenIn, stored, honoured, barred, check, era>>

\* Mutant: the flows under way are left alone.
GrantAlone == flow

\* DELETE FROM oauth_states, github_device_flows
FlowsDeleted ==
  [f \in Flows |-> IF flow[f].state = "none" THEN flow[f] ELSE [flow[f] EXCEPT !.state = "gone"]]

\* DeleteGitHubGrant
DeleteGrant ==
  /\ unlink.pc = "delete" /\ unlink.connected
  /\ stored' = NoFlow
  /\ flow' = FlowsDeleted
  /\ era' = era + 1
  /\ unlink' = NoUnlink
  /\ UNCHANGED <<tokenIn, honoured, barred, check>>

-----------------------------------------------------------------------------
(* Requests with the stored token *)

ReadToken(c) ==
  /\ check[c].pc = "idle" /\ stored # NoFlow
  /\ check' = [check EXCEPT ![c] = [pc |-> "ask", token |-> stored]]
  /\ UNCHANGED <<flow, tokenIn, stored, honoured, barred, unlink, era>>

\* GitHub answers 401, or the request is done.
AskGitHubUser(c) ==
  /\ check[c].pc = "ask"
  /\ check' = [check EXCEPT ![c] =
       IF check[c].token \in honoured THEN NoCheck ELSE [@ EXCEPT !.pc = "reject"]]
  /\ UNCHANGED <<flow, tokenIn, stored, honoured, barred, unlink, era>>

\* rejectGitHubToken reads the row again, RejectGitHubToken compares the cipher.
StillStored(c) == stored = check[c].token

RejectToken(c) ==
  /\ check[c].pc = "reject"
  /\ stored' = IF StillStored(c) THEN NoFlow ELSE stored
  /\ check' = [check EXCEPT ![c] = NoCheck]
  /\ UNCHANGED <<flow, tokenIn, honoured, barred, unlink, era>>

\* The user withdraws a token at GitHub.
Withdraw(f) ==
  /\ f \in honoured
  /\ honoured' = honoured \ {f}
  /\ UNCHANGED <<flow, tokenIn, stored, barred, unlink, check, era>>

Bar ==
  /\ barred' = ~barred
  /\ UNCHANGED <<flow, tokenIn, stored, honoured, unlink, check, era>>

LinkNext ==
  \/ \E f \in Flows :
       \/ BeginWeb(f) \/ BeginDevice(f) \/ WebToken(f) \/ DeviceToken(f) \/ FlowExpires(f) \/ Complete(f) \/ CompleteFails(f)
       \/ Abandon(f) \/ Withdraw(f)
  \/ BeginUnlink \/ RevokeStored \/ UnlinkFails \/ DropUnlinkConnection \/ DeleteGrant
  \/ \E c \in Checks : ReadToken(c) \/ AskGitHubUser(c) \/ RejectToken(c)
  \/ Bar

LinkSpec == LinkInit /\ [][LinkNext]_linkVars
-----------------------------------------------------------------------------
(* Properties *)

LinkTypeOK ==
  /\ flow \in [Flows -> [state : {"none", "open", "used", "done", "gone"},
                         era : 0..MaxDisconnects]]
  /\ tokenIn \subseteq Flows /\ honoured \subseteq Flows
  /\ stored \in Flows \union {NoFlow}
  /\ barred \in BOOLEAN /\ era \in 0..MaxDisconnects
  /\ unlink \in [pc : {"idle", "revoke", "delete"}, token : Flows \union {NoFlow},
                 connected : BOOLEAN]
  /\ check \in [Checks -> [pc : {"idle", "ask", "reject"}, token : Flows \union {NoFlow}]]

\* The stored token changes only as the user wants: a new one comes from an
\* authorization begun after the last disconnection, however late it completes,
\* and a token is only dropped when GitHub accepts it no longer, so that neither
\* a disconnection nor a late rejection takes a newer one away.
LinkFollowsTheUser ==
  [][stored' # stored =>
       IF stored' = NoFlow THEN stored \notin honoured
       ELSE flow[stored'].era = era]_linkVars
=============================================================================
