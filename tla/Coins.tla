--------------------------------- MODULE Coins ---------------------------------
(***************************************************************************)
(* Coins: daily check-ins, gifts of one or two coins to a resource, rewards *)
(* of its creator, adjustments, freezes and reversals by administrators,    *)
(* and the collaborators who may not give.  The transactions that move      *)
(* coins are serializable: one step each.  A coin is ten units; the ledger   *)
(* is kept as the sum of a user's rows of each kind, which is what           *)
(* AdminCoinStats reads of it.                                              *)
(***************************************************************************)
EXTENDS Integers, FiniteSets, Functions

CONSTANTS
  Voters,        \* users who may give coins to the one resource
  Creator,       \* its owner
  DailyRewards,  \* coins a check-in may bring
  Deltas,        \* units an administrator may add or take
  MaxDays,       \* bounds of the model: days,
  MaxGifts,      \* gifts ever given
  MaxAdjusted    \* and the sum of the adjustments of a user

ASSUME CoinsAssumption ==
  /\ IsFiniteSet(Voters) /\ Creator \notin Voters
  /\ DailyRewards \subseteq 1..5 /\ Deltas \subseteq Nat \ {0}
  /\ MaxDays \in Nat /\ MaxGifts \in Nat /\ MaxAdjusted \in Nat

Users == Voters \union {Creator}

VARIABLES
  balance,       \* user_coin_accounts.balance_units
  ledger,        \* coin_ledger: per user and kind, the sum of delta_units
  vote,          \* resource_coin_votes: per voter
  frozen,        \* users whose voting_frozen_at is set
  checkedIn,     \* users with a daily_coin_checkins row of today
  day, gifts,    \* counters of the bounds
  collaborator,  \* resource_collaborators: none, invited, accepted
  listed,        \* the resource is visible and has a current revision
  uncovered      \* units of rewards that could not be taken back

coinsVars == <<balance, ledger, vote, frozen, checkedIn, day, gifts, collaborator,
               listed, uncovered>>

Kinds == {"checkin", "vote", "reward", "adjusted", "reversal"}

NoVote == [coins |-> 0, reward |-> 0, live |-> FALSE]

CoinsInit ==
  /\ balance = [u \in Users |-> 0]
  /\ ledger = [u \in Users |-> [k \in Kinds |-> 0]]
  /\ vote = [v \in Voters |-> NoVote]
  /\ frozen = {} /\ checkedIn = {}
  /\ day = 0 /\ gifts = 0 /\ uncovered = 0
  /\ collaborator = [v \in Voters |-> "none"]
  /\ listed = TRUE

LiveCoins(v) == IF vote[v].live THEN vote[v].coins ELSE 0

-----------------------------------------------------------------------------
(* Users *)

\* CheckinCoins; again on the same day it changes nothing.
Checkin(u, coins) ==
  /\ u \notin checkedIn
  /\ balance' = [balance EXCEPT ![u] = @ + 10 * coins]
  /\ ledger' = [ledger EXCEPT ![u]["checkin"] = @ + 10 * coins]
  /\ checkedIn' = checkedIn \union {u}
  /\ UNCHANGED <<vote, frozen, day, gifts, collaborator, listed, uncovered>>

\* A day passes in Shanghai; an account of the first day is too young to give.
NextDay ==
  /\ day < MaxDays
  /\ day' = day + 1
  /\ checkedIn' = {}
  /\ UNCHANGED <<balance, ledger, vote, frozen, gifts, collaborator, listed, uncovered>>

\* The checks of CoinResource before the limit and the balance.
MayGive(v) == day > 0 /\ listed /\ collaborator[v] # "accepted" /\ v \notin frozen

\* Mutant: a vote that was invalidated still holds its coins.
VoteKept(v, coins) ==
  [coins |-> vote[v].coins + coins, reward |-> vote[v].reward + coins, live |-> TRUE]

\* The row is inserted or updated; an invalidated one starts again.
VoteGiven(v, coins) ==
  IF vote[v].live
  THEN [vote[v] EXCEPT !.coins = @ + coins, !.reward = @ + coins]
  ELSE [coins |-> coins, reward |-> coins, live |-> TRUE]

\* CoinResource: ten units for a coin, of which the creator has one.
CoinResource(v, coins) ==
  /\ MayGive(v) /\ gifts < MaxGifts
  /\ LiveCoins(v) + coins <= 2
  /\ balance[v] >= 10 * coins
  /\ balance' = [balance EXCEPT ![v] = @ - 10 * coins, ![Creator] = @ + coins]
  /\ ledger' = [ledger EXCEPT ![v]["vote"] = @ - 10 * coins, ![Creator]["reward"] = @ + coins]
  /\ vote' = [vote EXCEPT ![v] = VoteGiven(v, coins)]
  /\ gifts' = gifts + 1
  /\ UNCHANGED <<frozen, checkedIn, day, collaborator, listed, uncovered>>

\* InviteCollaborator: also of one who has accepted, who must accept again;
\* AcceptCollaborator; RemoveCollaborator, by either side.
SetCollaborator(v, from, to) ==
  /\ collaborator[v] \in from
  /\ collaborator' = [collaborator EXCEPT ![v] = to]
  /\ UNCHANGED <<balance, ledger, vote, frozen, checkedIn, day, gifts, listed, uncovered>>

InviteCollaborator(v) == SetCollaborator(v, {"none", "invited", "accepted"}, "invited")
AcceptCollaborator(v) == SetCollaborator(v, {"invited"}, "accepted")
RemoveCollaborator(v) == SetCollaborator(v, {"invited", "accepted"}, "none")

-----------------------------------------------------------------------------
(* Administrators *)

\* AdminAdjustCoins
AdjustCoins(u, delta) ==
  /\ balance[u] + delta >= 0
  /\ ledger[u]["adjusted"] + delta \in -MaxAdjusted..MaxAdjusted
  /\ balance' = [balance EXCEPT ![u] = @ + delta]
  /\ ledger' = [ledger EXCEPT ![u]["adjusted"] = @ + delta]
  /\ UNCHANGED <<vote, frozen, checkedIn, day, gifts, collaborator, listed, uncovered>>

\* AdminSetCoinFreeze
SetCoinFreeze(u) ==
  /\ frozen' \in {frozen \union {u}, frozen \ {u}}
  /\ UNCHANGED <<balance, ledger, vote, checkedIn, day, gifts, collaborator, listed, uncovered>>

\* The creator's balance does not become negative.
Clawback(v) == IF balance[Creator] < vote[v].reward THEN balance[Creator] ELSE vote[v].reward

\* AdminInvalidateCoinVote
InvalidateVote(v) ==
  /\ vote[v].live
  /\ LET back == 10 * vote[v].coins  taken == Clawback(v) IN
       /\ balance' = [balance EXCEPT ![v] = @ + back, ![Creator] = @ - taken]
       /\ ledger' = [ledger EXCEPT ![v]["reversal"] = @ + back, ![Creator]["reversal"] = @ - taken]
       /\ uncovered' = uncovered + (vote[v].reward - taken)
  /\ vote' = [vote EXCEPT ![v].live = FALSE]
  /\ UNCHANGED <<frozen, checkedIn, day, gifts, collaborator, listed>>

\* The moderation of the resource, see Catalog.
SetListed ==
  /\ listed' = ~listed
  /\ UNCHANGED <<balance, ledger, vote, frozen, checkedIn, day, gifts, collaborator, uncovered>>

CoinsNext ==
  \/ NextDay \/ SetListed
  \/ \E u \in Users :
       \/ \E coins \in DailyRewards : Checkin(u, coins)
       \/ \E delta \in Deltas : AdjustCoins(u, delta) \/ AdjustCoins(u, -delta)
  \/ \E v \in Voters :
       \/ \E coins \in 1..2 : CoinResource(v, coins)
       \/ InvalidateVote(v) \/ SetCoinFreeze(v)
       \/ InviteCollaborator(v) \/ AcceptCollaborator(v) \/ RemoveCollaborator(v)

CoinsSpec == CoinsInit /\ [][CoinsNext]_coinsVars
-----------------------------------------------------------------------------
(* What is shown *)

\* CreatorCoinStats: lifetime coins and reward of the live votes.
LiveReward(v) == IF vote[v].live THEN vote[v].reward ELSE 0
LifetimeCoins == SumFunction([v \in Voters |-> LiveCoins(v)])
LifetimeReward == SumFunction([v \in Voters |-> LiveReward(v)])

\* AdminCoinStats: issued is at least what adjustments left; spent; rewarded.
Rewarded(u) == ledger[u]["reward"] + (IF ledger[u]["reversal"] < 0 THEN ledger[u]["reversal"] ELSE 0)
SpentUnits == -SumFunction([u \in Users |-> ledger[u]["vote"]])
RewardedUnits == SumFunction([u \in Users |-> Rewarded(u)])

-----------------------------------------------------------------------------
(* Properties *)

CoinsTypeOK ==
  /\ balance \in [Users -> Int] /\ ledger \in [Users -> [Kinds -> Int]]
  /\ vote \in [Voters -> [coins : 0..2, reward : 0..2, live : BOOLEAN]]
  /\ frozen \subseteq Voters /\ checkedIn \subseteq Users
  /\ day \in 0..MaxDays /\ gifts \in 0..MaxGifts /\ uncovered \in Nat
  /\ collaborator \in [Voters -> {"none", "invited", "accepted"}]
  /\ listed \in BOOLEAN

\* A balance is the sum of the user's rows, and is not negative.
BalanceIsLedger ==
  \A u \in Users :
    /\ balance[u] >= 0
    /\ balance[u] = ledger[u]["checkin"] + ledger[u]["vote"] + ledger[u]["reward"]
                      + ledger[u]["adjusted"] + ledger[u]["reversal"]

\* A voter is out of pocket by exactly the coins that count, two at most.
OutOfPocket ==
  \A v \in Voters :
    /\ LiveCoins(v) <= 2
    /\ -(ledger[v]["vote"] + ledger[v]["reversal"]) = 10 * LiveCoins(v)

\* The creator keeps a reward for the coins that count alone, but for the part
\* a reversal could not take back; what was spent covers them.
RewardIsEarned ==
  /\ LifetimeReward = LifetimeCoins
  /\ RewardedUnits = LifetimeReward + uncovered
  /\ SpentUnits >= 10 * LifetimeCoins

\* Over any course of gifts, reversals, new gifts and adjustments the accounts
\* agree with the ledger, each voter's rows with the vote that counts, and the
\* creator's with all of them.
CoinsAreAccounted == BalanceIsLedger /\ OutOfPocket /\ RewardIsEarned
=============================================================================
