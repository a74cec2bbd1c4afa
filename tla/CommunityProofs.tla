---------------------------- MODULE CommunityProofs ----------------------------
(***************************************************************************)
(* Proofs about the modules of what people exchange and put together: coins, *)
(* comments, feedback and collections, for any number of them; and about the *)
(* run of MCPeople, which puts them and the modules of accounts in one.     *)
(***************************************************************************)
EXTENDS MCPeople, AccountsProofs, FiniteSetTheorems, WellFoundedInduction

-----------------------------------------------------------------------------
(* Sums *)

\* The element that SumFunction takes first.
First(s) == CHOOSE x \in s : TRUE

\* The sums of the parts of S, as the fold comes by them.
Sums(g, f, S) ==
  /\ g \in [SUBSET S -> Int]
  /\ SumFunction(f) = g[S]
  /\ \A s \in SUBSET S : g[s] = IF s = {} THEN 0 ELSE f[First(s)] + g[s \ {First(s)}]

\* Induction over the numbers, for a set of them: what has no least element is empty.
LEMMA NumbersInduction ==
  ASSUME NEW T \in SUBSET Nat, 0 \in T, \A n \in T : n + 1 \in T
  PROVE  T = Nat
<1> SUFFICES ASSUME Nat \ T # {} PROVE FALSE
  OBVIOUS
<1> DEFINE D == Nat \ T
<1>1. \A x, y \in Nat : x < y => <<x, y>> \in OpToRel(<, Nat)
  BY DEF OpToRel
<1>2. D # {} /\ D \subseteq Nat
  OBVIOUS
<1>3. PICK m \in D : \A n \in D : ~(<<n, m>> \in OpToRel(<, Nat))
  <2> HIDE DEF D
  <2> QED BY <1>2, NatLessThanWellFounded, WFMin
<1>4. \A n \in D : ~(n < m)
  BY <1>1, <1>2, <1>3
<1>5. m # 0 /\ m - 1 \in Nat
  OBVIOUS
<1>6. m - 1 \in T
  BY <1>4, <1>5
<1>7. (m - 1) + 1 = m
  OBVIOUS
<1>8. m \in T
  BY <1>6, <1>7
<1> QED
  BY <1>8

\* Induction over the parts of a finite set, by the elements that SumFunction takes.
LEMMA SubsetsInduction ==
  ASSUME NEW S, IsFiniteSet(S), NEW T \in SUBSET (SUBSET S), {} \in T,
         \A s \in SUBSET S : s # {} /\ s \ {First(s)} \in T => s \in T
  PROVE  \A s \in SUBSET S : s \in T
<1> DEFINE N == {n \in Nat : \A s \in SUBSET S : Cardinality(s) = n => s \in T}
<1>1. \A s \in SUBSET S : IsFiniteSet(s) /\ Cardinality(s) \in Nat
  BY FS_Subset, FS_CardinalityType
<1>2. 0 \in N
  BY <1>1, FS_EmptySet
<1>3. ASSUME NEW n \in N PROVE n + 1 \in N
  <2>1. ASSUME NEW s \in SUBSET S, Cardinality(s) = n + 1 PROVE s \in T
    <3>1. s # {}
      BY <2>1, <1>1, FS_EmptySet
    <3>2. First(s) \in s
      BY <3>1 DEF First
    <3>3. Cardinality(s \ {First(s)}) = Cardinality(s) - 1
      BY <1>1, <3>2, FS_RemoveElement
    <3>4. Cardinality(s \ {First(s)}) = n /\ s \ {First(s)} \in SUBSET S
      BY <2>1, <3>3
    <3> QED
      BY <3>1, <3>4
  <2> QED
    BY <2>1
<1>4. N = Nat
  <2> HIDE DEF N
  <2> QED BY <1>2, <1>3, NumbersInduction DEF N
<1> QED
  BY <1>1, <1>4

\* The recursion of SumFunction has a solution, so the sum is what it says.
LEMMA PartialSums ==
  ASSUME NEW S, IsFiniteSet(S), NEW f \in [S -> Int]
  PROVE  \E g : Sums(g, f, S)
<1> DEFINE Upto(g, n) ==
      \A s \in SUBSET S : Cardinality(s) <= n =>
        g[s] = IF s = {} THEN 0 ELSE f[First(s)] + g[s \ {First(s)}]
    N == {n \in Nat : \E g \in [SUBSET S -> Int] : Upto(g, n)}
<1>1. \A s \in SUBSET S : IsFiniteSet(s) /\ Cardinality(s) \in Nat /\ Cardinality(s) <= Cardinality(S)
  BY FS_Subset, FS_CardinalityType
<1>2. 0 \in N
  <2>1. [s \in SUBSET S |-> 0] \in [SUBSET S -> Int] /\ Upto([s \in SUBSET S |-> 0], 0)
    BY <1>1, FS_EmptySet
  <2> QED
    BY <2>1
<1>3. ASSUME NEW n \in N PROVE n + 1 \in N
  <2>1. PICK g \in [SUBSET S -> Int] : Upto(g, n)
    OBVIOUS
  <2> DEFINE h == [s \in SUBSET S |-> IF s = {} THEN 0 ELSE f[First(s)] + g[s \ {First(s)}]]
  <2>2. \A s \in SUBSET S : s # {} => First(s) \in s /\ f[First(s)] \in Int /\ s \ {First(s)} \in SUBSET S
    BY DEF First
  <2>3. h \in [SUBSET S -> Int]
    BY <2>2
  <2>4. \A s \in SUBSET S : Cardinality(s) <= n => h[s] = g[s]
    BY <2>1
  <2>5. ASSUME NEW s \in SUBSET S, s # {}, Cardinality(s) <= n + 1
        PROVE  h[s] = f[First(s)] + h[s \ {First(s)}]
    <3>1. Cardinality(s \ {First(s)}) <= n
      <4>1. IsFiniteSet(s) /\ First(s) \in s
        BY <1>1, <2>2, <2>5
      <4>2. Cardinality(s \ {First(s)}) = Cardinality(s) - 1
        BY <4>1, FS_RemoveElement
      <4> QED
        BY <1>1, <2>5, <4>2
    <3>2. h[s \ {First(s)}] = g[s \ {First(s)}]
      BY <2>2, <2>4, <2>5, <3>1
    <3>3. h[s] = f[First(s)] + g[s \ {First(s)}]
      BY <2>5
    <3> HIDE DEF h
    <3> QED
      BY <3>2, <3>3
  <2>6. h[{}] = 0
    OBVIOUS
  <2>7. Upto(h, n + 1)
    <3> HIDE DEF h
    <3> QED BY <2>5, <2>6
  <2> HIDE DEF h, Upto
  <2> QED
    BY <2>3, <2>7
<1>4. N = Nat
  <2> HIDE DEF N
  <2> QED BY <1>2, <1>3, NumbersInduction DEF N
<1>5. PICK g \in [SUBSET S -> Int] : Upto(g, Cardinality(S))
  BY <1>4, FS_CardinalityType
<1>6. \A s \in SUBSET S : g[s] = IF s = {} THEN 0 ELSE f[First(s)] + g[s \ {First(s)}]
  BY <1>1, <1>5
<1> DEFINE Iterates(i) == i = [s \in SUBSET S |-> IF s = {} THEN 0
                                                ELSE f[First(s)] + i[s \ {First(s)}]]
           c == CHOOSE i : Iterates(i)
<1>7. Iterates(g)
  BY <1>6
<1>8. Iterates(c)
  BY <1>7, Zenon
<1>9. SumFunction(f) = c[S]
  BY DEF SumFunction, SumFunctionOnSet, FoldFunctionOnSet, MapThenFoldSet, First
<1>10. \A s \in SUBSET S : c[s] = IF s = {} THEN 0 ELSE f[First(s)] + c[s \ {First(s)}]
  <2> HIDE DEF c
  <2> QED BY <1>8
<1> DEFINE T == {s \in SUBSET S : c[s] = g[s]}
<1>11. \A s \in SUBSET S : s \in T
  <2>1. {} \in T
    BY <1>6, <1>10
  <2>2. ASSUME NEW s \in SUBSET S, s # {}, s \ {First(s)} \in T PROVE s \in T
    <3> HIDE DEF c
    <3> QED BY <1>6, <1>10, <2>2
  <2>3. T \in SUBSET (SUBSET S)
    OBVIOUS
  <2> HIDE DEF T, c
  <2> QED
    BY <2>1, <2>2, <2>3, SubsetsInduction
<1>12. c[S] = g[S]
  <2> HIDE DEF c
  <2> QED BY <1>11
<1> HIDE DEF c
<1> QED
  BY <1>6, <1>9, <1>12 DEF Sums

\* A sum of numbers is a number.
LEMMA SumIsNumber ==
  ASSUME NEW S, IsFiniteSet(S), NEW f \in [S -> Int]
  PROVE  SumFunction(f) \in Int
<1>1. PICK g : Sums(g, f, S)
  BY PartialSums
<1> QED
  BY <1>1 DEF Sums

\* One value of a function changes, and its sum by as much.
LEMMA SumOfChange ==
  ASSUME NEW S, IsFiniteSet(S), NEW f \in [S -> Int], NEW h \in [S -> Int], NEW v \in S,
         \A x \in S : x # v => h[x] = f[x]
  PROVE  SumFunction(h) = SumFunction(f) + (h[v] - f[v])
<1>1. PICK g : Sums(g, f, S)
  BY PartialSums
<1>2. PICK k : Sums(k, h, S)
  BY PartialSums
<1> DEFINE T == {s \in SUBSET S : k[s] = g[s] + (IF v \in s THEN h[v] - f[v] ELSE 0)}
<1>3. {} \in T
  <2>1. g[{}] = 0 /\ k[{}] = 0
    BY <1>1, <1>2 DEF Sums
  <2> QED
    BY <2>1
<1>4. ASSUME NEW s \in SUBSET S, s # {}, s \ {First(s)} \in T PROVE s \in T
  <2>1. First(s) \in s
    BY <1>4 DEF First
  <2>2. PICK x \in S, r \in SUBSET S : x = First(s) /\ r = s \ {x}
    BY <2>1
  <2>3. /\ k[s] = h[x] + k[r] /\ g[s] = f[x] + g[r]
        /\ k[r] = g[r] + (IF v \in r THEN h[v] - f[v] ELSE 0)
    BY <1>1, <1>2, <1>4, <2>2 DEF Sums
  <2>4. k[r] \in Int /\ g[r] \in Int /\ h[x] \in Int /\ f[x] \in Int /\ h[v] \in Int /\ f[v] \in Int
    BY <1>1, <1>2 DEF Sums
  <2>5. CASE x = v
    BY <2>1, <2>2, <2>3, <2>4, <2>5
  <2>6. CASE x # v
    <3>1. h[x] = f[x] /\ (v \in r <=> v \in s)
      BY <2>2, <2>6
    <3> QED
      BY <2>3, <2>4, <3>1
  <2> QED
    BY <2>5, <2>6
<1>5. T \in SUBSET (SUBSET S)
  OBVIOUS
<1>6. \A s \in SUBSET S : s \in T
  <2> HIDE DEF T
  <2> QED BY <1>3, <1>4, <1>5, SubsetsInduction
<1> QED
  BY <1>1, <1>2, <1>6 DEF Sums

\* A sum of zeros is zero.
LEMMA SumOfNothing ==
  ASSUME NEW S, IsFiniteSet(S), NEW f \in [S -> Int], \A x \in S : f[x] = 0
  PROVE  SumFunction(f) = 0
<1>1. PICK g : Sums(g, f, S)
  BY PartialSums
<1> DEFINE T == {s \in SUBSET S : g[s] = 0}
<1>2. {} \in T
  BY <1>1 DEF Sums
<1>3. ASSUME NEW s \in SUBSET S, s # {}, s \ {First(s)} \in T PROVE s \in T
  BY <1>1, <1>3 DEF First, Sums
<1>4. T \in SUBSET (SUBSET S)
  OBVIOUS
<1>5. \A s \in SUBSET S : s \in T
  <2> HIDE DEF T
  <2> QED BY <1>2, <1>3, <1>4, SubsetsInduction
<1> QED
  BY <1>1, <1>5 DEF Sums
-----------------------------------------------------------------------------
(* Coins *)

Row(u) == ledger[u]["checkin"] + ledger[u]["vote"] + ledger[u]["reward"]
            + ledger[u]["adjusted"] + ledger[u]["reversal"]

(* The reward of a vote is one unit for each of its coins. *)
RewardOfVote == \A v \in Voters : vote[v].reward = vote[v].coins

CoinsInv == CoinsTypeOK /\ BalanceIsLedger /\ OutOfPocket /\ RewardOfVote

Votes == [coins : 0..2, reward : 0..2, live : BOOLEAN]

\* One row more of a user: the sum of that kind changes, and no other.
LEMMA OneRow ==
  ASSUME ledger \in [Users -> [Kinds -> Int]], NEW u \in Users, NEW k \in Kinds, NEW n \in Int,
         ledger' = [ledger EXCEPT ![u][k] = @ + n]
  PROVE  /\ ledger' \in [Users -> [Kinds -> Int]]
         /\ \A w \in Users, j \in Kinds :
              ledger'[w][j] = IF w = u /\ j = k THEN ledger[w][j] + n ELSE ledger[w][j]
<1>1. ledger[u] \in [Kinds -> Int]
  OBVIOUS
<1>2. ledger' = [ledger EXCEPT ![u] = [ledger[u] EXCEPT ![k] = ledger[u][k] + n]]
  OBVIOUS
<1>3. [ledger[u] EXCEPT ![k] = ledger[u][k] + n] \in [Kinds -> Int]
  BY <1>1
<1>4. ledger' \in [Users -> [Kinds -> Int]]
  BY <1>2, <1>3
<1>5. \A w \in Users : ledger'[w] = IF w = u THEN [ledger[u] EXCEPT ![k] = ledger[u][k] + n] ELSE ledger[w]
  BY <1>2
<1>6. \A j \in Kinds : [ledger[u] EXCEPT ![k] = ledger[u][k] + n][j]
                         = IF j = k THEN ledger[u][j] + n ELSE ledger[u][j]
  BY <1>1
<1> QED
  BY <1>4, <1>5, <1>6

\* A row of a user that is neither a gift nor a reversal, and is covered.
LEMMA OneRowKeeps ==
  ASSUME CoinsInv, NEW u \in Users, NEW k \in {"checkin", "adjusted"}, NEW n \in Int,
         balance[u] + n >= 0,
         ledger' = [ledger EXCEPT ![u][k] = @ + n],
         balance' = [balance EXCEPT ![u] = @ + n],
         UNCHANGED <<vote, frozen, day, gifts, collaborator, listed, uncovered>>,
         checkedIn' \subseteq Users
  PROVE  CoinsInv'
<1>1. /\ ledger \in [Users -> [Kinds -> Int]] /\ balance \in [Users -> Int] /\ k \in Kinds
      /\ {"checkin", "vote", "reward", "adjusted", "reversal"} \subseteq Kinds
  BY DEF CoinsInv, CoinsTypeOK, Kinds
<1>2. /\ ledger' \in [Users -> [Kinds -> Int]]
      /\ \A w \in Users, j \in Kinds :
           ledger'[w][j] = IF w = u /\ j = k THEN ledger[w][j] + n ELSE ledger[w][j]
  BY <1>1, OneRow
<1>3. balance' \in [Users -> Int] /\ \A w \in Users : balance'[w] = IF w = u THEN balance[w] + n ELSE balance[w]
  BY <1>1
<1>4. CoinsTypeOK'
  BY <1>2, <1>3 DEF CoinsInv, CoinsTypeOK
<1>5. BalanceIsLedger'
  BY <1>1, <1>2, <1>3 DEF CoinsInv, BalanceIsLedger
<1>6. OutOfPocket' /\ RewardOfVote'
  BY <1>1, <1>2 DEF CoinsInv, OutOfPocket, LiveCoins, RewardOfVote, Users
<1> QED
  BY <1>4, <1>5, <1>6 DEF CoinsInv

\* A voter's row and the creator's, each covered, with the vote they are about.
LEMMA TwoRowsKeep ==
  ASSUME CoinsInv, NEW v \in Voters, NEW k \in {"vote", "reversal"}, NEW i \in {"reward", "reversal"},
         NEW n \in Int, NEW m \in Int,
         ledger' = [ledger EXCEPT ![v][k] = ledger[v][k] + n, ![Creator][i] = ledger[Creator][i] + m],
         balance' = [balance EXCEPT ![v] = balance[v] + n, ![Creator] = balance[Creator] + m],
         balance[v] + n >= 0, balance[Creator] + m >= 0,
         vote' \in [Voters -> Votes],
         \A w \in Voters : w # v => vote'[w] = vote[w],
         vote'[v].reward = vote'[v].coins,
         LiveCoins(v)' <= 2, n = 10 * LiveCoins(v) - 10 * LiveCoins(v)',
         UNCHANGED <<frozen, checkedIn, day, collaborator, listed>>,
         gifts' \in 0..MaxGifts, uncovered' \in Nat
  PROVE  CoinsInv'
<1>1. /\ ledger \in [Users -> [Kinds -> Int]] /\ balance \in [Users -> Int]
      /\ k \in Kinds /\ i \in Kinds /\ v \in Users /\ Creator \in Users /\ v # Creator
      /\ {"checkin", "vote", "reward", "adjusted", "reversal"} \subseteq Kinds
  BY CoinsAssumption DEF CoinsInv, CoinsTypeOK, Kinds, Users
<1>2. PICK x \in Int, y \in Int : x = ledger[v][k] + n /\ y = ledger[Creator][i] + m
  BY <1>1
<1>3. ledger' = [ledger EXCEPT ![v][k] = x, ![Creator][i] = y]
  BY <1>2
<1>4. /\ ledger' \in [Users -> [Kinds -> Int]]
      /\ \A w \in Users, j \in Kinds :
           ledger'[w][j] = IF w = v /\ j = k THEN x
                           ELSE IF w = Creator /\ j = i THEN y ELSE ledger[w][j]
  <2> DEFINE rowV == [ledger[v] EXCEPT ![k] = x]
             rowC == [ledger[Creator] EXCEPT ![i] = y]
  <2>1. ledger[v] \in [Kinds -> Int] /\ ledger[Creator] \in [Kinds -> Int]
    BY <1>1
  <2>2. rowV \in [Kinds -> Int] /\ rowC \in [Kinds -> Int]
    BY <1>1, <1>2, <2>1
  <2>3. \A j \in Kinds : /\ rowV[j] = IF j = k THEN x ELSE ledger[v][j]
                         /\ rowC[j] = IF j = i THEN y ELSE ledger[Creator][j]
    BY <2>1
  <2>4. ledger' = [ledger EXCEPT ![v] = rowV, ![Creator] = rowC]
    <3> DEFINE mid == [ledger EXCEPT ![v] = rowV]
    <3>1. mid[Creator] = ledger[Creator]
      BY <1>1
    <3>2. ledger' = [mid EXCEPT ![Creator] = [mid[Creator] EXCEPT ![i] = y]]
      BY <1>3, Zenon
    <3> QED
      BY <3>1, <3>2
  <2> HIDE DEF rowV, rowC
  <2>5. \A w \in Users : ledger'[w] = IF w = v THEN rowV ELSE IF w = Creator THEN rowC ELSE ledger[w]
    BY <1>1, <2>4
  <2>6. ledger' \in [Users -> [Kinds -> Int]]
    BY <1>1, <2>2, <2>4
  <2> QED
    BY <1>1, <2>3, <2>5, <2>6
<1>5. balance' \in [Users -> Int]
      /\ balance'[v] = balance[v] + n /\ balance'[Creator] = balance[Creator] + m
      /\ \A w \in Users : w # v /\ w # Creator => balance'[w] = balance[w]
  BY <1>1
<1>6. CoinsTypeOK'
  BY <1>4, <1>5 DEF CoinsInv, CoinsTypeOK, Votes
<1>7. ASSUME NEW w \in Users
      PROVE  /\ balance'[w] >= 0
             /\ balance'[w] = ledger'[w]["checkin"] + ledger'[w]["vote"] + ledger'[w]["reward"]
                                + ledger'[w]["adjusted"] + ledger'[w]["reversal"]
  <2>1. /\ balance[w] >= 0
        /\ balance[w] = ledger[w]["checkin"] + ledger[w]["vote"] + ledger[w]["reward"]
                          + ledger[w]["adjusted"] + ledger[w]["reversal"]
        /\ \A j \in Kinds : ledger[w][j] \in Int
    BY <1>1 DEF CoinsInv, BalanceIsLedger
  <2>2. CASE w = v
    <3>1. \A j \in Kinds : ledger'[v][j] = IF j = k THEN ledger[v][j] + n ELSE ledger[v][j]
      BY <1>1, <1>2, <1>4
    <3>2. k = "vote" \/ k = "reversal"
      OBVIOUS
    <3> QED
      BY <1>1, <1>5, <2>1, <2>2, <3>1, <3>2
  <2>3. CASE w = Creator
    <3>1. \A j \in Kinds :
            ledger'[Creator][j] = IF j = i THEN ledger[Creator][j] + m ELSE ledger[Creator][j]
      BY <1>1, <1>2, <1>4
    <3>2. i = "reward" \/ i = "reversal"
      OBVIOUS
    <3> QED
      BY <1>1, <1>5, <2>1, <2>3, <3>1, <3>2
  <2>4. CASE w # v /\ w # Creator
    BY <1>1, <1>4, <1>5, <2>1, <2>4
  <2> QED
    BY <2>2, <2>3, <2>4
<1>8. ASSUME NEW w \in Voters
      PROVE  /\ LiveCoins(w)' <= 2
             /\ -(ledger'[w]["vote"] + ledger'[w]["reversal"]) = 10 * LiveCoins(w)'
  <2>1. /\ w \in Users /\ w # Creator /\ LiveCoins(w) \in Int /\ LiveCoins(w) <= 2
        /\ -(ledger[w]["vote"] + ledger[w]["reversal"]) = 10 * LiveCoins(w)
        /\ \A j \in Kinds : ledger[w][j] \in Int
    BY <1>1, CoinsAssumption DEF CoinsInv, CoinsTypeOK, OutOfPocket, LiveCoins, Users
  <2>2. CASE w = v
    <3>1. LiveCoins(v)' \in Int
      BY DEF LiveCoins, Votes
    <3>2. \A j \in Kinds : ledger'[v][j] = IF j = k THEN ledger[v][j] + n ELSE ledger[v][j]
      BY <1>1, <1>2, <1>4
    <3>3. k = "vote" \/ k = "reversal"
      OBVIOUS
    <3>4. ledger'[w]["vote"] + ledger'[w]["reversal"] = ledger[w]["vote"] + ledger[w]["reversal"] + n
      BY <1>1, <2>1, <2>2, <3>2, <3>3
    <3>5. ledger[w]["vote"] \in Int /\ ledger[w]["reversal"] \in Int
      BY <1>1, <2>1
    <3> HIDE DEF LiveCoins
    <3> QED
      BY <2>1, <2>2, <3>1, <3>4, <3>5
  <2>3. CASE w # v
    <3>1. ledger'[w]["vote"] = ledger[w]["vote"] /\ ledger'[w]["reversal"] = ledger[w]["reversal"]
      BY <1>1, <1>4, <2>1, <2>3
    <3> QED
      BY <2>1, <2>3, <3>1 DEF LiveCoins
  <2> QED
    BY <2>2, <2>3
<1>9. RewardOfVote'
  BY DEF CoinsInv, RewardOfVote
<1> QED
  BY <1>6, <1>7, <1>8, <1>9 DEF CoinsInv, BalanceIsLedger, OutOfPocket

\* A gift: what the voter pays is what counts, and the creator has a tenth of it.
LEMMA GiftKeeps ==
  ASSUME CoinsInv, NEW v \in Voters, NEW coins \in 1..2, CoinResource(v, coins)
  PROVE  CoinsInv'
<1> DEFINE paid == -(10 * coins)
<1>1. /\ vote \in [Voters -> Votes] /\ balance \in [Users -> Int] /\ v \in Users /\ Creator \in Users
      /\ gifts \in 0..MaxGifts /\ gifts < MaxGifts /\ balance[Creator] >= 0 /\ uncovered \in Nat
      /\ ledger[v]["vote"] \in Int /\ vote[v].reward = vote[v].coins /\ MaxGifts \in Nat
  BY CoinsAssumption DEF CoinsInv, CoinsTypeOK, Votes, Users, CoinResource, BalanceIsLedger, RewardOfVote,
     Kinds
<1>2. paid \in Int /\ balance[v] - 10 * coins = balance[v] + paid
      /\ ledger[v]["vote"] - 10 * coins = ledger[v]["vote"] + paid
  BY <1>1
<1>3. balance[v] + paid >= 0 /\ balance[Creator] + coins >= 0
  BY <1>1 DEF CoinResource
<1>4. balance' = [balance EXCEPT ![v] = balance[v] + paid, ![Creator] = balance[Creator] + coins]
  BY <1>2 DEF CoinResource
<1>5. ledger' = [ledger EXCEPT ![v]["vote"] = ledger[v]["vote"] + paid,
                               ![Creator]["reward"] = ledger[Creator]["reward"] + coins]
  BY <1>2 DEF CoinResource
<1>6. /\ LiveCoins(v) + coins <= 2 /\ LiveCoins(v) \in 0..2
      /\ vote' = [vote EXCEPT ![v] = VoteGiven(v, coins)]
  BY <1>1 DEF CoinResource, LiveCoins, Votes
<1>7. /\ VoteGiven(v, coins) \in Votes
      /\ VoteGiven(v, coins).live /\ VoteGiven(v, coins).coins = LiveCoins(v) + coins
      /\ VoteGiven(v, coins).reward = VoteGiven(v, coins).coins
  <2>1. CASE vote[v].live
    <3> DEFINE c == vote[v].coins
    <3>1. c \in 0..2 /\ vote[v] \in Votes /\ vote[v].reward = c /\ LiveCoins(v) = c /\ c + coins \in 0..2
      BY <1>1, <1>6, <2>1 DEF LiveCoins, Votes
    <3>2. PICK n \in 0..2 : n = c + coins
      BY <3>1
    <3>3. VoteGiven(v, coins) = [vote[v] EXCEPT !.coins = n, !.reward = n]
      BY <2>1, <3>1, <3>2 DEF VoteGiven
    <3>4. \A x \in Votes : LET y == [x EXCEPT !.coins = n, !.reward = n]
                           IN  y \in Votes /\ y.coins = n /\ y.reward = n /\ y.live = x.live
      BY DEF Votes
    <3>5. /\ VoteGiven(v, coins) \in Votes /\ VoteGiven(v, coins).coins = n
          /\ VoteGiven(v, coins).reward = n /\ VoteGiven(v, coins).live = vote[v].live
      BY <3>1, <3>3, <3>4
    <3> HIDE DEF VoteGiven, LiveCoins
    <3> QED
      BY <2>1, <3>1, <3>2, <3>5
  <2>2. CASE ~vote[v].live
    BY <1>1, <1>6, <2>2 DEF VoteGiven, LiveCoins, Votes
  <2> QED
    BY <2>1, <2>2
<1>8. /\ vote' \in [Voters -> Votes]
      /\ \A w \in Voters : w # v => vote'[w] = vote[w]
      /\ vote'[v] = VoteGiven(v, coins)
  BY <1>1, <1>6, <1>7
<1>9. LiveCoins(v)' = LiveCoins(v) + coins
  BY <1>7, <1>8 DEF LiveCoins
<1>10. gifts' \in 0..MaxGifts /\ UNCHANGED <<frozen, checkedIn, day, collaborator, listed, uncovered>>
  BY <1>1 DEF CoinResource
<1>11. paid = 10 * LiveCoins(v) - 10 * LiveCoins(v)' /\ LiveCoins(v)' <= 2 /\ coins \in Int
  BY <1>6, <1>9
<1>12. uncovered' \in Nat /\ vote'[v].reward = vote'[v].coins
  BY <1>1, <1>7, <1>8, <1>10
<1> HIDE DEF paid
<1> QED
  BY <1>2, <1>3, <1>4, <1>5, <1>8, <1>10, <1>11, <1>12, TwoRowsKeep

\* A reversal: the coins come back, and of the reward what the creator still has.
LEMMA InvalidateKeeps ==
  ASSUME CoinsInv, NEW v \in Voters, InvalidateVote(v)
  PROVE  CoinsInv'
<1>1. /\ vote \in [Voters -> Votes] /\ balance \in [Users -> Int] /\ v \in Users /\ Creator \in Users
      /\ balance[Creator] >= 0 /\ balance[v] >= 0 /\ uncovered \in Nat /\ vote[v].live
      /\ vote[v].coins \in 0..2 /\ vote[v].reward = vote[v].coins
      /\ balance[Creator] \in Int /\ balance[v] \in Int
      /\ ledger[Creator]["reversal"] \in Int /\ gifts \in 0..MaxGifts
  BY DEF CoinsInv, CoinsTypeOK, Votes, Users, InvalidateVote, BalanceIsLedger, RewardOfVote, Kinds
<1>2. PICK back \in Int : back = 10 * vote[v].coins
  BY <1>1
<1>3. PICK taken \in Nat : taken = Clawback(v)
  BY <1>1 DEF Clawback
<1>4. taken <= balance[Creator] /\ taken <= vote[v].reward
  BY <1>1, <1>3 DEF Clawback
<1>5. PICK loss \in Int : loss = -taken
  BY <1>3
<1>6. balance' = [balance EXCEPT ![v] = balance[v] + back, ![Creator] = balance[Creator] + loss]
  <2>1. balance[Creator] - taken = balance[Creator] + loss
    BY <1>1, <1>5
  <2> QED
    BY <1>2, <1>3, <2>1 DEF InvalidateVote
<1>7. ledger' = [ledger EXCEPT ![v]["reversal"] = ledger[v]["reversal"] + back,
                               ![Creator]["reversal"] = ledger[Creator]["reversal"] + loss]
  <2>1. ledger[Creator]["reversal"] - taken = ledger[Creator]["reversal"] + loss
    BY <1>1, <1>5
  <2> QED
    BY <1>2, <1>3, <2>1 DEF InvalidateVote
<1>8. balance[v] + back >= 0 /\ balance[Creator] + loss >= 0
  BY <1>1, <1>2, <1>4, <1>5
<1>9. /\ vote' \in [Voters -> Votes]
      /\ \A w \in Voters : w # v => vote'[w] = vote[w]
      /\ vote'[v].reward = vote'[v].coins /\ ~vote'[v].live
  BY <1>1 DEF InvalidateVote, Votes
<1>10. LiveCoins(v) = vote[v].coins /\ LiveCoins(v)' = 0
  BY <1>1, <1>9 DEF LiveCoins
<1>11. LiveCoins(v)' <= 2 /\ back = 10 * LiveCoins(v) - 10 * LiveCoins(v)'
  BY <1>1, <1>2, <1>10
<1>12. uncovered' \in Nat
  BY <1>1, <1>3, <1>4 DEF InvalidateVote
<1>13. gifts' \in 0..MaxGifts /\ UNCHANGED <<frozen, checkedIn, day, collaborator, listed>>
  BY <1>1 DEF InvalidateVote
<1> QED
  BY <1>6, <1>7, <1>8, <1>9, <1>11, <1>12, <1>13, TwoRowsKeep

\* Days, freezes, collaborators and the state of the resource move no coin.
LEMMA NoCoinKeeps ==
  ASSUME CoinsInv,
         \/ NextDay \/ SetListed
         \/ \E v \in Voters : \/ SetCoinFreeze(v) \/ InviteCollaborator(v)
                              \/ AcceptCollaborator(v) \/ RemoveCollaborator(v)
  PROVE  CoinsInv'
<1>1. UNCHANGED <<balance, ledger, vote, gifts, uncovered>>
  BY DEF NextDay, SetListed, SetCoinFreeze, InviteCollaborator, AcceptCollaborator, RemoveCollaborator,
         SetCollaborator
<1>2. frozen' \subseteq Voters /\ checkedIn' \subseteq Users /\ day' \in 0..MaxDays
      /\ collaborator' \in [Voters -> {"none", "invited", "accepted"}] 
  BY CoinsAssumption DEF CoinsInv, CoinsTypeOK, NextDay, SetListed, SetCoinFreeze, InviteCollaborator,
         AcceptCollaborator, RemoveCollaborator, SetCollaborator
<1>3. listed' \in BOOLEAN
  BY DEF CoinsInv, CoinsTypeOK, NextDay, SetListed, SetCoinFreeze, InviteCollaborator,
         AcceptCollaborator, RemoveCollaborator, SetCollaborator
<1>4. CoinsTypeOK'
  BY <1>1, <1>2, <1>3 DEF CoinsInv, CoinsTypeOK
<1>5. BalanceIsLedger' /\ OutOfPocket' /\ RewardOfVote'
  BY <1>1 DEF CoinsInv, BalanceIsLedger, OutOfPocket, LiveCoins, RewardOfVote
<1> QED
  BY <1>4, <1>5 DEF CoinsInv

\* The inductive invariant of coins: the types, both accounts, and the reward of a vote.
THEOREM CoinsInvariance == CoinsSpec => []CoinsInv
<1>1. CoinsInit => CoinsInv
  <2> SUFFICES ASSUME CoinsInit PROVE CoinsInv
    OBVIOUS
  <2>1. NoVote \in Votes
    BY DEF NoVote, Votes
  <2>2. /\ balance \in [Users -> Int] /\ ledger \in [Users -> [Kinds -> Int]]
        /\ vote \in [Voters -> Votes]
    BY <2>1 DEF CoinsInit
  <2>3. /\ frozen \subseteq Voters /\ checkedIn \subseteq Users
        /\ day \in 0..MaxDays /\ gifts \in 0..MaxGifts /\ uncovered \in Nat
        /\ collaborator \in [Voters -> {"none", "invited", "accepted"}]
    BY CoinsAssumption DEF CoinsInit
  <2>4. listed \in BOOLEAN
    BY DEF CoinsInit
  <2>5. CoinsTypeOK
    BY <2>2, <2>3, <2>4 DEF CoinsTypeOK, Votes
  <2>6. BalanceIsLedger
    BY DEF CoinsInit, BalanceIsLedger, Kinds
  <2>7. OutOfPocket /\ RewardOfVote
    <3>1. \A v \in Voters : /\ vote[v].coins = 0 /\ vote[v].reward = 0 /\ ~vote[v].live
                            /\ ledger[v]["vote"] = 0 /\ ledger[v]["reversal"] = 0
      BY DEF CoinsInit, NoVote, Kinds, Users
    <3> QED
      BY <3>1 DEF OutOfPocket, LiveCoins, RewardOfVote
  <2> QED
    BY <2>5, <2>6, <2>7 DEF CoinsInv
<1>2. CoinsInv /\ [CoinsNext]_coinsVars => CoinsInv'
  <2>1. ASSUME CoinsInv, NEW u \in Users, NEW coins \in DailyRewards, Checkin(u, coins)
        PROVE  CoinsInv'
    <3>1. coins \in 1..5 /\ 10 * coins \in Int /\ balance[u] \in Int /\ balance[u] >= 0
      BY <2>1, CoinsAssumption DEF CoinsInv, CoinsTypeOK, BalanceIsLedger
    <3>2. PICK n \in Int : n = 10 * coins
      BY <3>1
    <3>3. balance[u] + n >= 0 /\ checkedIn' \subseteq Users
      BY <2>1, <3>1, <3>2 DEF Checkin, CoinsInv, CoinsTypeOK
    <3> QED
      BY <2>1, <3>2, <3>3, OneRowKeeps DEF Checkin
  <2>2. ASSUME CoinsInv, NEW u \in Users, NEW n \in Int, AdjustCoins(u, n) PROVE CoinsInv'
    BY <2>2, OneRowKeeps DEF AdjustCoins, CoinsInv, CoinsTypeOK
  <2>3. ASSUME CoinsInv, CoinsNext PROVE CoinsInv'
    <3>1. \A delta \in Deltas : delta \in Int /\ -delta \in Int
      BY CoinsAssumption
    <3>2. CASE \E u \in Users : \/ \E coins \in DailyRewards : Checkin(u, coins)
                                \/ \E delta \in Deltas : AdjustCoins(u, delta) \/ AdjustCoins(u, -delta)
      BY <2>1, <2>2, <2>3, <3>1, <3>2
    <3> QED
      BY <2>3, <3>2, GiftKeeps, InvalidateKeeps, NoCoinKeeps DEF CoinsNext
  <2>4. ASSUME CoinsInv, UNCHANGED coinsVars PROVE CoinsInv'
    BY <2>4 DEF coinsVars, CoinsInv, CoinsTypeOK, BalanceIsLedger, OutOfPocket, LiveCoins, RewardOfVote
  <2> QED
    BY <2>3, <2>4
<1> QED
  BY <1>1, <1>2, PTL DEF CoinsSpec

\* Every reachable state of the coins is well typed.
THEOREM CoinsTypeCorrect == CoinsSpec => []CoinsTypeOK
<1>1. CoinsInv => CoinsTypeOK
  BY DEF CoinsInv
<1> QED
  BY <1>1, CoinsInvariance, PTL

(* What was taken back of a reward is a row of the creator, what was given back of
   a gift one of its voter. *)
ReversalsOnTheirSide ==
  /\ \A v \in Voters : ledger[v]["reversal"] >= 0
  /\ ledger[Creator]["reversal"] <= 0

EarnedInv == ReversalsOnTheirSide /\ RewardIsEarned

\* The sums over all users move by what moves of one voter and of the creator.
LEMMA SumsFollow ==
  ASSUME CoinsInv, CoinsInv', NEW v \in Voters, NEW c \in Int, NEW p \in Int, NEW r \in Int,
         \A w \in Voters : LiveCoins(w)' = IF w = v THEN LiveCoins(w) + c ELSE LiveCoins(w),
         \A u \in Users : ledger'[u]["vote"] = IF u = v THEN ledger[u]["vote"] - p ELSE ledger[u]["vote"],
         \A u \in Users : Rewarded(u)' = IF u = Creator THEN Rewarded(u) + r ELSE Rewarded(u)
  PROVE  /\ LifetimeCoins \in Int /\ SpentUnits \in Int /\ RewardedUnits \in Int
         /\ LifetimeCoins' = LifetimeCoins + c
         /\ SpentUnits' = SpentUnits + p
         /\ RewardedUnits' = RewardedUnits + r
<1>1. IsFiniteSet(Voters) /\ IsFiniteSet(Users) /\ v \in Users /\ Creator \in Users
  BY CoinsAssumption, FS_AddElement DEF Users
<1>2. /\ \A w \in Voters : LiveCoins(w) \in Int /\ LiveCoins(w)' \in Int
      /\ \A u \in Users : /\ ledger[u]["vote"] \in Int /\ ledger'[u]["vote"] \in Int
                         /\ Rewarded(u) \in Int /\ Rewarded(u)' \in Int
  BY DEF CoinsInv, CoinsTypeOK, LiveCoins, Rewarded, Kinds
<1>3. PICK f \in [Voters -> Int] : f = [w \in Voters |-> LiveCoins(w)]
  <2> HIDE DEF LiveCoins
  <2> QED BY <1>2
<1>4. PICK g \in [Voters -> Int] : g = [w \in Voters |-> LiveCoins(w)']
  <2> HIDE DEF LiveCoins
  <2> QED BY <1>2
<1>5. SumFunction(f) \in Int /\ SumFunction(g) = SumFunction(f) + c
  <2>1. /\ \A w \in Voters : w # v => g[w] = f[w]
        /\ g[v] - f[v] = c
    BY <1>2, <1>3, <1>4
  <2> QED
    BY <1>1, <2>1, SumOfChange, SumIsNumber
<1>6. LifetimeCoins = SumFunction(f) /\ LifetimeCoins' = SumFunction(g)
  BY <1>3, <1>4 DEF LifetimeCoins
<1>7. PICK a \in [Users -> Int] : a = [u \in Users |-> ledger[u]["vote"]]
  BY <1>2
<1>8. PICK b \in [Users -> Int] : b = [u \in Users |-> ledger'[u]["vote"]]
  BY <1>2
<1>9. SumFunction(a) \in Int /\ SumFunction(b) = SumFunction(a) - p
  <2>1. /\ \A u \in Users : u # v => b[u] = a[u]
        /\ b[v] - a[v] = -p
    BY <1>1, <1>2, <1>7, <1>8
  <2> QED
    BY <1>1, <2>1, SumOfChange, SumIsNumber
<1>10. SpentUnits = -SumFunction(a) /\ SpentUnits' = -SumFunction(b)
  BY <1>7, <1>8 DEF SpentUnits
<1>11. PICK d \in [Users -> Int] : d = [u \in Users |-> Rewarded(u)]
  <2> HIDE DEF Rewarded
  <2> QED BY <1>2
<1>12. PICK e \in [Users -> Int] : e = [u \in Users |-> Rewarded(u)']
  <2> HIDE DEF Rewarded
  <2> QED BY <1>2
<1>13. SumFunction(d) \in Int /\ SumFunction(e) = SumFunction(d) + r
  <2>1. /\ \A u \in Users : u # Creator => e[u] = d[u]
        /\ e[Creator] - d[Creator] = r
    BY <1>1, <1>2, <1>11, <1>12
  <2> QED
    BY <1>1, <2>1, SumOfChange, SumIsNumber
<1>14. RewardedUnits = SumFunction(d) /\ RewardedUnits' = SumFunction(e)
  BY <1>11, <1>12 DEF RewardedUnits
<1> QED
  BY <1>5, <1>6, <1>9, <1>10, <1>13, <1>14

\* Each vote's reward is one unit for a coin, so the sums of both agree.
LEMMA RewardsAreCoins ==
  /\ CoinsInv => LifetimeReward = LifetimeCoins
  /\ CoinsInv' => LifetimeReward' = LifetimeCoins'
<1>1. ASSUME CoinsInv PROVE LifetimeReward = LifetimeCoins
  <2>1. \A w \in Voters : LiveReward(w) = LiveCoins(w)
    BY <1>1 DEF CoinsInv, RewardOfVote, LiveReward, LiveCoins
  <2>2. [w \in Voters |-> LiveReward(w)] = [w \in Voters |-> LiveCoins(w)]
    BY <2>1
  <2> QED
    BY <2>2 DEF LifetimeReward, LifetimeCoins
<1>2. ASSUME CoinsInv' PROVE LifetimeReward' = LifetimeCoins'
  <2>1. \A w \in Voters : LiveReward(w)' = LiveCoins(w)'
    BY <1>2 DEF CoinsInv, RewardOfVote, LiveReward, LiveCoins
  <2>2. [w \in Voters |-> LiveReward(w)'] = [w \in Voters |-> LiveCoins(w)']
    BY <2>1
  <2> QED
    BY <2>2 DEF LifetimeReward, LifetimeCoins
<1> QED
  BY <1>1, <1>2

\* A gift or a reversal: the votes' coins, what was spent and what is rewarded move
\* by c, p and r; spent is enough, and the reward is for the coins that count.
LEMMA SumsMove ==
  ASSUME CoinsInv, CoinsInv', EarnedInv, NEW v \in Voters, NEW c \in Int, NEW p \in Int, NEW r \in Int,
         \A w \in Voters : LiveCoins(w)' = IF w = v THEN LiveCoins(w) + c ELSE LiveCoins(w),
         \A u \in Users : ledger'[u]["vote"] = IF u = v THEN ledger[u]["vote"] - p ELSE ledger[u]["vote"],
         \A u \in Users : Rewarded(u)' = IF u = Creator THEN Rewarded(u) + r ELSE Rewarded(u),
         p >= 10 * c, uncovered' = uncovered + (r - c)
  PROVE  RewardIsEarned'
<1>1. /\ LifetimeCoins \in Int /\ SpentUnits \in Int /\ RewardedUnits \in Int
      /\ LifetimeCoins' = LifetimeCoins + c
      /\ SpentUnits' = SpentUnits + p
      /\ RewardedUnits' = RewardedUnits + r
  BY SumsFollow
<1>2. LifetimeReward = LifetimeCoins /\ LifetimeReward' = LifetimeCoins'
  BY RewardsAreCoins
<1>3. RewardedUnits = LifetimeCoins + uncovered /\ SpentUnits >= 10 * LifetimeCoins /\ uncovered \in Int
  BY <1>2 DEF EarnedInv, RewardIsEarned, CoinsInv, CoinsTypeOK
<1>4. RewardedUnits' = LifetimeCoins' + uncovered' /\ SpentUnits' >= 10 * LifetimeCoins'
  BY <1>1, <1>3
<1> QED
  BY <1>2, <1>4 DEF RewardIsEarned

\* A gift adds its coins to the votes and the reward, and tenfold to what was spent.
LEMMA GiftEarns ==
  ASSUME CoinsInv, CoinsInv', EarnedInv, NEW v \in Voters, NEW coins \in 1..2, CoinResource(v, coins)
  PROVE  EarnedInv'
<1>1. v \in Users /\ Creator \in Users /\ v # Creator /\ \A w \in Voters : w \in Users /\ w # Creator
  BY CoinsAssumption DEF Users
<1>2. /\ {"vote", "reward", "reversal"} \subseteq Kinds
      /\ ledger \in [Users -> [Kinds -> Int]] /\ vote \in [Voters -> Votes]
  BY DEF CoinsInv, CoinsTypeOK, Votes, Kinds
<1>3. \A w \in Users, j \in {"vote", "reward", "reversal"} :
        ledger'[w][j] = IF w = v /\ j = "vote" THEN ledger[w][j] - 10 * coins
                        ELSE IF w = Creator /\ j = "reward" THEN ledger[w][j] + coins ELSE ledger[w][j]
  BY <1>1, <1>2 DEF CoinResource
<1>4. LiveCoins(v) + coins = LiveCoins(v)' /\ \A w \in Voters \ {v} : LiveCoins(w)' = LiveCoins(w)
  <2>1. vote' = [vote EXCEPT ![v] = VoteGiven(v, coins)]
    BY DEF CoinResource
  <2>2. /\ \A w \in Voters \ {v} : vote'[w] = vote[w]
        /\ vote'[v] = VoteGiven(v, coins)
    BY <1>2, <2>1
  <2>3. vote[v] \in Votes /\ vote[v].coins \in Int
    BY <1>2 DEF Votes
  <2>4. VoteGiven(v, coins).live /\ VoteGiven(v, coins).coins = LiveCoins(v) + coins
    BY <2>3 DEF VoteGiven, LiveCoins, Votes
  <2> QED
    BY <2>2, <2>4 DEF LiveCoins
<1>5. \A w \in Voters : LiveCoins(w)' = IF w = v THEN LiveCoins(w) + coins ELSE LiveCoins(w)
  BY <1>4
<1>6. PICK p \in Int : p = 10 * coins
  OBVIOUS
<1>7. \A u \in Users : ledger'[u]["vote"] = IF u = v THEN ledger[u]["vote"] - p ELSE ledger[u]["vote"]
  BY <1>1, <1>3, <1>6
<1>8. \A u \in Users : Rewarded(u)' = IF u = Creator THEN Rewarded(u) + coins ELSE Rewarded(u)
  <2>1. \A u \in Users : ledger[u]["reward"] \in Int /\ ledger[u]["reversal"] \in Int
    BY <1>2
  <2>2. \A u \in Users : /\ ledger'[u]["reversal"] = ledger[u]["reversal"]
                         /\ ledger'[u]["reward"] = IF u = Creator THEN ledger[u]["reward"] + coins
                                                  ELSE ledger[u]["reward"]
    BY <1>1, <1>3
  <2> QED
    BY <2>1, <2>2 DEF Rewarded
<1>9. RewardIsEarned'
  <2>1. uncovered' = uncovered + (coins - coins)
    BY DEF CoinResource, CoinsInv, CoinsTypeOK
  <2>2. p >= 10 * coins /\ coins \in Int
    BY <1>6
  <2> HIDE DEF LiveCoins
  <2> QED
    BY <1>5, <1>7, <1>8, <2>1, <2>2, SumsMove
<1>10. ReversalsOnTheirSide'
  BY <1>1, <1>3 DEF EarnedInv, ReversalsOnTheirSide
<1> QED
  BY <1>9, <1>10 DEF EarnedInv

\* A reversal takes them from the votes, and from the reward what the creator has.
LEMMA ReversalEarns ==
  ASSUME CoinsInv, CoinsInv', EarnedInv, NEW v \in Voters, InvalidateVote(v)
  PROVE  EarnedInv'
<1>1. v \in Users /\ Creator \in Users /\ v # Creator /\ \A w \in Voters : w \in Users /\ w # Creator
  BY CoinsAssumption DEF Users
<1>2. /\ {"vote", "reward", "reversal"} \subseteq Kinds
      /\ ledger \in [Users -> [Kinds -> Int]] /\ vote \in [Voters -> Votes]
      /\ balance[Creator] \in Int /\ balance[Creator] >= 0
      /\ vote[v].live /\ vote[v].coins \in 0..2 /\ vote[v].reward = vote[v].coins
  BY <1>1 DEF CoinsInv, CoinsTypeOK, Votes, Kinds, BalanceIsLedger, RewardOfVote, InvalidateVote
<1>3. PICK back \in Nat : back = 10 * vote[v].coins
  BY <1>2
<1>4. PICK taken \in Nat : taken = Clawback(v)
  BY <1>2 DEF Clawback
<1>5. PICK c \in Int : c = -vote[v].coins
  BY <1>2
<1>6. \A w \in Users, j \in {"vote", "reward", "reversal"} :
        ledger'[w][j] = IF w = v /\ j = "reversal" THEN ledger[w][j] + back
                        ELSE IF w = Creator /\ j = "reversal" THEN ledger[w][j] - taken ELSE ledger[w][j]
  <2>1. ledger' = [ledger EXCEPT ![v]["reversal"] = @ + back, ![Creator]["reversal"] = @ - taken]
    BY <1>3, <1>4 DEF InvalidateVote
  <2> QED
    BY <1>1, <1>2, <2>1
<1>7. \A w \in Voters : LiveCoins(w)' = IF w = v THEN LiveCoins(w) + c ELSE LiveCoins(w)
  <2>1. /\ \A w \in Voters \ {v} : vote'[w] = vote[w]
        /\ ~vote'[v].live
    BY <1>2 DEF InvalidateVote, Votes
  <2>2. LiveCoins(v)' = 0 /\ LiveCoins(v) = vote[v].coins /\ \A w \in Voters \ {v} : LiveCoins(w)' = LiveCoins(w)
    BY <1>2, <2>1 DEF LiveCoins
  <2> HIDE DEF LiveCoins
  <2> QED
    BY <1>2, <1>5, <2>2
<1>8. \A u \in Users : ledger'[u]["vote"] = IF u = v THEN ledger[u]["vote"] - 0 ELSE ledger[u]["vote"]
  <2>1. \A u \in Users : ledger'[u]["vote"] = ledger[u]["vote"] /\ ledger[u]["vote"] \in Int
    BY <1>2, <1>6
  <2> QED
    BY <2>1
<1>9. PICK r \in Int : r = -taken
  OBVIOUS
<1>10. \A u \in Users : Rewarded(u)' = IF u = Creator THEN Rewarded(u) + r ELSE Rewarded(u)
  <2>1. \A u \in Users : ledger[u]["reward"] \in Int /\ ledger[u]["reversal"] \in Int
    BY <1>2
  <2>2. \A u \in Users : ledger'[u]["reward"] = ledger[u]["reward"]
    BY <1>6
  <2>3. CASE TRUE
    <3>1. ASSUME NEW u \in Users, u # Creator PROVE Rewarded(u)' = Rewarded(u)
      <4>1. u \in Voters /\ ledger[u]["reversal"] >= 0 /\ ledger'[u]["reversal"] >= 0
        BY <1>6, <2>1, <3>1 DEF Users, EarnedInv, ReversalsOnTheirSide
      <4>2. ledger'[u]["reversal"] \in Int
        BY <1>6, <2>1
      <4> QED
        BY <2>1, <2>2, <4>1, <4>2 DEF Rewarded
    <3>2. Rewarded(Creator)' = Rewarded(Creator) + r
      <4>1. ledger[Creator]["reversal"] <= 0 /\ ledger'[Creator]["reversal"] = ledger[Creator]["reversal"] + r
        BY <1>1, <1>6, <1>9, <2>1 DEF EarnedInv, ReversalsOnTheirSide
      <4>2. r <= 0
        BY <1>9
      <4> QED
        BY <1>1, <2>1, <2>2, <4>1, <4>2 DEF Rewarded
    <3> HIDE DEF Rewarded
    <3> QED
      BY <3>1, <3>2
  <2> QED
    BY <2>3
<1>11. RewardIsEarned'
  <2>1. uncovered' = uncovered + (vote[v].reward - taken) /\ uncovered \in Int
    BY <1>4 DEF InvalidateVote, CoinsInv, CoinsTypeOK
  <2>2. uncovered' = uncovered + (r - c)
    BY <1>2, <1>5, <1>9, <2>1
  <2>3. 0 >= 10 * c
    BY <1>2, <1>5
  <2> HIDE DEF LiveCoins, Rewarded
  <2> QED
    BY <1>7, <1>8, <1>10, <2>2, <2>3, SumsMove
<1>12. ReversalsOnTheirSide'
  <2>1. \A u \in Users : ledger[u]["reversal"] \in Int
    BY <1>2
  <2> QED
    BY <1>1, <1>6, <2>1 DEF EarnedInv, ReversalsOnTheirSide
<1> QED
  BY <1>11, <1>12 DEF EarnedInv

\* What writes no gift, reward or reversal leaves the sums alone.
LEMMA SumsStay ==
  ASSUME CoinsInv, CoinsInv', EarnedInv, UNCHANGED <<vote, uncovered>>,
         \A u \in Users, k \in {"vote", "reward", "reversal"} : ledger'[u][k] = ledger[u][k]
  PROVE  EarnedInv'
<1>1. [w \in Voters |-> LiveCoins(w)'] = [w \in Voters |-> LiveCoins(w)]
  BY DEF LiveCoins
<1>2. [u \in Users |-> ledger'[u]["vote"]] = [u \in Users |-> ledger[u]["vote"]]
  OBVIOUS
<1>3. [u \in Users |-> Rewarded(u)'] = [u \in Users |-> Rewarded(u)]
  BY DEF Rewarded
<1>4. LifetimeCoins' = LifetimeCoins
  BY <1>1 DEF LifetimeCoins
<1>5. SpentUnits' = SpentUnits
  BY <1>2 DEF SpentUnits
<1>6. RewardedUnits' = RewardedUnits
  BY <1>3 DEF RewardedUnits
<1>7. LifetimeReward = LifetimeCoins /\ LifetimeReward' = LifetimeCoins'
  BY RewardsAreCoins
<1>8. ReversalsOnTheirSide'
  BY DEF EarnedInv, ReversalsOnTheirSide, Users
<1> QED
  BY <1>4, <1>5, <1>6, <1>7, <1>8 DEF EarnedInv, RewardIsEarned

\* The sums over all users agree as well, whoever gave, and whatever was reversed.
THEOREM CoinsAreEarned == CoinsSpec => []EarnedInv
<1>1. CoinsInit => EarnedInv
  <2> SUFFICES ASSUME CoinsInit PROVE EarnedInv
    OBVIOUS
  <2>1. IsFiniteSet(Voters) /\ IsFiniteSet(Users)
    BY CoinsAssumption, FS_AddElement DEF Users
  <2>2. /\ \A w \in Voters : LiveCoins(w) = 0 /\ LiveReward(w) = 0
        /\ \A u \in Users, k \in Kinds : ledger[u][k] = 0
    BY DEF CoinsInit, LiveCoins, LiveReward, NoVote
  <2>3. \A u \in Users : ledger[u]["vote"] = 0 /\ Rewarded(u) = 0
    BY <2>2 DEF Rewarded, Kinds
  <2>4. [w \in Voters |-> LiveCoins(w)] \in [Voters -> Int] /\ [w \in Voters |-> LiveReward(w)] \in [Voters -> Int]
    <3> HIDE DEF LiveCoins, LiveReward
    <3> QED BY <2>2
  <2>5. [u \in Users |-> ledger[u]["vote"]] \in [Users -> Int] /\ [u \in Users |-> Rewarded(u)] \in [Users -> Int]
    <3> HIDE DEF Rewarded
    <3> QED BY <2>3
  <2>6. LifetimeCoins = 0 /\ LifetimeReward = 0
    BY <2>1, <2>2, <2>4, SumOfNothing DEF LifetimeCoins, LifetimeReward
  <2>7. RewardedUnits = 0
    BY <2>1, <2>3, <2>5, SumOfNothing DEF RewardedUnits
  <2>8. SpentUnits = 0
    <3>1. PICK a \in [Users -> Int] : a = [u \in Users |-> ledger[u]["vote"]]
      BY <2>5
    <3>2. SumFunction(a) = 0
      BY <2>1, <2>3, <3>1, SumOfNothing
    <3>3. SpentUnits = -SumFunction(a)
      BY <3>1 DEF SpentUnits
    <3>4. \A n \in Int : n <= 0 /\ n >= 0 => -n = 0
      OBVIOUS
    <3>5. SumFunction(a) \in Int /\ SumFunction(a) <= 0 /\ SumFunction(a) >= 0
      BY <3>2
    <3>6. -SumFunction(a) = 0
      BY <3>4, <3>5, Zenon
    <3> QED
      BY <3>3, <3>6, Zenon
  <2>9. ReversalsOnTheirSide
    BY <2>2 DEF ReversalsOnTheirSide, Users, Kinds
  <2> QED
    BY <2>6, <2>7, <2>8, <2>9 DEF EarnedInv, RewardIsEarned, CoinsInit
<1>2. CoinsInv /\ CoinsInv' /\ EarnedInv /\ [CoinsNext]_coinsVars => EarnedInv'
  <2> SUFFICES ASSUME CoinsInv, CoinsInv', EarnedInv, [CoinsNext]_coinsVars PROVE EarnedInv'
    OBVIOUS
  <2>1. ledger \in [Users -> [Kinds -> Int]]
    BY DEF CoinsInv, CoinsTypeOK
  <2>2. CASE \/ NextDay \/ SetListed \/ UNCHANGED coinsVars
             \/ \E v \in Voters : \/ SetCoinFreeze(v) \/ InviteCollaborator(v)
                                  \/ AcceptCollaborator(v) \/ RemoveCollaborator(v)
    <3>1. UNCHANGED <<ledger, vote, uncovered>>
      BY <2>2 DEF NextDay, SetListed, SetCoinFreeze, InviteCollaborator, AcceptCollaborator,
                  RemoveCollaborator, SetCollaborator, coinsVars
    <3> QED
      BY <3>1, SumsStay
  <2>3. ASSUME NEW u \in Users, NEW coins \in DailyRewards, Checkin(u, coins) PROVE EarnedInv'
    <3>1. /\ UNCHANGED <<vote, uncovered>>
          /\ \A w \in Users, k \in {"vote", "reward", "reversal"} : ledger'[w][k] = ledger[w][k]
      BY <2>1, <2>3 DEF Checkin, Kinds
    <3> QED
      BY <3>1, SumsStay
  <2>4. ASSUME NEW u \in Users, NEW n, AdjustCoins(u, n) PROVE EarnedInv'
    <3>1. /\ UNCHANGED <<vote, uncovered>>
          /\ \A w \in Users, k \in {"vote", "reward", "reversal"} : ledger'[w][k] = ledger[w][k]
      BY <2>1, <2>4 DEF AdjustCoins, Kinds
    <3> QED
      BY <3>1, SumsStay
  <2> QED
    BY <2>2, <2>3, <2>4, GiftEarns, ReversalEarns DEF CoinsNext
<1> QED
  BY <1>1, <1>2, CoinsInvariance, PTL DEF CoinsSpec

\* The accounts agree, with the votes that count and over all users, for any number of
\* users, gifts, reversals and adjustments.
THEOREM CoinsAreAccountedAlways == CoinsSpec => []CoinsAreAccounted
<1>1. CoinsInv /\ EarnedInv => CoinsAreAccounted
  BY DEF CoinsInv, EarnedInv, CoinsAreAccounted
<1> QED
  BY <1>1, CoinsInvariance, CoinsAreEarned, PTL

-----------------------------------------------------------------------------
(* Comments: what has to be known of each comment is that a held one is not
   visible, that one of which nobody was told counts no message, and who may
   have answered it since. *)

\* The moderation held c back and no person approved it.
Held(c) == comment[c].verdict \in {"review", "block"} /\ c \notin approved

\* A held comment is not visible, and nobody was told of it; of others once.
HeldIsHidden(c) ==
  /\ sent[c] \in {0, 1}
  /\ ~comment[c].told => sent[c] = 0
  /\ Held(c) => ~comment[c].visible /\ sent[c] = 0

\* Who answers a held comment wrote it; what is answered was made before.
HeldIsUnanswered(d) ==
  /\ comment[d].reply \in {0} \union Made
  /\ comment[d].stage \in {"posting", "posted"} /\ comment[d].reply # 0 /\ Held(comment[d].reply) =>
       comment[comment[d].reply].author = comment[d].author

CommentsInv ==
  CommentsTypeOK /\ \A c \in Made : HeldIsHidden(c) /\ HeldIsUnanswered(c)

\* Whoever is shown a comment may see it.
LEMMA SeenIsVisible ==
  ASSUME NEW c, NEW v, Seen(c, v)
  PROVE  Visible(c, v)
<1>1. CASE Listed(c, v)
  BY <1>1 DEF Listed
<1>2. CASE \E root \in Posted : Listed(root, v) /\ c \in Replies(root, v)
  BY <1>2 DEF Replies
<1>3. CASE \E t \in Posted : c \in Thread(t, v)
  BY <1>3 DEF Thread, Replies
<1> QED BY <1>1, <1>2, <1>3 DEF Seen

\* The invariant says what the property says.
LEMMA CommentsInvSuffices == CommentsInv => HeldBackIsUnseen
<1> SUFFICES ASSUME CommentsInv, NEW c \in Posted
             PROVE  /\ sent[c] <= 1
                    /\ Held(c) => sent[c] = 0
                    /\ Held(c) => \A v \in Readers :
                         Seen(c, v) => v = comment[c].author /\ comment[c].verdict = "review"
                    /\ Held(c) => \A d \in Posted :
                         comment[d].reply = c => comment[d].author = comment[c].author
  BY DEF HeldBackIsUnseen, Held
<1>1. c \in Made /\ HeldIsHidden(c) /\ c # 0
  BY DEF CommentsInv, Posted, CommentsTypeOK, Ids
<1>2. sent[c] <= 1 /\ (Held(c) => sent[c] = 0)
  BY <1>1 DEF HeldIsHidden
<1>3. ASSUME Held(c), NEW v \in Readers, Seen(c, v)
      PROVE  v = comment[c].author /\ comment[c].verdict = "review"
  BY <1>1, <1>3, SeenIsVisible DEF HeldIsHidden, Visible
<1>4. ASSUME Held(c), NEW d \in Posted, comment[d].reply = c
      PROVE  comment[d].author = comment[c].author
  BY <1>1, <1>4 DEF CommentsInv, Posted, HeldIsUnanswered
<1> QED BY <1>2, <1>3, <1>4

\* No comment was made.
LEMMA CommentsInvInit == CommentsInit => CommentsInv
BY DEF CommentsInit, CommentsInv, CommentsTypeOK, Made

\* A step that changes only how comments are shown keeps what they are.
Fixed(c) ==
  /\ comment'[c].author = comment[c].author /\ comment'[c].reply = comment[c].reply
  /\ comment'[c].verdict = comment[c].verdict

\* What follows when the same comments are there, none was made visible that is
\* still held, nobody was told twice, and only Admit lets one answer another.
LEMMA SameComments ==
  ASSUME CommentsInv, CommentsTypeOK', Made' = Made, approved \subseteq approved',
         \A c \in Made : Fixed(c) /\ HeldIsHidden(c)',
         \A d \in Made : comment'[d].stage \in {"posting", "posted"} =>
           \/ comment[d].stage \in {"posting", "posted"}
           \/ comment[d].reply # 0 => Visible(comment[d].reply, comment[d].author)
  PROVE  CommentsInv'
<1> SUFFICES ASSUME NEW d \in Made PROVE HeldIsUnanswered(d)'
  BY DEF CommentsInv
<1> DEFINE r == comment[d].reply
<1>1. comment'[d].reply = r /\ r \in {0} \union Made'
  BY DEF CommentsInv, HeldIsUnanswered, Fixed
<1>2. ASSUME comment'[d].stage \in {"posting", "posted"}, r # 0, Held(r)'
      PROVE  comment'[r].author = comment'[d].author
  <2>1. r \in Made /\ Fixed(r) /\ Fixed(d) /\ HeldIsHidden(r) /\ HeldIsUnanswered(d)
    BY <1>1, <1>2 DEF CommentsInv
  <2>2. Held(r)
    BY <1>2, <2>1 DEF Held, Fixed
  <2>3. comment[r].author = comment[d].author
    <3>1. CASE comment[d].stage \in {"posting", "posted"}
      BY <1>2, <2>1, <2>2, <3>1 DEF HeldIsUnanswered
    <3>2. CASE Visible(r, comment[d].author)
      BY <2>1, <2>2, <3>2 DEF HeldIsHidden, Visible
    <3> QED BY <1>2, <3>1, <3>2
  <2> QED BY <2>1, <2>3 DEF Fixed
<1> QED BY <1>1, <1>2 DEF HeldIsUnanswered

\* One comment is written anew.
LEMMA RowWritten ==
  ASSUME CommentsTypeOK, NEW c \in Made, NEW r \in Comment, comment' = [comment EXCEPT ![c] = r]
  PROVE  /\ Made' = Made /\ comment'[c] = r
         /\ \A d \in Made : comment'[d] \in Comment /\ (d # c => comment'[d] = comment[d])
BY DEF CommentsTypeOK, Made

\* Admission, failure and deletion touch one comment, and neither who sees it nor
\* whom it was announced to.
LEMMA OneCommentKeepsInv ==
  ASSUME CommentsInv, NEW c \in Made, Admit(c) \/ Fail(c) \/ (c \in Posted /\ Delete(c))
  PROVE  CommentsInv'
<1>1. CommentsTypeOK /\ comment[c] \in Comment
  BY DEF CommentsInv, CommentsTypeOK
<1>2. UNCHANGED <<sent, warned, approved, open>>
  BY DEF Admit, Fail, Delete
<1>3. PICK r \in Comment :
        /\ comment' = [comment EXCEPT ![c] = r]
        /\ r.author = comment[c].author /\ r.reply = comment[c].reply
        /\ r.verdict = comment[c].verdict
        /\ r.visible = comment[c].visible /\ r.told = comment[c].told
        /\ r.stage \in {"posting", "posted"} =>
             \/ comment[c].stage \in {"posting", "posted"}
             \/ comment[c].reply # 0 => Visible(comment[c].reply, comment[c].author)
  <2>1. CASE Admit(c)
    <3> DEFINE reply == comment[c].reply
               root == IF reply = 0 THEN 0 ELSE RootOf(reply)
               r == [comment[c] EXCEPT !.stage = "posting", !.root = root]
    <3>1. reply # 0 => reply \in Made /\ Visible(reply, comment[c].author)
      BY <2>1 DEF Admit, Answerable, CommentsInv, HeldIsUnanswered
    <3>2. root \in {0} \union Ids
      BY <1>1, <3>1 DEF RootOf, CommentsTypeOK, Comment
    <3>3. comment' = [comment EXCEPT ![c] = r]
      BY <2>1 DEF Admit
    <3>4. r \in Comment /\ r.author = comment[c].author /\ r.reply = reply
          /\ r.verdict = comment[c].verdict
          /\ r.visible = comment[c].visible /\ r.told = comment[c].told
      <4> HIDE DEF root, reply
      <4>1. comment[c].reply = reply
        BY DEF reply
      <4> QED BY <1>1, <3>2, <4>1 DEF Comment
    <3> QED BY <3>1, <3>3, <3>4
  <2>2. CASE Fail(c)
    <3> DEFINE r == [comment[c] EXCEPT !.stage = "failed"]
    <3>1. r \in Comment /\ r.author = comment[c].author /\ r.reply = comment[c].reply
          /\ r.verdict = comment[c].verdict /\ r.stage = "failed"
          /\ r.visible = comment[c].visible /\ r.told = comment[c].told
      BY <1>1 DEF Comment
    <3>2. comment' = [comment EXCEPT ![c] = r]
      BY <2>2 DEF Fail
    <3> QED BY <3>1, <3>2
  <2>3. CASE c \in Posted /\ Delete(c)
    <3> DEFINE r == [comment[c] EXCEPT !.deleted = TRUE]
    <3>1. r \in Comment /\ r.author = comment[c].author /\ r.reply = comment[c].reply
          /\ r.verdict = comment[c].verdict /\ r.stage = comment[c].stage
          /\ r.visible = comment[c].visible /\ r.told = comment[c].told
      BY <1>1 DEF Comment
    <3>2. comment' = [comment EXCEPT ![c] = r]
      BY <2>3 DEF Delete
    <3> QED BY <3>1, <3>2
  <2> QED BY <2>1, <2>2, <2>3
<1>4. /\ Made' = Made /\ comment'[c] = r
      /\ \A d \in Made : comment'[d] \in Comment /\ (d # c => comment'[d] = comment[d])
  BY <1>1, <1>3, RowWritten
<1>5. CommentsTypeOK'
  BY <1>1, <1>2, <1>4 DEF CommentsTypeOK
<1>6. ASSUME NEW d \in Made PROVE Fixed(d) /\ HeldIsHidden(d)'
  BY <1>2, <1>3, <1>4 DEF CommentsInv, Fixed, HeldIsHidden, Held
<1> QED BY <1>2, <1>3, <1>4, <1>5, <1>6, SameComments

\* The triggers announce only what is visible, and what was not announced yet.
LEMMA WriteKeepsInv ==
  ASSUME CommentsInv, NEW row, NEW cs, Write(row, cs),
         approved \subseteq approved', approved' \subseteq Made, warned' \subseteq Made, open' = open,
         \A c \in Made :
           /\ row[c] \in Comment
           /\ row[c].author = comment[c].author /\ row[c].reply = comment[c].reply
           /\ row[c].verdict = comment[c].verdict /\ row[c].told = comment[c].told
           /\ row[c].visible => comment[c].visible \/ c \in approved'
           /\ row[c].stage \in {"posting", "posted"} => comment[c].stage \in {"posting", "posted"}
  PROVE  CommentsInv'
<1> DEFINE due == {c \in cs : Due(row, c)}
<1>1. /\ comment' = [c \in Made |-> [row[c] EXCEPT !.told = @ \/ c \in due]]
      /\ sent' = [c \in Made |-> sent[c] + (IF c \in due THEN 1 ELSE 0)]
  BY DEF Write
<1>2. \A c \in due : row[c].visible /\ ~row[c].told
  BY DEF Due
<1> HIDE DEF due
<1>3. Made' = Made /\ DOMAIN sent' = Made
  BY <1>1 DEF Made
<1>4. ASSUME NEW c \in Made
      PROVE  /\ comment'[c] \in Comment /\ Fixed(c) /\ comment'[c].stage = row[c].stage
             /\ comment'[c].visible = row[c].visible
             /\ comment'[c].told <=> comment[c].told \/ c \in due
             /\ sent'[c] = sent[c] + (IF c \in due THEN 1 ELSE 0)
  <2> DEFINE told == row[c].told \/ c \in due
  <2>1. told \in BOOLEAN
    OBVIOUS
  <2>2. comment'[c] = [row[c] EXCEPT !.told = told]
    BY <1>1
  <2>3. told <=> comment[c].told \/ c \in due
    OBVIOUS
  <2> HIDE DEF told
  <2>4. comment'[c] \in Comment /\ Fixed(c) /\ comment'[c].stage = row[c].stage
        /\ comment'[c].visible = row[c].visible /\ comment'[c].told = told
    BY <2>1, <2>2 DEF Comment, Fixed
  <2> QED BY <1>1, <2>3, <2>4
<1>5. ASSUME NEW c \in Made PROVE HeldIsHidden(c)'
  <2>1. HeldIsHidden(c)
    BY DEF CommentsInv
  <2>2. c \in due => ~comment[c].told /\ row[c].visible
    BY <1>2
  <2>3. sent'[c] \in {0, 1} /\ (~comment'[c].told => sent'[c] = 0)
    BY <1>4, <2>1, <2>2 DEF HeldIsHidden
  <2>4. Held(c)' => Held(c)
    BY <1>4 DEF Held, Fixed
  <2>5. Held(c)' => ~row[c].visible
    BY <2>1, <2>4 DEF Held, HeldIsHidden
  <2>6. Held(c)' => ~comment'[c].visible /\ sent'[c] = 0
    BY <1>4, <2>1, <2>2, <2>4, <2>5 DEF HeldIsHidden
  <2> QED BY <2>3, <2>6 DEF HeldIsHidden
<1>6. CommentsTypeOK'
  <2>1. \A c \in Made : sent'[c] \in Nat
    BY <1>4 DEF CommentsInv, CommentsTypeOK
  <2> QED BY <1>3, <1>4, <2>1 DEF CommentsInv, CommentsTypeOK
<1> QED BY <1>3, <1>4, <1>5, <1>6, SameComments

\* The insert.
LEMMA PostKeepsInv ==
  ASSUME CommentsInv, NEW c \in Made, Post(c)
  PROVE  CommentsInv'
<1> DEFINE r == [comment[c] EXCEPT !.stage = "posted"]
           row == [comment EXCEPT ![c] = r]
<1>1. /\ r \in Comment /\ r.author = comment[c].author /\ r.reply = comment[c].reply
      /\ r.verdict = comment[c].verdict /\ r.told = comment[c].told
      /\ r.visible = comment[c].visible
  BY DEF CommentsInv, CommentsTypeOK, Comment
<1>2. comment[c].stage = "posting" /\ Write(row, {c})
  BY DEF Post
<1>3. row[c] = r /\ \A d \in Made : d # c => row[d] = comment[d]
  BY DEF Made
<1> HIDE DEF r, row
<1>4. \A d \in Made :
        /\ row[d] \in Comment
        /\ row[d].author = comment[d].author /\ row[d].reply = comment[d].reply
        /\ row[d].verdict = comment[d].verdict /\ row[d].told = comment[d].told
        /\ row[d].visible => comment[d].visible
        /\ row[d].stage \in {"posting", "posted"} => comment[d].stage \in {"posting", "posted"}
  BY <1>1, <1>2, <1>3 DEF CommentsInv, CommentsTypeOK
<1>5. approved' = approved /\ warned' = warned /\ open' = open
      /\ approved \subseteq Made /\ warned \subseteq Made
  BY DEF Post, CommentsInv, CommentsTypeOK
<1> QED BY <1>2, <1>4, <1>5, WriteKeepsInv

\* What a person shows was approved by the same step.
LEMMA ModerateKeepsInv ==
  ASSUME CommentsInv, NEW cs \in SUBSET Posted, NEW visible \in BOOLEAN, Moderate(cs, visible)
  PROVE  CommentsInv'
<1> DEFINE after(c) == [comment[c] EXCEPT !.visible = visible,
                          !.reviewed = @ \/ comment[c].verdict # "none"]
           row == [c \in Made |-> IF c \in cs THEN after(c) ELSE comment[c]]
<1>1. Write(row, {c \in cs : visible /\ ~comment[c].visible})
  BY DEF Moderate
<1>2. cs \subseteq Made
  BY DEF Posted
<1>3. ASSUME NEW c \in Made
      PROVE  /\ after(c) \in Comment
             /\ after(c).author = comment[c].author /\ after(c).reply = comment[c].reply
             /\ after(c).verdict = comment[c].verdict /\ after(c).told = comment[c].told
             /\ after(c).visible = visible /\ after(c).stage = comment[c].stage
  <2> DEFINE reviewed == comment[c].reviewed \/ comment[c].verdict # "none"
  <2>1. reviewed \in BOOLEAN /\ comment[c] \in Comment
    BY DEF CommentsInv, CommentsTypeOK
  <2>2. after(c) = [comment[c] EXCEPT !.visible = visible, !.reviewed = reviewed]
    OBVIOUS
  <2> HIDE DEF reviewed, after
  <2> QED BY <2>1, <2>2 DEF Comment
<1>4. \A c \in Made : row[c] = IF c \in cs THEN after(c) ELSE comment[c]
  OBVIOUS
<1>5. visible => cs \subseteq approved'
  BY DEF Moderate
<1>6. /\ approved \subseteq approved' /\ approved' \subseteq Made /\ warned' \subseteq Made
      /\ open' = open
  BY <1>2 DEF Moderate, CommentsInv, CommentsTypeOK
<1> HIDE DEF row, after
<1>7. \A c \in Made :
        /\ row[c] \in Comment
        /\ row[c].author = comment[c].author /\ row[c].reply = comment[c].reply
        /\ row[c].verdict = comment[c].verdict /\ row[c].told = comment[c].told
        /\ row[c].visible => comment[c].visible \/ c \in approved'
        /\ row[c].stage \in {"posting", "posted"} => comment[c].stage \in {"posting", "posted"}
  BY <1>3, <1>4, <1>5 DEF CommentsInv, CommentsTypeOK
<1> QED BY <1>1, <1>6, <1>7, WriteKeepsInv

\* A comment that is asked for is not posted, and visible only if no moderator
\* held it back.
LEMMA JudgeKeepsInv ==
  ASSUME CommentsInv, NEW author \in Commenters, NEW reply \in {0} \union Posted,
         NEW verdict \in Verdicts, Judge(author, reply, verdict)
  PROVE  CommentsInv'
<1> DEFINE c == Cardinality(Made) + 1
           r == [stage |-> "judged", author |-> author, reply |-> reply, root |-> 0,
                 verdict |-> verdict, visible |-> verdict \in {"none", "pass"},
                 deleted |-> FALSE, reviewed |-> FALSE, told |-> FALSE]
<1>1. c \in Ids
  <2>1. MaxComments \in Nat /\ Made \subseteq 1..MaxComments
    BY CommentsAssumption DEF CommentsInv, CommentsTypeOK, Ids
  <2>2. IsFiniteSet(Made)
    <3>1. IsFiniteSet(1..MaxComments)
      BY <2>1, FS_Interval
    <3> QED BY <2>1, <3>1, FS_Subset
  <2>3. Cardinality(Made) \in Nat
    BY <2>2, FS_CardinalityType
  <2>4. Cardinality(Made) < MaxComments
    BY DEF Judge
  <2> QED BY <2>1, <2>3, <2>4 DEF Ids
<1>2. r \in Comment /\ r.stage = "judged" /\ r.verdict = verdict /\ r.reply = reply
      /\ (r.visible <=> verdict \in {"none", "pass"})
  <2>1. reply \in {0} \union Ids
    BY DEF Posted, CommentsInv, CommentsTypeOK
  <2> DEFINE shown == verdict \in {"none", "pass"}
  <2>2. shown \in BOOLEAN
    OBVIOUS
  <2> HIDE DEF shown
  <2>3. r = [stage |-> "judged", author |-> author, reply |-> reply, root |-> 0,
             verdict |-> verdict, visible |-> shown,
             deleted |-> FALSE, reviewed |-> FALSE, told |-> FALSE]
    BY DEF shown
  <2>4. r.visible = shown
    BY <2>3
  <2>5. r \in Comment
    BY <2>1, <2>2, <2>3 DEF Comment
  <2> QED BY <2>4, <2>5 DEF shown
<1>3. /\ comment' = [d \in Made \union {c} |-> IF d \in Made THEN comment[d] ELSE r]
      /\ sent' = [d \in Made \union {c} |-> IF d \in Made THEN sent[d] ELSE 0]
      /\ UNCHANGED <<warned, approved, open>>
  BY DEF Judge
<1> HIDE DEF c, r
<1>4. Made' = Made \union {c} /\ DOMAIN sent' = Made'
  BY <1>3 DEF Made
<1>5. /\ \A d \in Made : comment'[d] = comment[d] /\ sent'[d] = sent[d]
      /\ \A d \in Made' \ Made : d = c /\ comment'[d] = r /\ sent'[d] = 0
  BY <1>3, <1>4
<1>6. CommentsTypeOK'
  BY <1>1, <1>2, <1>3, <1>4, <1>5 DEF CommentsInv, CommentsTypeOK
<1>7. ASSUME NEW d \in Made' PROVE HeldIsHidden(d)'
  <2>1. CASE d \in Made
    BY <1>3, <1>5, <2>1 DEF CommentsInv, HeldIsHidden, Held
  <2>2. CASE d \notin Made
    BY <1>2, <1>5, <2>2 DEF HeldIsHidden, Held
  <2> QED BY <2>1, <2>2
<1>8. ASSUME NEW d \in Made' PROVE HeldIsUnanswered(d)'
  <2>1. CASE d \in Made
    <3>1. comment'[d] = comment[d] /\ HeldIsUnanswered(d)
      BY <1>5, <2>1 DEF CommentsInv
    <3>2. comment[d].reply # 0 => comment[d].reply \in Made
      BY <3>1 DEF HeldIsUnanswered
    <3>3. comment[d].reply \in Made =>
            comment'[comment[d].reply] = comment[comment[d].reply]
      BY <1>5
    <3> QED BY <1>3, <1>4, <3>1, <3>2, <3>3 DEF HeldIsUnanswered, Held
  <2>2. CASE d \notin Made
    <3>1. comment'[d] = r
      BY <1>5, <2>2
    <3> QED BY <1>2, <1>4, <3>1 DEF HeldIsUnanswered, Posted
  <2> QED BY <2>1, <2>2
<1> QED BY <1>6, <1>7, <1>8 DEF CommentsInv

\* Every step of the comments keeps the invariant.
LEMMA CommentsInvStep == CommentsInv /\ [CommentsNext]_commentsVars => CommentsInv'
<1> SUFFICES ASSUME CommentsInv, [CommentsNext]_commentsVars PROVE CommentsInv'
  OBVIOUS
<1>1. CASE SetOpen \/ UNCHANGED commentsVars
  <2>1. UNCHANGED <<comment, sent, warned, approved>> /\ open' \in BOOLEAN
    BY <1>1 DEF SetOpen, commentsVars, CommentsInv, CommentsTypeOK
  <2> QED BY <2>1 DEF CommentsInv, CommentsTypeOK, Made, HeldIsHidden, HeldIsUnanswered, Held
<1>2. ASSUME NEW author \in Commenters, NEW reply \in {0} \union Posted, NEW verdict \in Verdicts,
             Judge(author, reply, verdict)
      PROVE  CommentsInv'
  BY <1>2, JudgeKeepsInv
<1>3. ASSUME NEW c \in Made, Admit(c) \/ Fail(c) PROVE CommentsInv'
  BY <1>3, OneCommentKeepsInv
<1>4. ASSUME NEW c \in Made, Post(c) PROVE CommentsInv'
  BY <1>4, PostKeepsInv
<1>5. ASSUME NEW c \in Posted, Delete(c) PROVE CommentsInv'
  BY <1>5, OneCommentKeepsInv DEF Posted
<1>6. ASSUME NEW cs \in SUBSET Posted, NEW visible \in BOOLEAN, Moderate(cs, visible)
      PROVE  CommentsInv'
  BY <1>6, ModerateKeepsInv
<1> QED BY <1>1, <1>2, <1>3, <1>4, <1>5, <1>6 DEF CommentsNext

\* Every state of the comments satisfies the invariant.
LEMMA CommentsSatisfyInv == CommentsSpec => []CommentsInv
BY CommentsInvInit, CommentsInvStep, PTL DEF CommentsSpec

\* Type correctness of comments, messages and approvals.
THEOREM CommentsTypeCorrect == CommentsSpec => []CommentsTypeOK
<1>1. CommentsInv => CommentsTypeOK
  BY DEF CommentsInv
<1> QED BY <1>1, CommentsSatisfyInv, PTL

\* A comment the moderator held back and no person approved is seen, announced and
\* answered by nobody but its author, and no comment is announced twice.
THEOREM HeldBackIsUnseenAlways == CommentsSpec => []HeldBackIsUnseen
BY CommentsInvSuffices, CommentsSatisfyInv, PTL

-----------------------------------------------------------------------------
(* Feedback *)

TicketRecords == [kind : ReportKinds \union {"none", "feedback"}, status : Statuses, closed : BOOLEAN]
HistoryRows == [from : Statuses \union {""}, to : Statuses]

\* The tables, each a function of the tickets.
Tables ==
  /\ ticket \in [Tickets -> TicketRecords]
  /\ history \in [Tickets -> Seq(HistoryRows)]
  /\ reported \in [Tickets -> Seq(Statuses)]
  /\ answering \in [Tickets -> Statuses \union {NoStatus}]

\* A ticket that was not made is as it will begin, and nobody answers it.
NotMade(row, messages, read) ==
  /\ row.kind = "none" => row.status = "open" /\ row.closed = FALSE /\ read = NoStatus
  /\ row.kind \notin ReportKinds => messages = <<>>

\* The rows of history end in the status, each beginning where the last ended.
Chained(row, rows) ==
  /\ Len(rows) # 0
  /\ rows[Len(rows)].to = row.status
  /\ \A i \in 2..Len(rows) : rows[i].from = rows[i - 1].to

\* Each message is about the change after it was made.
Told(rows, messages) ==
  /\ Len(rows) = Len(messages) + 1
  /\ \A i \in 1..Len(messages) : messages[i] = rows[i + 1].to

TicketOK(t) ==
  /\ NotMade(ticket[t], reported[t], answering[t])
  /\ ticket[t].kind # "none" =>
       /\ Chained(ticket[t], history[t])
       /\ ticket[t].closed <=> ticket[t].status \in Closed
  /\ ticket[t].kind \in ReportKinds => Told(history[t], reported[t])

FeedbackInv == Tables /\ \A t \in Tickets : TicketOK(t)

\* The invariant says what the property says.
LEMMA FeedbackInvSuffices == FeedbackInv => FeedbackTypeOK /\ HistoryIsTold
<1> SUFFICES ASSUME FeedbackInv PROVE FeedbackTypeOK /\ HistoryIsTold
  OBVIOUS
<1>1. FeedbackTypeOK
  BY DEF FeedbackInv, Tables, FeedbackTypeOK, TicketRecords, HistoryRows
<1>2. ASSUME NEW t \in Tickets, ticket[t].kind # "none"
      PROVE  /\ Last(history[t]).to = ticket[t].status
             /\ \A i \in 2..Len(history[t]) : history[t][i].from = history[t][i - 1].to
             /\ ticket[t].closed <=> ticket[t].status \in Closed
  BY <1>2 DEF FeedbackInv, TicketOK, Chained, Last
<1>3. ASSUME NEW t \in Tickets, ticket[t].kind \in ReportKinds
      PROVE  reported[t] = [i \in 1..(Len(history[t]) - 1) |-> history[t][i + 1].to]
  <2>1. reported[t] \in Seq(Statuses) /\ history[t] \in Seq(HistoryRows)
    BY DEF FeedbackInv, Tables
  <2>2. Told(history[t], reported[t])
    BY <1>3 DEF FeedbackInv, TicketOK
  <2>3. Len(history[t]) - 1 = Len(reported[t])
    BY <2>1, <2>2 DEF Told
  <2>4. reported[t] = [i \in 1..Len(reported[t]) |-> reported[t][i]]
    BY <2>1
  <2> QED BY <2>2, <2>3, <2>4 DEF Told
<1> QED BY <1>1, <1>2, <1>3 DEF HistoryIsTold

\* No ticket was made.
LEMMA FeedbackInvInit == FeedbackInit => FeedbackInv
<1> SUFFICES ASSUME FeedbackInit PROVE FeedbackInv
  OBVIOUS
<1>1. Tables
  BY DEF FeedbackInit, Tables, TicketRecords, HistoryRows, Statuses, ReportKinds
<1>2. ASSUME NEW t \in Tickets PROVE TicketOK(t)
  BY DEF FeedbackInit, TicketOK, NotMade, ReportKinds
<1> QED BY <1>1, <1>2 DEF FeedbackInv

\* What is written to the history of one ticket leaves the others.
LEMMA HistoryWritten ==
  ASSUME FeedbackInv, NEW t \in Tickets, NEW rows \in Seq(HistoryRows),
         history' = [history EXCEPT ![t] = rows]
  PROVE  /\ history' \in [Tickets -> Seq(HistoryRows)] /\ history'[t] = rows
         /\ \A u \in Tickets : u # t => history'[u] = history[u]
BY DEF FeedbackInv, Tables

\* A history of one row.
LEMMA OneHistoryRow ==
  ASSUME NEW row \in HistoryRows
  PROVE  <<row>> \in Seq(HistoryRows) /\ Len(<<row>>) = 1 /\ <<row>>[1] = row
OBVIOUS

\* A ticket is made: one row of history, and no message yet.
LEMMA CreateKeepsInv ==
  ASSUME FeedbackInv, NEW t \in Tickets, NEW kind \in ReportKinds \union {"feedback"},
         NEW exists \in BOOLEAN, CreateFeedback(t, kind, exists)
  PROVE  FeedbackInv'
<1> DEFINE first == [from |-> "", to |-> "open"]
<1>1. ticket \in [Tickets -> TicketRecords] /\ history \in [Tickets -> Seq(HistoryRows)]
      /\ TicketOK(t) /\ ticket[t].kind = "none"
  BY DEF FeedbackInv, Tables, CreateFeedback
<1>2. ticket' \in [Tickets -> TicketRecords] /\ ticket'[t] = [ticket[t] EXCEPT !.kind = kind]
      /\ \A u \in Tickets : u # t => ticket'[u] = ticket[u]
  BY <1>1 DEF CreateFeedback, TicketRecords
<1>3. /\ history' \in [Tickets -> Seq(HistoryRows)]
      /\ Len(history'[t]) = 1 /\ history'[t][1].to = "open"
      /\ \A u \in Tickets : u # t => history'[u] = history[u]
  <2>1. first \in HistoryRows /\ first.to = "open"
    BY DEF HistoryRows, Statuses
  <2>2. <<first>> \in Seq(HistoryRows) /\ Len(<<first>>) = 1 /\ <<first>>[1] = first
    BY <2>1, OneHistoryRow
  <2>3. history' = [history EXCEPT ![t] = <<first>>]
    BY DEF CreateFeedback
  <2>4. /\ history' \in [Tickets -> Seq(HistoryRows)] /\ history'[t] = <<first>>
        /\ \A u \in Tickets : u # t => history'[u] = history[u]
    <3> HIDE DEF first
    <3> QED BY <2>2, <2>3, HistoryWritten
  <2> HIDE DEF first
  <2> QED BY <2>1, <2>2, <2>4
<1>4. Tables'
  BY <1>2, <1>3 DEF FeedbackInv, Tables, CreateFeedback
<1>5. TicketOK(t)'
  <2>1. ticket[t].status = "open" /\ ticket[t].closed = FALSE /\ reported[t] = <<>>
    BY <1>1 DEF TicketOK, NotMade, ReportKinds
  <2>2. ticket'[t].kind = kind /\ ticket'[t].status = "open" /\ ticket'[t].closed = FALSE
    BY <1>1, <1>2, <2>1 DEF TicketRecords
  <2>4. Chained(ticket'[t], history'[t])
    BY <1>3, <2>2 DEF Chained
  <2>5. reported'[t] = <<>> /\ kind # "none"
    BY <2>1 DEF CreateFeedback, ReportKinds
  <2>6. Told(history'[t], reported'[t])
    BY <1>3, <2>5 DEF Told
  <2>7. "open" \notin Closed
    BY DEF Closed
  <2> QED BY <2>2, <2>4, <2>5, <2>6, <2>7 DEF TicketOK, NotMade
<1>6. ASSUME NEW u \in Tickets, u # t PROVE TicketOK(u)'
  BY <1>2, <1>3, <1>6 DEF FeedbackInv, TicketOK, CreateFeedback
<1> QED BY <1>4, <1>5, <1>6 DEF FeedbackInv

\* One more element of a sequence: its length, its last element and the others.
LEMMA Appended ==
  ASSUME NEW S, NEW s \in Seq(S), NEW e \in S
  PROVE  /\ Append(s, e) \in Seq(S) /\ Len(Append(s, e)) = Len(s) + 1
         /\ Append(s, e)[Len(s) + 1] = e
         /\ \A i \in 1..Len(s) : Append(s, e)[i] = s[i]
OBVIOUS

\* A change of the status is one more row of a chain.
LEMMA ChainGrows ==
  ASSUME NEW rows \in Seq(HistoryRows), NEW row, Chained(row, rows),
         NEW new \in HistoryRows, new.from = row.status, NEW after, after.status = new.to
  PROVE  Chained(after, Append(rows, new))
<1> DEFINE more == Append(rows, new)
<1>1. /\ more \in Seq(HistoryRows) /\ Len(more) = Len(rows) + 1 /\ more[Len(rows) + 1] = new
      /\ \A i \in 1..Len(rows) : more[i] = rows[i]
  BY Appended
<1>2. Len(rows) \in Nat \ {0} /\ rows[Len(rows)].to = row.status
  BY DEF Chained
<1> HIDE DEF more
<1>3. ASSUME NEW i \in 2..Len(more) PROVE more[i].from = more[i - 1].to
  <2>1. CASE i = Len(rows) + 1
    <3>1. i - 1 = Len(rows) /\ Len(rows) \in 1..Len(rows)
      BY <1>2, <2>1
    <3> QED BY <1>1, <1>2, <2>1, <3>1
  <2>2. CASE i # Len(rows) + 1
    <3>1. i \in 2..Len(rows) /\ i \in 1..Len(rows) /\ i - 1 \in 1..Len(rows)
      BY <1>1, <1>2, <2>2
    <3> QED BY <1>1, <3>1 DEF Chained
  <2> QED BY <2>1, <2>2
<1>4. Len(more) # 0 /\ more[Len(more)].to = after.status
  BY <1>1, <1>2
<1>5. Chained(after, more)
  BY <1>3, <1>4 DEF Chained
<1> QED BY <1>5 DEF more

\* And its message is one more message.
LEMMA TellingGrows ==
  ASSUME NEW rows \in Seq(HistoryRows), NEW messages \in Seq(Statuses), Told(rows, messages),
         NEW new \in HistoryRows
  PROVE  Told(Append(rows, new), Append(messages, new.to))
<1> DEFINE more == Append(rows, new)
           said == Append(messages, new.to)
<1>1. /\ more \in Seq(HistoryRows) /\ Len(more) = Len(rows) + 1 /\ more[Len(rows) + 1] = new
      /\ \A i \in 1..Len(rows) : more[i] = rows[i]
  BY Appended
<1>2. new.to \in Statuses
  BY DEF HistoryRows
<1>3. /\ said \in Seq(Statuses) /\ Len(said) = Len(messages) + 1
      /\ said[Len(messages) + 1] = new.to
      /\ \A i \in 1..Len(messages) : said[i] = messages[i]
  BY <1>2, Appended
<1>4. Len(rows) = Len(messages) + 1 /\ Len(messages) \in Nat
  BY DEF Told
<1> HIDE DEF more, said
<1>5. ASSUME NEW i \in 1..Len(said) PROVE said[i] = more[i + 1].to
  <2>1. CASE i = Len(messages) + 1
    BY <1>1, <1>3, <1>4, <2>1
  <2>2. CASE i # Len(messages) + 1
    <3>1. i \in 1..Len(messages) /\ i + 1 \in 1..Len(rows)
      BY <1>3, <1>4, <2>2
    <3> QED BY <1>1, <1>3, <3>1 DEF Told
  <2> QED BY <2>1, <2>2
<1>6. Told(more, said)
  BY <1>1, <1>3, <1>4, <1>5 DEF Told
<1> QED BY <1>6 DEF more, said

\* UpdateFeedback of a ticket that is there, whoever calls it.
LEMMA UpdateKeepsInv ==
  ASSUME FeedbackInv, NEW t \in Tickets, NEW status \in Statuses,
         ticket[t].kind # "none", UpdateFeedback(t, status),
         answering' \in [Tickets -> Statuses \union {NoStatus}],
         \A u \in Tickets : u # t => answering'[u] = answering[u]
  PROVE  FeedbackInv'
<1> DEFINE new == [from |-> ticket[t].status, to |-> status]
<1>1. /\ ticket \in [Tickets -> TicketRecords] /\ history \in [Tickets -> Seq(HistoryRows)]
      /\ reported \in [Tickets -> Seq(Statuses)] /\ TicketOK(t)
  BY DEF FeedbackInv, Tables
<1>2. /\ ticket' \in [Tickets -> TicketRecords]
      /\ ticket'[t].kind = ticket[t].kind /\ ticket'[t].status = status
      /\ \A u \in Tickets : u # t => ticket'[u] = ticket[u]
  <2>1. (status \in Closed) \in BOOLEAN
    OBVIOUS
  <2> QED BY <1>1, <2>1 DEF UpdateFeedback, TicketRecords
<1>3. ticket'[t].closed <=> status \in Closed
  BY <1>1 DEF UpdateFeedback, TicketRecords
<1>4. new \in HistoryRows /\ new.from = ticket[t].status /\ new.to = status
  BY <1>1 DEF HistoryRows, TicketRecords
<1>5. Chained(ticket[t], history[t]) /\ NotMade(ticket[t], reported[t], answering[t])
  BY <1>1 DEF TicketOK
<1> HIDE DEF new
<1>6. ASSUME Tables', Chained(ticket'[t], history'[t]),
             ticket[t].kind \in ReportKinds => Told(history'[t], reported'[t]),
             ticket[t].kind \notin ReportKinds => reported'[t] = reported[t],
             \A u \in Tickets : u # t => history'[u] = history[u] /\ reported'[u] = reported[u]
      PROVE  FeedbackInv'
  <2>1. NotMade(ticket'[t], reported'[t], answering'[t])
    BY <1>2, <1>5, <1>6 DEF NotMade
  <2>2. TicketOK(t)'
    BY <1>2, <1>3, <1>6, <2>1 DEF TicketOK
  <2>3. ASSUME NEW u \in Tickets, u # t PROVE TicketOK(u)'
    BY <1>2, <1>6, <2>3 DEF FeedbackInv, TicketOK
  <2> QED BY <1>6, <2>2, <2>3 DEF FeedbackInv
<1>7. CASE ticket[t].status = status
  <2>1. history' = history /\ reported' = reported
    BY <1>7 DEF UpdateFeedback, CurrentStatus
  <2>2. Chained(ticket'[t], history'[t])
    BY <1>2, <1>5, <1>7, <2>1 DEF Chained
  <2>3. ticket[t].kind \in ReportKinds => Told(history'[t], reported'[t])
    BY <1>1, <2>1 DEF TicketOK
  <2>4. Tables'
    BY <1>1, <1>2, <2>1 DEF Tables
  <2> QED BY <1>6, <2>1, <2>2, <2>3, <2>4
<1>8. CASE ticket[t].status # status
  <2>1. /\ history' \in [Tickets -> Seq(HistoryRows)] /\ history'[t] = Append(history[t], new)
        /\ \A u \in Tickets : u # t => history'[u] = history[u]
    <3>1. Append(history[t], new) \in Seq(HistoryRows)
      BY <1>1, <1>4, Appended
    <3>2. history' = [history EXCEPT ![t] = Append(history[t], new)]
      BY <1>8 DEF UpdateFeedback, CurrentStatus, new
    <3> QED BY <3>1, <3>2, HistoryWritten
  <2>2. Chained(ticket'[t], history'[t])
    BY <1>1, <1>2, <1>4, <1>5, <2>1, ChainGrows
  <2>3. CASE ticket[t].kind \in ReportKinds
    <3>1. reported' = [reported EXCEPT ![t] = Append(reported[t], status)]
      BY <1>8, <2>3 DEF UpdateFeedback
    <3>2. Append(reported[t], status) \in Seq(Statuses)
      BY <1>1, Appended
    <3>3. /\ reported' \in [Tickets -> Seq(Statuses)] /\ reported'[t] = Append(reported[t], status)
          /\ \A u \in Tickets : u # t => reported'[u] = reported[u]
      BY <1>1, <3>1, <3>2
    <3>4. Told(history[t], reported[t])
      BY <1>1, <2>3 DEF TicketOK
    <3>5. Told(history'[t], reported'[t])
      BY <1>1, <1>4, <2>1, <3>3, <3>4, TellingGrows
    <3>6. Tables'
      BY <1>2, <2>1, <3>3 DEF Tables
    <3> QED BY <1>6, <2>1, <2>2, <2>3, <3>3, <3>5, <3>6
  <2>4. CASE ticket[t].kind \notin ReportKinds
    <3>1. reported' = reported
      BY <2>4 DEF UpdateFeedback
    <3>2. Tables'
      BY <1>1, <1>2, <2>1, <3>1 DEF Tables
    <3> QED BY <1>6, <2>1, <2>2, <2>4, <3>1, <3>2
  <2> QED BY <2>3, <2>4
<1> QED BY <1>7, <1>8

\* What the reporter's answer read, or that none is under way any more.
LEMMA AnsweringWritten ==
  ASSUME FeedbackInv, NEW t \in Tickets, NEW read \in Statuses \union {NoStatus},
         answering' = [answering EXCEPT ![t] = read]
  PROVE  /\ answering' \in [Tickets -> Statuses \union {NoStatus}] /\ answering'[t] = read
         /\ \A u \in Tickets : u # t => answering'[u] = answering[u]
BY DEF FeedbackInv, Tables

\* Reading a ticket, or dropping an answer, leaves the tables as they are.
LEMMA AnswerKeepsInv ==
  ASSUME FeedbackInv, NEW t \in Tickets, BeginAnswer(t) \/ DropAnswer(t)
  PROVE  FeedbackInv'
<1>1. PICK read \in Statuses \union {NoStatus} :
        answering' = [answering EXCEPT ![t] = read] /\ (ticket[t].kind = "none" => read = NoStatus)
  <2>1. ticket[t].status \in Statuses
    BY DEF FeedbackInv, Tables, TicketRecords
  <2> QED BY <2>1 DEF BeginAnswer, DropAnswer
<1>2. /\ answering' \in [Tickets -> Statuses \union {NoStatus}] /\ answering'[t] = read
      /\ \A u \in Tickets : u # t => answering'[u] = answering[u]
  BY <1>1, AnsweringWritten
<1>3. UNCHANGED <<ticket, history, reported>>
  BY DEF BeginAnswer, DropAnswer
<1>4. Tables'
  BY <1>2, <1>3 DEF FeedbackInv, Tables
<1>5. ASSUME NEW u \in Tickets PROVE TicketOK(u)'
  <2>1. NotMade(ticket[u], reported[u], answering'[u])
    BY <1>1, <1>2 DEF FeedbackInv, TicketOK, NotMade
  <2> QED BY <1>3, <2>1 DEF FeedbackInv, TicketOK
<1> QED BY <1>4, <1>5 DEF FeedbackInv

\* Every step of a ticket keeps the invariant.
LEMMA FeedbackInvStep == FeedbackInv /\ [FeedbackNext]_feedbackVars => FeedbackInv'
<1> SUFFICES ASSUME FeedbackInv, [FeedbackNext]_feedbackVars PROVE FeedbackInv'
  OBVIOUS
<1>1. ASSUME NEW t \in Tickets, NEW kind \in ReportKinds \union {"feedback"},
             NEW exists \in BOOLEAN, CreateFeedback(t, kind, exists)
      PROVE  FeedbackInv'
  BY <1>1, CreateKeepsInv
<1>2. ASSUME NEW t \in Tickets, NEW status \in Statuses, TicketAction(t, status)
      PROVE  FeedbackInv'
  <2>1. /\ answering' \in [Tickets -> Statuses \union {NoStatus}]
        /\ \A u \in Tickets : u # t => answering'[u] = answering[u]
    BY <1>2 DEF TicketAction, FeedbackInv, Tables
  <2> QED BY <1>2, <2>1, UpdateKeepsInv DEF TicketAction
<1>3. ASSUME NEW t \in Tickets, BeginAnswer(t) \/ DropAnswer(t) PROVE FeedbackInv'
  BY <1>3, AnswerKeepsInv
<1>4. ASSUME NEW t \in Tickets, FinishAnswer(t) PROVE FeedbackInv'
  <2>1. ticket[t].kind # "none"
    BY <1>4 DEF FeedbackInv, TicketOK, NotMade, FinishAnswer
  <2>2. /\ answering' \in [Tickets -> Statuses \union {NoStatus}]
        /\ \A u \in Tickets : u # t => answering'[u] = answering[u]
    BY <1>4, AnsweringWritten DEF FinishAnswer
  <2>3. "open" \in Statuses
    BY DEF Statuses
  <2> QED BY <1>4, <2>1, <2>2, <2>3, UpdateKeepsInv DEF FinishAnswer
<1>5. CASE UNCHANGED feedbackVars
  BY <1>5 DEF FeedbackInv, Tables, TicketOK, feedbackVars
<1> QED BY <1>1, <1>2, <1>3, <1>4, <1>5 DEF FeedbackNext

\* Every state of the tickets satisfies the invariant.
LEMMA FeedbackSatisfiesInv == FeedbackSpec => []FeedbackInv
BY FeedbackInvInit, FeedbackInvStep, PTL DEF FeedbackSpec

\* Type correctness of tickets, histories and messages.
THEOREM FeedbackTypeCorrect == FeedbackSpec => []FeedbackTypeOK
<1>1. FeedbackInv => FeedbackTypeOK
  BY FeedbackInvSuffices
<1> QED BY <1>1, FeedbackSatisfiesInv, PTL

\* The history of a ticket is a chain that ends in its status, and the author of
\* a report was told of every change, however answers and decisions overlap.
THEOREM HistoryIsToldAlways == FeedbackSpec => []HistoryIsTold
<1>1. FeedbackInv => HistoryIsTold
  BY FeedbackInvSuffices
<1> QED BY <1>1, FeedbackSatisfiesInv, PTL

-----------------------------------------------------------------------------
(* Collections *)

(* A single proposal waits, written against the revision that is live. *)
WaitsForOne(c) ==
  /\ \A i, j \in InState(c, "pending") : i = j
  /\ \A i \in InState(c, "pending") :
       /\ revisions[c][i].base = collection[c].current
       /\ revisions[c][i].known.named => revisions[c][i].known.live = collection[c].current

(* A page that names the present version was read of it when the revision that is
   live was. *)
PageIsHonest ==
  page.stage \in {"version", "read"} =>
    /\ page.of \in Collections
    /\ page.version <= collection[page.of].version
    /\ page.version = collection[page.of].version => page.live = collection[page.of].current

CollectionsInv ==
  CollectionsTypeOK /\ PageIsHonest /\ \A c \in Collections : WaitsForOne(c) /\ LiveIsApproved(c)

Pages == [stage : {"none", "version", "revisions", "read"}, by : {"owner", "admin"},
          of : Collections \union {NoCollection}, live : Nat, pending : Nat, version : Nat]

Known == [named : BOOLEAN, live : Nat]

CollectionRecords == [current : Nat, enabled : BOOLEAN, version : Nat]

\* A function of the numbers up to n is a sequence of length n.
LEMMA SequenceOf ==
  ASSUME NEW S, NEW n \in Nat, NEW f, DOMAIN f = 1..n, \A i \in 1..n : f[i] \in S,
         f = [i \in 1..n |-> f[i]]
  PROVE  f \in Seq(S) /\ Len(f) = n
  OBVIOUS

\* A sequence and one element more.
LEMMA OneMore ==
  ASSUME NEW S, NEW f \in Seq(S), NEW e \in S
  PROVE  /\ Append(f, e) \in Seq(S)
         /\ DOMAIN Append(f, e) = 1..(Len(f) + 1)
         /\ Append(f, e)[Len(f) + 1] = e
         /\ \A i \in 1..Len(f) : Append(f, e)[i] = f[i]
  OBVIOUS

\* What supersedes the pending proposals.
LEMMA SupersededEffect ==
  ASSUME CollectionsTypeOK, NEW c \in Collections
  PROVE  /\ Superseded(c) \in Seq(Revision) /\ Len(Superseded(c)) = Len(revisions[c])
         /\ DOMAIN revisions[c] = 1..Len(revisions[c])
         /\ \A i \in DOMAIN revisions[c] :
              Superseded(c)[i] = IF revisions[c][i].state = "pending"
                                 THEN [revisions[c][i] EXCEPT !.state = "superseded"] ELSE revisions[c][i]
<1>1. revisions[c] \in Seq(Revision)
  BY DEF CollectionsTypeOK
<1>2. DOMAIN revisions[c] = 1..Len(revisions[c]) /\ Len(revisions[c]) \in Nat
      /\ \A i \in DOMAIN revisions[c] : revisions[c][i] \in Revision
  BY <1>1
<1>3. \A r \in Revision : [r EXCEPT !.state = "superseded"] \in Revision
  BY DEF Revision
<1>4. \A i \in DOMAIN revisions[c] :
        /\ Superseded(c)[i] = IF revisions[c][i].state = "pending"
                              THEN [revisions[c][i] EXCEPT !.state = "superseded"] ELSE revisions[c][i]
        /\ Superseded(c)[i] \in Revision
  BY <1>2, <1>3 DEF Superseded, InState
<1>5. DOMAIN Superseded(c) = 1..Len(revisions[c])
      /\ Superseded(c) = [i \in 1..Len(revisions[c]) |-> Superseded(c)[i]]
  BY <1>2 DEF Superseded
<1> HIDE DEF Superseded
<1>6. Superseded(c) \in Seq(Revision) /\ Len(Superseded(c)) = Len(revisions[c])
  BY <1>2, <1>4, <1>5, SequenceOf
<1> QED
  BY <1>2, <1>4, <1>6

\* A collection that was never proposed has nothing that is live.
LEMMA NewHasNoneLive ==
  ASSUME CollectionsInv, NEW c \in Collections, ~Exists(c)
  PROVE  collection[c].current = 0
  BY DEF CollectionsInv, LiveIsApproved, InState, Exists

\* What is live is one of the revisions, and has been approved.
LEMMA LiveIsThere ==
  ASSUME CollectionsInv, NEW c \in Collections, collection[c].current # 0
  PROVE  /\ collection[c].current \in DOMAIN revisions[c]
         /\ revisions[c][collection[c].current].state = "approved"
  BY DEF CollectionsInv, LiveIsApproved, InState

\* A proposal written against what is live replaces the one that waited.
LEMMA ProposeKeeps ==
  ASSUME CollectionsInv, NEW c \in Collections, NEW members \in SUBSET Resources, NEW enabled \in BOOLEAN,
         NEW known \in Known, known.named => known.live = collection[c].current,
         Propose(c, members, enabled, known), UNCHANGED collection \/ collection' = Bumped(c)
  PROVE  CollectionsInv'
<1> DEFINE n == Len(revisions[c])
           new == [state |-> "pending", members |-> members, enabled |-> enabled,
                   base |-> collection[c].current, known |-> known]
<1>1. /\ revisions' = [revisions EXCEPT ![c] = Append(Superseded(c), new)]
      /\ UNCHANGED <<member, governed, moderation, page>>
  BY DEF Propose
<1>2. /\ Superseded(c) \in Seq(Revision) /\ Len(Superseded(c)) = n /\ n \in Nat
      /\ DOMAIN revisions[c] = 1..n
      /\ \A i \in DOMAIN revisions[c] :
           Superseded(c)[i] = IF revisions[c][i].state = "pending"
                              THEN [revisions[c][i] EXCEPT !.state = "superseded"] ELSE revisions[c][i]
  <2>1. CollectionsTypeOK /\ Len(revisions[c]) \in Nat
    BY DEF CollectionsInv, CollectionsTypeOK
  <2> QED
    BY <2>1, SupersededEffect
<1>3. /\ new \in Revision /\ new.state = "pending" /\ new.base = collection[c].current
      /\ new.known.named => new.known.live = collection[c].current
  <2>1. collection[c].current \in Nat
    BY DEF CollectionsInv, CollectionsTypeOK
  <2>2. new \in Revision
    BY <2>1 DEF Revision, Known
  <2> QED
    BY <2>2
<1> HIDE DEF new
<1>4. /\ Append(Superseded(c), new) \in Seq(Revision)
      /\ DOMAIN Append(Superseded(c), new) = 1..(n + 1)
      /\ Append(Superseded(c), new)[n + 1] = new
      /\ \A i \in 1..n : Append(Superseded(c), new)[i] = Superseded(c)[i]
  BY <1>2, <1>3, OneMore
<1>5. \A r \in Revision : LET s == [r EXCEPT !.state = "superseded"]
                          IN  s.state = "superseded" /\ s.members = r.members /\ s.enabled = r.enabled
  BY DEF Revision
<1>6. \A i \in 1..n : revisions[c][i] \in Revision
  BY <1>2 DEF CollectionsInv, CollectionsTypeOK
<1>7. /\ revisions' \in [Collections -> Seq(Revision)]
      /\ DOMAIN revisions'[c] = 1..(n + 1)
      /\ revisions'[c][n + 1] = new
      /\ \A i \in 1..n : /\ revisions'[c][i].state # "pending"
                         /\ revisions'[c][i].state = "approved" <=> revisions[c][i].state = "approved"
                         /\ revisions'[c][i].members = revisions[c][i].members
                         /\ revisions'[c][i].enabled = revisions[c][i].enabled
      /\ \A d \in Collections : d # c => revisions'[d] = revisions[d]
  <2>1. revisions' \in [Collections -> Seq(Revision)] /\ revisions'[c] = Append(Superseded(c), new)
        /\ \A d \in Collections : d # c => revisions'[d] = revisions[d]
    BY <1>1, <1>4 DEF CollectionsInv, CollectionsTypeOK
  <2>2. ASSUME NEW i \in 1..n
        PROVE  /\ revisions'[c][i].state # "pending"
               /\ revisions'[c][i].state = "approved" <=> revisions[c][i].state = "approved"
               /\ revisions'[c][i].members = revisions[c][i].members
               /\ revisions'[c][i].enabled = revisions[c][i].enabled
    <3>1. revisions'[c][i] = IF revisions[c][i].state = "pending"
                             THEN [revisions[c][i] EXCEPT !.state = "superseded"] ELSE revisions[c][i]
      BY <1>2, <1>4, <2>1
    <3> QED
      BY <1>5, <1>6, <3>1
  <2> QED
    BY <1>4, <2>1, <2>2
<1>8. /\ collection' \in [Collections -> CollectionRecords]
      /\ \A d \in Collections : /\ collection'[d].current = collection[d].current
                                /\ collection'[d].enabled = collection[d].enabled
                                /\ \/ collection'[d].version = collection[d].version
                                   \/ collection'[d].version = collection[d].version + 1
  <2>1. collection \in [Collections -> CollectionRecords]
    BY DEF CollectionsInv, CollectionsTypeOK, CollectionRecords
  <2>2. CASE collection' = Bumped(c)
    BY <2>1, <2>2 DEF Bumped, CollectionRecords
  <2> QED
    BY <2>1, <2>2
<1>9. CollectionsTypeOK'
  BY <1>1, <1>7, <1>8 DEF CollectionsInv, CollectionsTypeOK, CollectionRecords
<1>10. PageIsHonest'
  <2>1. \A d \in Collections : collection[d].version \in Nat /\ collection'[d].version \in Nat
    BY <1>8 DEF CollectionsInv, CollectionsTypeOK, CollectionRecords
  <2>2. page.version \in Nat
    BY DEF CollectionsInv, CollectionsTypeOK
  <2> QED
    BY <1>1, <1>8, <2>1, <2>2 DEF CollectionsInv, PageIsHonest
<1>11. ASSUME NEW d \in Collections PROVE WaitsForOne(d)' /\ LiveIsApproved(d)'
  <2>1. WaitsForOne(d) /\ LiveIsApproved(d)
    BY DEF CollectionsInv
  <2>2. CASE d # c
    BY <1>1, <1>7, <1>8, <2>1, <2>2 DEF WaitsForOne, LiveIsApproved, InState
  <2>3. CASE d = c
    <3>1. \A i \in DOMAIN revisions'[c] : i \in 1..n \/ i = n + 1
      BY <1>2, <1>7
    <3>2. WaitsForOne(c)'
      BY <1>3, <1>7, <1>8, <3>1 DEF WaitsForOne, InState
    <3>3. n + 1 \in DOMAIN revisions'[c] /\ 1..n \subseteq DOMAIN revisions'[c]
      BY <1>2, <1>7
    <3>4. InState(c, "approved")' = InState(c, "approved")
      BY <1>2, <1>3, <1>7, <3>1, <3>3 DEF InState
    <3>5. collection[c].current # 0 => collection[c].current \in 1..n
      BY <1>2, LiveIsThere
    <3>6. LiveIsApproved(c)'
      <4> DEFINE k == collection[c].current
      <4>1. collection'[c].current = k /\ collection'[c].enabled = collection[c].enabled
        BY <1>8
      <4>2. k # 0 => /\ revisions'[c][k].members = revisions[c][k].members
                     /\ revisions'[c][k].enabled = revisions[c][k].enabled
        BY <1>7, <3>5
      <4>3. LiveIsApproved(c)
        BY <2>1, <2>3
      <4> HIDE DEF k
      <4> QED
        BY <1>1, <3>4, <4>1, <4>2, <4>3 DEF LiveIsApproved, k
    <3> QED
      BY <2>3, <3>2, <3>6
  <2> QED
    BY <2>2, <2>3
<1> QED
  BY <1>9, <1>10, <1>11 DEF CollectionsInv

\* A proposal of the owner names the version of his page, or a new collection.
LEMMA SubmitKeeps ==
  ASSUME CollectionsInv, NEW c \in Collections, NEW members \in SUBSET Resources,
         \/ SubmitCollection(c, members)
         \/ \E enabled \in BOOLEAN : AdminUpdateCollection(c, members, enabled)
         \/ DeleteCollection(c)
  PROVE  CollectionsInv'
<1>1. /\ \A n \in Nat : Live(n) \in Known /\ Live(n).live = n
      /\ NoVersion \in Known /\ ~NoVersion.named
      /\ collection[c].current \in Nat /\ page \in Pages
  BY DEF Live, NoVersion, Known, Pages, CollectionsInv, CollectionsTypeOK
<1>2. CASE SubmitCollection(c, members)
  <2>1. CASE Exists(c)
    <3>1. page.stage = "read" /\ page.of = c /\ page.version = collection[c].version
      BY <1>2, <2>1 DEF SubmitCollection, UpToDate
    <3>2. page.live = collection[c].current
      BY <3>1 DEF CollectionsInv, PageIsHonest
    <3>3. Propose(c, members, TRUE, Live(page.live)) /\ collection' = Bumped(c)
      BY <1>2, <2>1 DEF SubmitCollection
    <3>4. Live(page.live) \in Known /\ Live(page.live).live = collection[c].current
      BY <1>1, <3>2
    <3> QED
      BY <3>3, <3>4, ProposeKeeps
  <2>2. CASE ~Exists(c)
    <3>1. collection[c].current = 0
      BY <2>2, NewHasNoneLive
    <3>2. Propose(c, members, TRUE, Live(0)) /\ collection' = Bumped(c)
      BY <1>2, <2>2 DEF SubmitCollection
    <3>3. Live(0) \in Known /\ Live(0).live = collection[c].current
      BY <1>1, <3>1
    <3> QED
      BY <3>2, <3>3, ProposeKeeps
  <2> QED
    BY <2>1, <2>2
<1>3. CASE \E enabled \in BOOLEAN : AdminUpdateCollection(c, members, enabled)
  <2>1. PICK enabled \in BOOLEAN : AdminUpdateCollection(c, members, enabled)
    BY <1>3
  <2>2. page.stage = "read" /\ page.of = c /\ page.version = collection[c].version
    BY <2>1 DEF AdminUpdateCollection, UpToDate
  <2>3. page.live = collection[c].current
    BY <2>2 DEF CollectionsInv, PageIsHonest
  <2>4. Propose(c, members, enabled, Live(page.live)) /\ collection' = Bumped(c)
    BY <2>1 DEF AdminUpdateCollection
  <2>5. Live(page.live) \in Known /\ Live(page.live).live = collection[c].current
    BY <1>1, <2>3
  <2> QED
    BY <2>4, <2>5, ProposeKeeps
<1>4. CASE DeleteCollection(c)
  <2> DEFINE kept == IF Pending(c) # 0 THEN revisions[c][Pending(c)].members
                     ELSE {r \in Resources : member[r] = c}
  <2>1. kept \in SUBSET Resources
    <3>1. CASE Pending(c) # 0
      <4>1. InState(c, "pending") # {}
        BY <3>1 DEF Pending
      <4>2. PICK i \in InState(c, "pending") : InState(c, "pending") = {i}
        BY <4>1 DEF CollectionsInv, WaitsForOne
      <4>3. i \in DOMAIN revisions[c] /\ i \in Nat
        BY DEF InState, CollectionsInv, CollectionsTypeOK
      <4>4. Pending(c) = i
        BY <4>2, <4>3 DEF Pending
      <4>5. revisions[c][i] \in Revision
        BY <4>3 DEF CollectionsInv, CollectionsTypeOK
      <4> QED
        BY <3>1, <4>4, <4>5 DEF Revision
    <3> QED
      BY <3>1
  <2>2. PICK old \in SUBSET Resources : old = kept
    BY <2>1
  <2>3. Propose(c, old, FALSE, NoVersion) /\ UNCHANGED collection
    BY <1>4, <2>2 DEF DeleteCollection
  <2> QED
    BY <1>1, <2>3, ProposeKeeps
<1> QED
  BY <1>2, <1>3, <1>4

\* The two reads of a page, of the owner's and of an administrator's.
LEMMA PageKeeps ==
  ASSUME CollectionsInv, NEW c \in Collections,
         OpenPage(c) \/ FinishPage(c) \/ OpenAdminPage(c) \/ FinishAdminPage(c)
  PROVE  CollectionsInv'
<1>1. UNCHANGED <<revisions, collection, member, governed, moderation>>
  BY DEF OpenPage, FinishPage, OpenAdminPage, FinishAdminPage
<1>2. \A d \in Collections : WaitsForOne(d)' /\ LiveIsApproved(d)'
  BY <1>1 DEF CollectionsInv, WaitsForOne, LiveIsApproved, InState
<1>3. collection[c] \in CollectionRecords
  BY DEF CollectionsInv, CollectionsTypeOK, CollectionRecords
<1>4. Pending(c) \in Nat
  <2>1. CASE InState(c, "pending") = {}
    BY <2>1 DEF Pending
  <2>2. CASE InState(c, "pending") # {}
    <3>1. PICK i \in InState(c, "pending") : InState(c, "pending") = {i}
      BY <2>2 DEF CollectionsInv, WaitsForOne
    <3>2. i \in Nat
      BY DEF InState, CollectionsInv, CollectionsTypeOK
    <3> QED
      BY <3>1, <3>2 DEF Pending
  <2> QED
    BY <2>1, <2>2
<1>5. page \in Pages /\ Blank \in Pages
  BY DEF CollectionsInv, CollectionsTypeOK, Pages, Blank
<1>6. collection[c].current \in Nat /\ collection[c].version \in Nat
  BY <1>3 DEF CollectionRecords
<1>7. CASE OpenPage(c)
  <2>1. page' \in Pages /\ page'.of = c
        /\ page'.version = collection[c].version /\ page'.live = collection[c].current
    BY <1>5, <1>6, <1>7 DEF OpenPage, Pages
  <2>2. PageIsHonest'
    BY <1>1, <1>6, <2>1 DEF PageIsHonest
  <2> QED
    BY <1>1, <1>2, <2>1, <2>2 DEF CollectionsInv, CollectionsTypeOK, Pages
<1>8. CASE FinishPage(c)
  <2>1. page' \in Pages /\ page'.of = page.of /\ page'.version = page.version
        /\ page'.live = page.live /\ page.stage = "version"
    BY <1>4, <1>5, <1>8 DEF FinishPage, Pages
  <2>2. PageIsHonest'
    BY <1>1, <2>1 DEF CollectionsInv, PageIsHonest
  <2> QED
    BY <1>1, <1>2, <2>1, <2>2 DEF CollectionsInv, CollectionsTypeOK, Pages
<1>9. CASE OpenAdminPage(c)
  <2>1. page' \in Pages /\ page'.stage = "revisions"
    BY <1>4, <1>5, <1>9 DEF OpenAdminPage, Pages
  <2>2. PageIsHonest'
    BY <2>1 DEF PageIsHonest
  <2> QED
    BY <1>1, <1>2, <2>1, <2>2 DEF CollectionsInv, CollectionsTypeOK, Pages
<1>10. CASE FinishAdminPage(c)
  <2>1. page' \in Pages /\ page'.of = c
        /\ page'.version = collection[c].version /\ page'.live = collection[c].current
    BY <1>5, <1>6, <1>10 DEF FinishAdminPage, Pages
  <2>2. PageIsHonest'
    BY <1>1, <1>6, <2>1 DEF PageIsHonest
  <2> QED
    BY <1>1, <1>2, <2>1, <2>2 DEF CollectionsInv, CollectionsTypeOK, Pages
<1> QED
  BY <1>7, <1>8, <1>9, <1>10

\* The review of the proposal that waits.
LEMMA ApproveKeeps ==
  ASSUME CollectionsInv, NEW c \in Collections, NEW i \in DOMAIN revisions[c], Approve(c, i)
  PROVE  CollectionsInv'
<1> USE CollectionsAssumption
<1> DEFINE n == Len(revisions[c])
           new == revisions[c][i]
           after(j) == IF j = i THEN [revisions[c][j] EXCEPT !.state = "approved"]
                       ELSE IF revisions[c][j].state = "approved"
                       THEN [revisions[c][j] EXCEPT !.state = "superseded"] ELSE revisions[c][j]
           live == collection[c]
<1>1. /\ revisions \in [Collections -> Seq(Revision)] /\ revisions[c] \in Seq(Revision)
      /\ n \in Nat /\ DOMAIN revisions[c] = 1..n /\ i \in 1..n /\ i # 0 /\ i \in Nat
      /\ \A j \in 1..n : revisions[c][j] \in Revision
      /\ collection \in [Collections -> CollectionRecords]
  BY DEF CollectionsInv, CollectionsTypeOK, CollectionRecords
<1>2. /\ new.state = "pending" /\ AllFree(c, i)
      /\ revisions' = [revisions EXCEPT ![c] = [j \in DOMAIN revisions[c] |-> after(j)]]
      /\ UNCHANGED <<moderation, page>>
  BY DEF Approve, InState
<1>3. \A r \in Revision, s \in {"approved", "superseded"} :
        LET x == [r EXCEPT !.state = s]
        IN  x \in Revision /\ x.state = s /\ x.members = r.members /\ x.enabled = r.enabled
  BY DEF Revision
<1>4. \A j \in 1..n : after(j) \in Revision
  BY <1>1, <1>3
<1>5. revisions' \in [Collections -> Seq(Revision)]
      /\ DOMAIN revisions'[c] = 1..n /\ (\A j \in 1..n : revisions'[c][j] = after(j))
      /\ \A d \in Collections : d # c => revisions'[d] = revisions[d]
  <2> DEFINE f == [j \in 1..n |-> after(j)]
  <2>1. f \in Seq(Revision)
    <3>1. \A j \in 1..n : f[j] \in Revision
      BY <1>4
    <3>2. DOMAIN f = 1..n /\ f = [j \in 1..n |-> f[j]]
      OBVIOUS
    <3> HIDE DEF f
    <3> QED
      BY <1>1, <3>1, <3>2, SequenceOf
  <2>2. revisions' = [revisions EXCEPT ![c] = f]
    BY <1>1, <1>2
  <2>3. DOMAIN f = 1..n /\ \A j \in 1..n : f[j] = after(j)
    OBVIOUS
  <2> HIDE DEF f, after
  <2> QED
    BY <1>1, <2>1, <2>2, <2>3
<1>6. /\ revisions'[c][i].state = "approved" /\ revisions'[c][i].members = new.members
      /\ revisions'[c][i].enabled = new.enabled
      /\ \A j \in 1..n : j # i => revisions'[c][j].state # "approved"
  <2>1. revisions'[c][i] = [new EXCEPT !.state = "approved"] /\ new \in Revision
    BY <1>1, <1>5
  <2>2. ASSUME NEW j \in 1..n, j # i PROVE revisions'[c][j].state # "approved"
    <3>1. revisions[c][j] \in Revision
      BY <1>1
    <3>2. revisions'[c][j] = IF revisions[c][j].state = "approved"
                             THEN [revisions[c][j] EXCEPT !.state = "superseded"] ELSE revisions[c][j]
      BY <1>5, <2>2
    <3> QED
      BY <1>3, <3>1, <3>2
  <2> QED
    BY <1>3, <2>1, <2>2
<1>7. \A j \in 1..n : revisions'[c][j].state # "pending"
  <2>1. \A j \in 1..n : revisions[c][j].state = "pending" => j = i
    BY <1>1, <1>2 DEF CollectionsInv, WaitsForOne, InState
  <2> QED
    BY <1>1, <1>3, <1>5, <2>1
<1> HIDE DEF after
<1>8. new \in Revision /\ new.members \subseteq Resources /\ new.enabled \in BOOLEAN
  BY <1>1 DEF Revision
<1>9. member' = [r \in Resources |-> IF r \in new.members THEN c
                                     ELSE IF member[r] = c THEN NoCollection ELSE member[r]]
  BY <1>2 DEF Approve, AllFree
<1>10. /\ member' \in [Resources -> Collections \union {NoCollection}]
       /\ \A r \in Resources : member'[r] = c <=> r \in new.members
       /\ \A r \in Resources, d \in Collections : d # c => (member'[r] = d <=> member[r] = d)
  <2>1. \A r \in new.members : member[r] \in {NoCollection, c}
    BY <1>2 DEF AllFree, Free
  <2>2. member \in [Resources -> Collections \union {NoCollection}]
    BY DEF CollectionsInv, CollectionsTypeOK
  <2> QED
    BY <1>8, <1>9, <2>1, <2>2
<1>11. /\ collection' \in [Collections -> CollectionRecords]
       /\ collection'[c].current = i /\ collection'[c].enabled = new.enabled
       /\ collection'[c].version = collection[c].version + 1
       /\ \A d \in Collections : d # c => collection'[d] = collection[d]
  <2>1. live.version + 1 \in Nat
    BY <1>1 DEF CollectionRecords
  <2> DEFINE e == [current |-> i, enabled |-> new.enabled, version |-> live.version + 1]
  <2>2. collection' = [collection EXCEPT ![c] = e]
    BY DEF Approve, NextVersion
  <2>3. e \in CollectionRecords
    BY <1>1, <1>8, <2>1 DEF CollectionRecords
  <2>4. e.current = i /\ e.enabled = new.enabled /\ e.version = live.version + 1
    OBVIOUS
  <2> HIDE DEF e
  <2>5. /\ collection' \in [Collections -> CollectionRecords] /\ collection'[c] = e
        /\ \A d \in Collections : d # c => collection'[d] = collection[d]
    BY <1>1, <2>2, <2>3
  <2> QED
    BY <2>4, <2>5
<1>12. governed' \in [Collections -> SUBSET Resources] /\ governed'[c] = {}
       /\ \A d \in Collections : d # c => governed'[d] = governed[d]
  BY DEF Approve, CollectionsInv, CollectionsTypeOK
<1>13. CollectionsTypeOK'
  BY <1>2, <1>5, <1>10, <1>11, <1>12 DEF CollectionsInv, CollectionsTypeOK, CollectionRecords
<1>14. PageIsHonest'
  <2>1. collection[c].version \in Nat /\ page.version \in Nat
    BY <1>1 DEF CollectionsInv, CollectionsTypeOK, CollectionRecords
  <2> QED
    BY <1>2, <1>11, <2>1 DEF CollectionsInv, PageIsHonest
<1>15. ASSUME NEW d \in Collections PROVE WaitsForOne(d)' /\ LiveIsApproved(d)'
  <2>1. CASE d # c
    <3>1. /\ revisions'[d] = revisions[d] /\ collection'[d] = collection[d] /\ governed'[d] = governed[d]
          /\ \A r \in Resources : member'[r] = d <=> member[r] = d
      BY <1>5, <1>10, <1>11, <1>12, <2>1
    <3>2. WaitsForOne(d) /\ LiveIsApproved(d)
      BY DEF CollectionsInv
    <3> QED
      BY <3>1, <3>2 DEF WaitsForOne, LiveIsApproved, InState
  <2>2. CASE d = c
    <3>1. InState(c, "pending")' = {} /\ InState(c, "approved")' = {i}
      BY <1>1, <1>5, <1>6, <1>7 DEF InState
    <3>2. WaitsForOne(c)'
      BY <3>1 DEF WaitsForOne
    <3>3. LiveIsApproved(c)'
      BY <1>1, <1>6, <1>10, <1>11, <3>1 DEF LiveIsApproved
    <3> QED
      BY <2>2, <3>2, <3>3
  <2> QED
    BY <2>1, <2>2
<1> QED
  BY <1>13, <1>14, <1>15 DEF CollectionsInv

(* A revision is refused; the live one stays. *)
LEMMA RejectKeeps ==
  ASSUME CollectionsInv, NEW c \in Collections, NEW i \in DOMAIN revisions[c], Reject(c, i)
  PROVE  CollectionsInv'
<1> DEFINE n == Len(revisions[c])
<1>1. /\ revisions \in [Collections -> Seq(Revision)] /\ revisions[c] \in Seq(Revision)
      /\ n \in Nat /\ DOMAIN revisions[c] = 1..n /\ i \in 1..n
      /\ revisions[c][i] \in Revision /\ revisions[c][i].state = "pending"
  BY DEF CollectionsInv, CollectionsTypeOK, Reject, InState
<1> DEFINE rejected == [revisions[c][i] EXCEPT !.state = "rejected"]
           f == [revisions[c] EXCEPT ![i] = rejected]
<1>2. rejected \in Revision /\ rejected.state = "rejected"
  BY <1>1 DEF Revision
<1>3. revisions' = [revisions EXCEPT ![c] = f] /\ UNCHANGED <<collection, member, governed, moderation, page>>
  BY DEF Reject
<1> HIDE DEF rejected
<1>4. f \in Seq(Revision) /\ DOMAIN f = 1..n /\ f[i] = rejected
      /\ \A j \in 1..n : j # i => f[j] = revisions[c][j]
  BY <1>1, <1>2
<1> HIDE DEF f
<1>5. revisions' \in [Collections -> Seq(Revision)] /\ revisions'[c] = f
      /\ \A d \in Collections : d # c => revisions'[d] = revisions[d]
  BY <1>1, <1>3, <1>4
<1>6. CollectionsTypeOK' /\ PageIsHonest'
  BY <1>3, <1>5 DEF CollectionsInv, CollectionsTypeOK, PageIsHonest
<1>7. ASSUME NEW d \in Collections PROVE WaitsForOne(d)' /\ LiveIsApproved(d)'
  <2>1. WaitsForOne(d) /\ LiveIsApproved(d)
    BY DEF CollectionsInv
  <2>2. CASE d # c
    BY <1>3, <1>5, <2>1, <2>2 DEF WaitsForOne, LiveIsApproved, InState
  <2>3. CASE d = c
    <3>1. InState(c, "pending")' \subseteq InState(c, "pending") /\ i \notin InState(c, "pending")'
      BY <1>1, <1>2, <1>4, <1>5 DEF InState
    <3>2. \A j \in InState(c, "pending")' : revisions'[c][j] = revisions[c][j]
      BY <1>1, <1>4, <1>5, <3>1 DEF InState
    <3>3. InState(c, "approved")' = InState(c, "approved") /\ i \notin InState(c, "approved")
      BY <1>1, <1>2, <1>4, <1>5 DEF InState
    <3>4. WaitsForOne(c)'
      BY <1>3, <2>1, <2>3, <3>1, <3>2 DEF WaitsForOne
    <3>5. LiveIsApproved(c)'
      <4>1. collection[c].current # 0 => revisions'[c][collection[c].current] = revisions[c][collection[c].current]
        BY <1>1, <1>4, <1>5, LiveIsThere
      <4> QED
        BY <1>3, <2>1, <2>3, <3>3, <4>1 DEF LiveIsApproved
    <3> QED
      BY <2>3, <3>4, <3>5
  <2> QED
    BY <2>2, <2>3
<1> QED
  BY <1>6, <1>7 DEF CollectionsInv

\* Resources that are moved by a revision of their own, or moderated.
LEMMA ResourceKeeps ==
  ASSUME CollectionsInv, NEW r \in Resources,
         \/ \E state \in States : ModerateMember(r, state)
         \/ \E c \in Collections \union {NoCollection} : Govern(r, c)
  PROVE  CollectionsInv'
<1>1. UNCHANGED <<revisions, collection, page>>
  BY DEF ModerateMember, Govern
<1>2. CollectionsTypeOK'
  <2>1. moderation' \in [Resources -> States]
    BY DEF CollectionsInv, CollectionsTypeOK, ModerateMember, Govern
  <2>2. member' \in [Resources -> Collections \union {NoCollection}]
    BY DEF CollectionsInv, CollectionsTypeOK, ModerateMember, Govern
  <2>3. governed' \in [Collections -> SUBSET Resources]
    BY DEF CollectionsInv, CollectionsTypeOK, ModerateMember, Govern
  <2> QED
    BY <1>1, <2>1, <2>2, <2>3 DEF CollectionsInv, CollectionsTypeOK
<1>3. \A d \in Collections : governed[d] \subseteq governed'[d]
  BY DEF ModerateMember, Govern
<1>4. \A s \in Resources, d \in Collections : s \in Resources \ governed'[d] => member'[s] = member[s]
  BY DEF ModerateMember, Govern, CollectionsInv, CollectionsTypeOK
<1>5. \A d \in Collections : WaitsForOne(d)' /\ LiveIsApproved(d)'
  BY <1>1, <1>3, <1>4 DEF CollectionsInv, WaitsForOne, LiveIsApproved, InState
<1>6. PageIsHonest'
  BY <1>1 DEF CollectionsInv, PageIsHonest
<1> QED
  BY <1>2, <1>5, <1>6 DEF CollectionsInv

\* The inductive invariant of collections.
THEOREM CollectionsInvariance == CollectionsSpec => []CollectionsInv
<1>1. CollectionsInit => CollectionsInv
  <2> SUFFICES ASSUME CollectionsInit PROVE CollectionsInv
    OBVIOUS
  <2>1. CollectionsTypeOK
    BY DEF CollectionsInit, CollectionsTypeOK, Blank, States
  <2>2. PageIsHonest /\ \A c \in Collections : WaitsForOne(c) /\ LiveIsApproved(c)
    BY DEF CollectionsInit, PageIsHonest, Blank, WaitsForOne, LiveIsApproved, InState
  <2> QED
    BY <2>1, <2>2 DEF CollectionsInv
<1>2. CollectionsInv /\ [CollectionsNext]_collectionsVars => CollectionsInv'
  <2>1. ASSUME CollectionsInv, CollectionsNext PROVE CollectionsInv'
    <3>1. \A c \in Collections : DeleteCollection(c) => CollectionsInv'
      BY <2>1, SubmitKeeps
    <3> QED
      BY <2>1, <3>1, PageKeeps, SubmitKeeps, ApproveKeeps, RejectKeeps, ResourceKeeps DEF CollectionsNext
  <2>2. ASSUME CollectionsInv, UNCHANGED collectionsVars PROVE CollectionsInv'
    BY <2>2 DEF collectionsVars, CollectionsInv, CollectionsTypeOK, PageIsHonest, WaitsForOne,
                LiveIsApproved, InState
  <2> QED
    BY <2>1, <2>2
<1> QED
  BY <1>1, <1>2, PTL DEF CollectionsSpec

\* A collection is what its last approved proposal says, no proposal overlooks what
\* became live since the version it names was read, and a visible resource is shown
\* once, for any number of collections and resources and proposals without bound.
THEOREM CollectionsAreAsApprovedAlways == CollectionsSpec => []CollectionsAreAsApproved
<1>1. ASSUME CollectionsInv, NEW c \in Collections PROVE NothingOverlooked(c)
  <2> SUFFICES ASSUME NEW i \in InState(c, "pending")
               PROVE  /\ i = Pending(c) /\ Cardinality(InState(c, "pending")) = 1
                      /\ revisions[c][i].base = collection[c].current
                      /\ revisions[c][i].known.named =>
                           revisions[c][i].known.live = collection[c].current
    BY DEF NothingOverlooked
  <2>1. /\ InState(c, "pending") = {i} /\ revisions[c][i].base = collection[c].current
        /\ revisions[c][i].known.named => revisions[c][i].known.live = collection[c].current
    BY <1>1 DEF CollectionsInv, WaitsForOne
  <2>2. i \in Nat
    BY <1>1 DEF InState, CollectionsInv, CollectionsTypeOK
  <2>3. i = Pending(c)
    BY <2>1, <2>2 DEF Pending
  <2>4. Cardinality(InState(c, "pending")) = 1
    BY <2>1, FS_Singleton
  <2> QED
    BY <2>1, <2>3, <2>4
<1>2. ASSUME CollectionsInv, NEW r \in Resources, moderation[r] = "visible"
      PROVE  OwnCard(r) <=> ~\E c \in Collections : r \in PublicMembers(c)
  <2>1. member[r] \in Collections \union {NoCollection} /\ NoCollection \notin Collections
    BY <1>2, CollectionsAssumption DEF CollectionsInv, CollectionsTypeOK
  <2>2. \A c \in Collections : r \in PublicMembers(c) <=> member[r] = c /\ Stands(c)
    BY <1>2 DEF PublicMembers, Stands
  <2> QED
    BY <1>2, <2>1, <2>2 DEF OwnCard
<1>3. CollectionsInv => CollectionsAreAsApproved
  BY <1>1, <1>2 DEF CollectionsInv, CollectionsAreAsApproved
<1> QED
  BY <1>3, CollectionsInvariance, PTL

-----------------------------------------------------------------------------
(* The eight modules in one *)

(* Every step of the composition is a step of each module or leaves it alone. *)
LEMMA PeopleSteps ==
  ASSUME [Next]_vars
  PROVE  /\ [SessionsNext]_sessionsVars /\ [ConsoleNext]_consoleVars /\ [GrantsNext]_grantsVars
         /\ [LinkNext]_linkVars /\ [CoinsNext]_coinsVars /\ [CommentsNext]_commentsVars
         /\ [FeedbackNext]_feedbackVars /\ [CollectionsNext]_collectionsVars
<1>1. CASE Next
  BY <1>1 DEF Next
<1>2. CASE UNCHANGED vars
  BY <1>2 DEF vars
<1> QED
  BY <1>1, <1>2

(* The modules put in one implement each of the eight: what is proved of a module
   alone holds of it beside the others. *)
THEOREM PeopleImplementEach ==
  Spec => /\ SessionsSpec /\ ConsoleSpec /\ GrantsSpec /\ LinkSpec
          /\ CoinsSpec /\ CommentsSpec /\ FeedbackSpec /\ CollectionsSpec
<1>1. Init => /\ SessionsInit /\ ConsoleInit /\ GrantsInit /\ LinkInit
              /\ CoinsInit /\ CommentsInit /\ FeedbackInit /\ CollectionsInit
  BY DEF Init
<1>2. [Next]_vars => /\ [SessionsNext]_sessionsVars /\ [ConsoleNext]_consoleVars
                     /\ [GrantsNext]_grantsVars /\ [LinkNext]_linkVars /\ [CoinsNext]_coinsVars
                     /\ [CommentsNext]_commentsVars /\ [FeedbackNext]_feedbackVars
                     /\ [CollectionsNext]_collectionsVars
  BY PeopleSteps
<1> QED
  BY <1>1, <1>2, PTL DEF Spec, SessionsSpec, ConsoleSpec, GrantsSpec, LinkSpec,
       CoinsSpec, CommentsSpec, FeedbackSpec, CollectionsSpec

(* Every variable of the eight modules keeps its type. *)
THEOREM PeopleTypeCorrect == Spec => []TypeOK
<1>1. SessionsInv => SessionsTypeOK
  BY DEF SessionsInv
<1>2. ConsoleInv => ConsoleTypeOK
  BY DEF ConsoleInv
<1>3. CollectionsInv => CollectionsTypeOK
  BY DEF CollectionsInv
<1>4. SessionsTypeOK /\ ConsoleTypeOK /\ GrantsTypeOK /\ LinkTypeOK /\ CoinsTypeOK
        /\ CommentsTypeOK /\ FeedbackTypeOK /\ CollectionsTypeOK => TypeOK
  BY DEF TypeOK
<1> QED
  BY <1>1, <1>2, <1>3, <1>4, PeopleImplementEach, SessionsInvariance, ConsoleInvariance,
     GrantsTypeCorrect, LinkTypeCorrect, CoinsTypeCorrect, CommentsTypeCorrect,
     FeedbackTypeCorrect, CollectionsInvariance, PTL
=============================================================================
