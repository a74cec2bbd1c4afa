---------------------------- MODULE PublishProofs ----------------------------
(***************************************************************************)
(* Proofs about the clients of the two platforms: publishBandBBS and the    *)
(* submissions to the catalog of AstroBox; and about the run of MCPublish,  *)
(* which puts them in one.                                                  *)
(***************************************************************************)
EXTENDS MCPublish, FiniteSetTheorems, WellFoundedInduction, TLAPS

-----------------------------------------------------------------------------
(* Sequences *)

\* Induction, for a set of numbers.
LEMMA NumbersInduct ==
  ASSUME NEW T \in SUBSET Nat, 0 \in T, \A n \in T : n + 1 \in T
  PROVE  T = Nat
<1> SUFFICES ASSUME Nat \ T # {} PROVE FALSE
  OBVIOUS
<1> DEFINE D == Nat \ T
<1>1. \A x, y \in Nat : x < y => <<x, y>> \in OpToRel(<, Nat)
  BY DEF OpToRel
<1>2. D # {} /\ D \subseteq Nat
  OBVIOUS
<1>3. PICK m \in D : \A n \in D : ~(<<n, m>> \in OpToRel(<, Nat))
  <2> HIDE DEF D
  <2> QED BY <1>2, NatLessThanWellFounded, WFMin
<1>4. \A n \in D : ~(n < m)
  BY <1>1, <1>2, <1>3
<1>5. m # 0 /\ m - 1 \in Nat
  OBVIOUS
<1>6. m - 1 \in T
  BY <1>4, <1>5
<1>7. (m - 1) + 1 = m
  OBVIOUS
<1>8. m \in T
  BY <1>6, <1>7
<1> QED
  BY <1>8

\* A list of the places S in order, each of them once.
Enumerates(o, S) ==
  /\ o \in [1..Cardinality(S) -> S]
  /\ \A i, j \in 1..Cardinality(S) : i < j => o[i] < o[j]
  /\ \A x \in S : \E i \in 1..Cardinality(S) : o[i] = x

\* There are finitely many places in a sequence.
LEMMA PlacesAreFinite ==
  ASSUME NEW n \in Nat, NEW S \in SUBSET (1..n)
  PROVE  IsFiniteSet(S)
<1>1. 1 \in Int /\ n \in Int
  OBVIOUS
<1>2. IsFiniteSet(1..n)
  BY <1>1, FS_Interval
<1> QED
  BY <1>2, FS_Subset

\* The places in a sequence can be put in order.
LEMMA PlacesHaveAnOrder ==
  ASSUME NEW n \in Nat, NEW S \in SUBSET (1..n)
  PROVE  \E o : Enumerates(o, S)
<1> DEFINE N == {m \in Nat : \A P \in SUBSET (1..m) : \E o : Enumerates(o, P)}
<1>1. 0 \in N
  <2>1. ASSUME NEW P \in SUBSET (1..0) PROVE \E o : Enumerates(o, P)
    <3>0. P = {}
      OBVIOUS
    <3>1. P = {} /\ Cardinality(P) = 0
      BY <3>0, FS_EmptySet
    <3>2. [i \in 1..0 |-> 0] \in [1..0 -> P]
      OBVIOUS
    <3>3. Enumerates([i \in 1..0 |-> 0], P)
      BY <3>1, <3>2 DEF Enumerates
    <3> QED
      BY <3>3
  <2> QED
    BY <2>1
<1>2. ASSUME NEW m \in N PROVE m + 1 \in N
  <2>1. ASSUME NEW P \in SUBSET (1..(m + 1)) PROVE \E o : Enumerates(o, P)
    <3>1. CASE m + 1 \notin P
      <4>1. P \in SUBSET (1..m)
        BY <3>1
      <4> QED
        BY <4>1
    <3>2. CASE m + 1 \in P
      <4> DEFINE R == P \ {m + 1}
      <4>1. R \in SUBSET (1..m) /\ \A x \in R : x \in Nat /\ x < m + 1
        OBVIOUS
      <4>2. PICK o : Enumerates(o, R)
        BY <4>1
      <4>3. IsFiniteSet(P)
        <5>1. m + 1 \in Nat
          OBVIOUS
        <5> QED
          BY <5>1, PlacesAreFinite
      <4>4. PICK c \in Nat : c = Cardinality(R) /\ Cardinality(P) = c + 1
        <5>1. Cardinality(P) \in Nat
          BY <4>3, FS_CardinalityType
        <5>2. IsFiniteSet(R) /\ Cardinality(R) = Cardinality(P) - 1
          BY <3>2, <4>3, FS_RemoveElement
        <5>3. Cardinality(R) \in Nat
          BY <5>2, FS_CardinalityType
        <5>4. Cardinality(P) = Cardinality(R) + 1
          BY <5>1, <5>2, <5>3
        <5> QED
          BY <5>3, <5>4
      <4> DEFINE q == [i \in 1..(c + 1) |-> IF i = c + 1 THEN m + 1 ELSE o[i]]
      <4>5. \A i \in 1..c : o[i] \in R /\ i \in 1..(c + 1) /\ i # c + 1
        <5>1. o \in [1..c -> R]
          BY <4>2, <4>4 DEF Enumerates
        <5> HIDE DEF R
        <5> QED
          BY <4>4, <5>1
      <4>6. \A i \in 1..(c + 1) : i \in 1..c \/ i = c + 1
        BY <4>4
      <4>7. q \in [1..(c + 1) -> P]
        BY <3>2, <4>5, <4>6
      <4>8. \A i, j \in 1..(c + 1) : i < j => q[i] < q[j]
        <5>1. \A i, j \in 1..c : i < j => o[i] < o[j]
          BY <4>2, <4>4 DEF Enumerates
        <5>2. \A i, j \in 1..(c + 1) : i < j => i \in 1..c
          BY <4>4
        <5> HIDE DEF R
        <5> QED
          BY <4>1, <4>5, <4>6, <5>1, <5>2
      <4>9. \A x \in P : \E i \in 1..(c + 1) : q[i] = x
        <5>1. \A x \in R : \E i \in 1..c : o[i] = x
          BY <4>2, <4>4 DEF Enumerates
        <5>2. q[c + 1] = m + 1 /\ c + 1 \in 1..(c + 1)
          OBVIOUS
        <5>3. \A i \in 1..c : q[i] = o[i]
          BY <4>5
        <5>4. \A x \in P : x = m + 1 \/ x \in R
          OBVIOUS
        <5> HIDE DEF R, q
        <5> QED
          BY <4>5, <5>1, <5>2, <5>3, <5>4
      <4> HIDE DEF q, R
      <4> QED
        BY <4>4, <4>7, <4>8, <4>9 DEF Enumerates
    <3> QED
      BY <3>1, <3>2
  <2> QED
    BY <2>1
<1>3. N = Nat
  <2> HIDE DEF N
  <2> QED BY <1>1, <1>2, NumbersInduct DEF N
<1> QED
  BY <1>3

\* An order of places meets each of them once.
LEMMA InOrderMeetsAll ==
  ASSUME NEW n \in Nat, NEW S \in SUBSET (1..n)
  PROVE  Enumerates(InOrder(S), S) /\ Cardinality(S) \in Nat
<1> DEFINE Increases(o) == \A i, j \in 1..Cardinality(S) : i < j => o[i] < o[j]
           q == CHOOSE o \in [1..Cardinality(S) -> S] : Increases(o)
<1>0. IsFiniteSet(S)
  BY PlacesAreFinite
<1>1. IsFiniteSet(S) /\ Cardinality(S) \in Nat
  BY <1>0, FS_CardinalityType
<1>2. PICK o : Enumerates(o, S)
  BY PlacesHaveAnOrder
<1>3. o \in [1..Cardinality(S) -> S] /\ Increases(o)
  BY <1>2 DEF Enumerates
<1>4. q \in [1..Cardinality(S) -> S] /\ Increases(q)
  <2> HIDE DEF Increases
  <2> QED BY <1>3
<1>5. InOrder(S) = q
  BY DEF InOrder
<1> HIDE DEF q
<1>6. IsFiniteSet(1..Cardinality(S)) /\ Cardinality(1..Cardinality(S)) = Cardinality(S)
  BY <1>1, FS_Interval
<1>7. \A i, j \in 1..Cardinality(S) : q[i] = q[j] => i = j
  <2>1. ASSUME NEW i \in 1..Cardinality(S), NEW j \in 1..Cardinality(S), q[i] = q[j], i # j PROVE FALSE
    <3>1. q[i] \in Nat /\ q[j] \in Nat
      <4>1. q[i] \in S /\ q[j] \in S
        BY <1>4
      <4>2. S \subseteq Nat
        OBVIOUS
      <4> QED
        BY <4>1, <4>2
    <3>2. i < j \/ j < i
      BY <1>1, <2>1
    <3> QED
      BY <1>4, <2>1, <3>1, <3>2
  <2> QED
    BY <2>1
<1>8. q \in Injection(1..Cardinality(S), S)
  BY <1>4, <1>7 DEF Injection, IsInjective
<1>9. q \in Surjection(1..Cardinality(S), S)
  BY <1>1, <1>6, <1>8, FS_Injection
<1>10. Enumerates(q, S)
  BY <1>4, <1>9 DEF Surjection, Enumerates
<1> QED
  BY <1>1, <1>5, <1>10

-----------------------------------------------------------------------------
(* publishBandBBS *)

\* What is known of the types.
Names == {"imported"} \union {p.name : p \in Plans}
ForumRecords ==
  [category : Categories, name : Names, versions : Seq(Nat), updates : Seq(Nat)]

\* The approved revision is one of those submitted.
RevisionsKnown == plan \in Seq(Plans) /\ Len(plan) <= MaxRevisions /\ current \in 0..Len(plan)

\* There is no publication, and nothing to dispatch, before the first approval.
AttemptsKnown ==
  /\ state \in PublicationStates /\ claims \in 0..MaxClaims
  /\ pc \in {"idle", "choosing", "versioning", "updating", "failing"}
  /\ todo \subseteq Categories /\ category \in Categories \union {None}
  /\ current = 0 => state = "none" /\ pc = "idle"
  /\ state = "none" => current = 0

ResultsKnown ==
  /\ binding \in [Categories -> 0..MaxForum] /\ existing \in [Categories -> 0..MaxForum]
  /\ progress \in [Categories -> CategoryResults] /\ result \in [Categories -> CategoryResults]

\* A forum resource shows versions and updates of revisions approved so far.
ForumKnown ==
  /\ forum \in Seq(ForumRecords) /\ Len(forum) <= MaxForum
  /\ \A f \in 1..Len(forum) :
       /\ \A i \in 1..Len(forum[f].versions) : forum[f].versions[i] <= current
       /\ \A i \in 1..Len(forum[f].updates) : forum[f].updates[i] \in 1..current

\* The ids a category is known by name forum resources of that category.
Pointing ==
  \A c \in Categories, f \in 1..MaxForum :
    f \in {binding[c], existing[c], progress[c].resource, result[c].resource} =>
      f <= Len(forum) /\ forum[f].category = c

\* What forum resource f shows of the current revision: its version or one that
\* looks the same, no second one of the same version string, its update.
Shows(f) ==
  (\E i \in 1..Len(forum[f].versions) : forum[f].versions[i] = current) \/ HasTwin(current)
Single(f) ==
  plan[current].version # "" /\ ~plan[current].overwrite =>
    \E i \in 1..Len(forum[f].versions) :
      \A j \in 1..Len(forum[f].versions) : SameVersion(forum[f].versions[j]) <=> j = i
Told(f) ==
  plan[current].notes # "" =>
    \E i \in 1..Len(forum[f].updates) : plan[forum[f].updates[i]].notes = plan[current].notes

\* What is recorded of the version and the update is so.
Evident ==
  \A c \in Categories, f \in 1..MaxForum :
    /\ result[c].resource = f =>
         (result[c].version => Shows(f) /\ Single(f)) /\ (result[c].update => Told(f))
    /\ progress[c].resource = f =>
         (progress[c].version => Shows(f) /\ Single(f)) /\ (progress[c].update => Told(f))

\* How what the attempt reached relates to what was reached before it, and both
\* to the binding.
Reached ==
  \A c \in Categories :
    /\ result[c].version \/ result[c].update => result[c].resource # 0
    /\ progress[c].version \/ progress[c].update => progress[c].resource # 0
    /\ pc = "idle" => result[c] = Nothing
    /\ current = 0 => progress[c] = Nothing
    /\ pc # "idle" /\ progress[c].version => result[c].version
    /\ pc # "idle" /\ progress[c].resource # 0 => result[c].resource = progress[c].resource
    /\ progress[c].resource # 0 => binding[c] \in {0, progress[c].resource}
    /\ result[c].resource # 0 => existing[c] \in {0, result[c].resource}

\* The category in hand has its resource, then its version; a category done with
\* has both of what the revision asks for.
CategoryKnown ==
  /\ pc \in {"versioning", "updating"} => category \in Categories /\ result[category].resource # 0
  /\ pc = "updating" => result[category].version
  /\ pc \in {"choosing", "versioning", "updating"} =>
       \A c \in Categories \ todo :
         result[c].version /\ (plan[current].notes # "" => result[c].update)

\* A claimed category is bound to the resource imported for it, once the first
\* revision was submitted, whatever is forgotten or written over.
ClaimedStay ==
  \A c \in Claimed :
    /\ ClaimedBinding[c] \in 1..Len(forum) /\ forum[ClaimedBinding[c]].category = c
    /\ plan # <<>> => binding[c] = ClaimedBinding[c]
    /\ pc # "idle" => existing[c] = ClaimedBinding[c]

\* The resource keeps its name.
OneName == \A m, n \in 1..Len(plan) : plan[m].name = plan[n].name

\* While the name stays, a category has its claimed forum resource, or the only
\* one of the name.
Once ==
  OneName =>
    \A f \in 1..Len(forum) :
      /\ forum[f].category \in Claimed => f = ClaimedBinding[forum[f].category]
      /\ forum[f].category \notin Claimed =>
           /\ plan # <<>> /\ forum[f].name = plan[1].name
           /\ \A g \in 1..Len(forum) : forum[g].category = forum[f].category => g = f

\* The part of the invariant that the effects of a step follow from.
Known == RevisionsKnown /\ AttemptsKnown /\ ResultsKnown /\ ForumKnown /\ Pointing /\ CategoryKnown

\* What a step leaves of the forum.
ForumMoves ==
  /\ forum' \in Seq(ForumRecords) /\ Len(forum) <= Len(forum') /\ Len(forum') <= MaxForum
  /\ \A f \in 1..Len(forum) :
       /\ forum'[f].category = forum[f].category
       /\ forum'[f].name = forum[f].name \/ (pc = "choosing" /\ forum'[f].name = plan[current].name)
       /\ \/ forum'[f].versions = forum[f].versions
          \/ /\ pc = "versioning" /\ f = result[category].resource /\ ~result[category].version
             /\ \A i \in 1..Len(forum'[f].versions) : forum'[f].versions[i] <= current
       /\ \/ forum'[f].updates = forum[f].updates
          \/ pc = "updating" /\ forum'[f].updates = Append(forum[f].updates, current)
  /\ Len(forum') # Len(forum) =>
       /\ pc = "choosing" /\ Len(forum') = Len(forum) + 1
       /\ \E c \in Categories :
            /\ existing[c] = 0 /\ result[c].resource = 0 /\ Found(c) = {}
            /\ forum'[Len(forum) + 1] = ForumResource(c, plan[current].name, <<current>>)

\* A sequence with one element set anew.
LEMMA OnePlaceChanges ==
  ASSUME NEW R, NEW s \in Seq(R), NEW i \in 1..Len(s), NEW r \in R
  PROVE  /\ [s EXCEPT ![i] = r] \in Seq(R) /\ Len([s EXCEPT ![i] = r]) = Len(s)
         /\ \A j \in 1..Len(s) : [s EXCEPT ![i] = r][j] = IF j = i THEN r ELSE s[j]
OBVIOUS

\* There is a plan of the approved revision.
LEMMA PlanOfCurrent ==
  ASSUME RevisionsKnown, current # 0
  PROVE  /\ current \in Nat /\ current \in 1..Len(plan) /\ plan[current] \in Plans
         /\ plan[current].name \in Names /\ plan[current].version \in STRING
         /\ plan[current].overwrite \in BOOLEAN /\ plan[current].notes \in STRING
<1>1. current \in 1..Len(plan) /\ current \in Nat /\ plan[current] \in Plans
  BY DEF RevisionsKnown
<1>2. plan[current] \in PlanType
  BY <1>1, DispatchAssumption
<1>3. plan[current].name \in Names
  BY <1>1 DEF Names
<1> QED
  BY <1>1, <1>2, <1>3 DEF PlanType

\* A post creates a forum resource, when none is known or found, or renames one.
LEMMA Posts ==
  ASSUME Known, pc = "choosing", NEW c \in Categories, NEW f \in Target(c),
         f = 0 => Len(forum) < MaxForum, forum' = Posted(c, f)
  PROVE  ForumMoves
<1>1. current # 0
  BY DEF Known, AttemptsKnown
<1>2. plan[current].name \in Names /\ current \in Nat
  BY <1>1, PlanOfCurrent DEF Known
<1>3. forum \in Seq(ForumRecords) /\ Len(forum) <= MaxForum /\ Len(forum) \in Nat /\ MaxForum \in Nat
  BY DispatchAssumption DEF Known, ForumKnown
<1>4. CASE f = 0
  <2> DEFINE r == ForumResource(c, plan[current].name, <<current>>)
  <2>1. r \in ForumRecords
    BY <1>2 DEF ForumRecords, ForumResource
  <2>2. forum' = Append(forum, r)
    BY <1>4 DEF Posted, Plan
  <2> HIDE DEF r
  <2>3. forum' \in Seq(ForumRecords) /\ Len(forum') = Len(forum) + 1 /\ forum'[Len(forum) + 1] = r
        /\ \A g \in 1..Len(forum) : forum'[g] = forum[g]
    BY <1>3, <2>1, <2>2
  <2>4. existing[c] = 0 /\ result[c].resource = 0 /\ Found(c) = {}
    <3>1. \A n \in Found(c) : n # 0
      BY <1>3 DEF Found
    <3> QED
      BY <1>4, <3>1 DEF Target
  <2>5. Len(forum') <= MaxForum
    BY <1>3, <1>4, <2>3
  <2> QED
    BY <1>3, <2>3, <2>4, <2>5 DEF ForumMoves, r
<1>5. CASE f # 0
  <2>1. f \in 1..Len(forum)
    <3>1. existing[c] \in 0..MaxForum /\ result[c].resource \in 0..MaxForum
      BY DEF Known, ResultsKnown, CategoryResults
    <3>2. CASE f = existing[c] \/ f = result[c].resource
      BY <1>3, <1>5, <3>1, <3>2 DEF Known, Pointing
    <3>3. CASE f \in Found(c)
      BY <1>3, <3>3 DEF Found
    <3> QED
      BY <1>5, <3>2, <3>3 DEF Target
  <2>2. forum' = [forum EXCEPT ![f].name = plan[current].name]
    BY <1>5 DEF Posted, Plan
  <2>3. \A r \in ForumRecords :
          /\ [r EXCEPT !.name = plan[current].name] \in ForumRecords
          /\ [r EXCEPT !.name = plan[current].name].name = plan[current].name
          /\ [r EXCEPT !.name = plan[current].name].category = r.category
          /\ [r EXCEPT !.name = plan[current].name].versions = r.versions
          /\ [r EXCEPT !.name = plan[current].name].updates = r.updates
    BY <1>2 DEF ForumRecords
  <2>4. forum[f] \in ForumRecords /\ forum' = [forum EXCEPT ![f] = [forum[f] EXCEPT !.name = plan[current].name]]
    BY <1>3, <2>1, <2>2
  <2>5. forum' \in Seq(ForumRecords) /\ Len(forum') = Len(forum)
    BY <1>3, <2>1, <2>3, <2>4
  <2>6. \A g \in 1..Len(forum) :
          forum'[g] = IF g = f THEN [forum[f] EXCEPT !.name = plan[current].name] ELSE forum[g]
    BY <1>3, <2>1, <2>4
  <2>7. \A g \in 1..Len(forum) :
          /\ forum'[g].category = forum[g].category
          /\ forum'[g].name = forum[g].name \/ forum'[g].name = plan[current].name
          /\ forum'[g].versions = forum[g].versions /\ forum'[g].updates = forum[g].updates
    BY <2>3, <2>4, <2>6
  <2> QED
    BY <1>3, <2>5, <2>7 DEF ForumMoves
<1> QED
  BY <1>4, <1>5

\* The versions of the resource in hand change, nothing else.
LEMMA VersionsChange ==
  ASSUME Known, pc = "versioning", ~result[category].version, NEW v \in Seq(Nat),
         \A i \in 1..Len(v) : v[i] <= current,
         forum' = [forum EXCEPT ![result[category].resource].versions = v]
  PROVE  /\ ForumMoves
         /\ forum'[result[category].resource].versions = v
         /\ \A f \in 1..Len(forum) : f # result[category].resource => forum'[f] = forum[f]
<1>1. PICK h \in 0..MaxForum : h = result[category].resource
  BY DEF Known, ResultsKnown, CategoryKnown, CategoryResults
<1>3. forum \in Seq(ForumRecords) /\ Len(forum) <= MaxForum /\ Len(forum) \in Nat /\ MaxForum \in Nat
  BY DispatchAssumption DEF Known, ForumKnown
<1>11. category \in Categories /\ h # 0
  BY <1>1 DEF Known, CategoryKnown
<1>12. h \in 1..MaxForum /\ h \in {result[category].resource}
  BY <1>1, <1>3, <1>11
<1>2. h \in 1..Len(forum)
  BY <1>3, <1>11, <1>12 DEF Known, Pointing
<1>4. \A r \in ForumRecords :
        /\ [r EXCEPT !.versions = v] \in ForumRecords
        /\ [r EXCEPT !.versions = v].name = r.name
        /\ [r EXCEPT !.versions = v].category = r.category
        /\ [r EXCEPT !.versions = v].versions = v
        /\ [r EXCEPT !.versions = v].updates = r.updates
  BY DEF ForumRecords
<1>5. forum[h] \in ForumRecords /\ forum' = [forum EXCEPT ![h] = [forum[h] EXCEPT !.versions = v]]
  BY <1>1, <1>2, <1>3
<1>6. forum' \in Seq(ForumRecords) /\ Len(forum') = Len(forum)
  <2> DEFINE r == [forum[h] EXCEPT !.versions = v]
  <2>1. r \in ForumRecords
    BY <1>4, <1>5
  <2> HIDE DEF r
  <2>2. forum' = [forum EXCEPT ![h] = r]
    BY <1>5 DEF r
  <2>3. /\ [forum EXCEPT ![h] = r] \in Seq(ForumRecords)
        /\ Len([forum EXCEPT ![h] = r]) = Len(forum)
    BY <1>2, <1>3, <2>1, OnePlaceChanges
  <2> QED
    BY <2>2, <2>3
<1>7. \A g \in 1..Len(forum) : forum'[g] = IF g = h THEN [forum[h] EXCEPT !.versions = v] ELSE forum[g]
  BY <1>2, <1>3, <1>5
<1>8. \A g \in 1..Len(forum) :
        /\ forum'[g].category = forum[g].category /\ forum'[g].name = forum[g].name
        /\ forum'[g].updates = forum[g].updates
        /\ g # h => forum'[g].versions = forum[g].versions
  BY <1>4, <1>5, <1>7
<1>9. forum'[h].versions = v
  BY <1>2, <1>4, <1>5, <1>7
<1>10. ForumMoves
  BY <1>1, <1>3, <1>6, <1>8, <1>9 DEF ForumMoves
<1> QED
  BY <1>1, <1>7, <1>9, <1>10

\* The resource in hand gets an update, nothing else changes.
LEMMA UpdatesGrow ==
  ASSUME Known, pc = "updating", forum' = WithUpdate
  PROVE  /\ ForumMoves
         /\ forum'[result[category].resource].updates = Append(forum[result[category].resource].updates, current)
<1>1. PICK h \in 0..MaxForum : h = result[category].resource
  BY DEF Known, ResultsKnown, CategoryKnown, CategoryResults
<1>3. forum \in Seq(ForumRecords) /\ Len(forum) <= MaxForum /\ Len(forum) \in Nat /\ MaxForum \in Nat
  BY DispatchAssumption DEF Known, ForumKnown
<1>11. category \in Categories /\ h # 0
  BY <1>1 DEF Known, CategoryKnown
<1>12. h \in 1..MaxForum /\ h \in {result[category].resource}
  BY <1>1, <1>3, <1>11
<1>2. h \in 1..Len(forum)
  BY <1>3, <1>11, <1>12 DEF Known, Pointing
<1>0. current \in Nat
  BY DEF Known, RevisionsKnown
<1>4. \A r \in ForumRecords :
        \A u \in Seq(Nat) :
          /\ [r EXCEPT !.updates = u] \in ForumRecords
          /\ [r EXCEPT !.updates = u].name = r.name
          /\ [r EXCEPT !.updates = u].category = r.category
          /\ [r EXCEPT !.updates = u].versions = r.versions
          /\ [r EXCEPT !.updates = u].updates = u
  BY DEF ForumRecords
<1>13. forum[h] \in ForumRecords /\ Append(forum[h].updates, current) \in Seq(Nat)
  <2>1. forum[h] \in ForumRecords
    BY <1>2, <1>3
  <2>2. forum[h].updates \in Seq(Nat)
    BY <2>1 DEF ForumRecords
  <2> QED
    BY <1>0, <2>1, <2>2
<1>5. forum[h] \in ForumRecords /\ forum' = [forum EXCEPT ![h] = [forum[h] EXCEPT !.updates = Append(forum[h].updates, current)]]
  BY <1>1, <1>2, <1>3 DEF WithUpdate, InHand
<1>6. forum' \in Seq(ForumRecords) /\ Len(forum') = Len(forum)
  <2> DEFINE r == [forum[h] EXCEPT !.updates = Append(forum[h].updates, current)]
  <2>1. r \in ForumRecords
    BY <1>4, <1>13
  <2> HIDE DEF r
  <2>2. forum' = [forum EXCEPT ![h] = r]
    BY <1>5 DEF r
  <2>3. /\ [forum EXCEPT ![h] = r] \in Seq(ForumRecords)
        /\ Len([forum EXCEPT ![h] = r]) = Len(forum)
    BY <1>2, <1>3, <2>1, OnePlaceChanges
  <2> QED
    BY <2>2, <2>3
<1>7. \A g \in 1..Len(forum) :
        forum'[g] = IF g = h THEN [forum[h] EXCEPT !.updates = Append(forum[h].updates, current)] ELSE forum[g]
  BY <1>2, <1>3, <1>5
<1>14. LET u == Append(forum[h].updates, current)
           r == [forum[h] EXCEPT !.updates = u] IN
       /\ r.name = forum[h].name /\ r.category = forum[h].category
       /\ r.versions = forum[h].versions /\ r.updates = u
  BY <1>4, <1>13
<1>8. \A g \in 1..Len(forum) :
        /\ forum'[g].category = forum[g].category /\ forum'[g].name = forum[g].name
        /\ forum'[g].versions = forum[g].versions
        /\ g # h => forum'[g].updates = forum[g].updates
  BY <1>7, <1>14
<1>9. forum'[h].updates = Append(forum[h].updates, current)
  BY <1>2, <1>7, <1>14
<1>10. ForumMoves
  BY <1>3, <1>6, <1>8, <1>9 DEF ForumMoves
<1> QED
  BY <1>1, <1>9, <1>10

\* A step may leave the forum as it is.
LEMMA ForumStays ==
  ASSUME Known, forum' = forum
  PROVE  ForumMoves
<1>1. forum \in Seq(ForumRecords) /\ Len(forum) <= MaxForum /\ Len(forum) \in Nat
  BY DEF Known, ForumKnown
<1> QED
  BY <1>1 DEF ForumMoves

\* The versions at some places, in order: each of these places is met once.
LEMMA Picked ==
  ASSUME Versions \in Seq(Nat), NEW S \in SUBSET (1..Len(Versions))
  PROVE  /\ Pick(S) \in Seq(Nat) /\ Len(Pick(S)) \in Nat
         /\ \E o \in [1..Len(Pick(S)) -> S] :
              /\ \A j \in 1..Len(Pick(S)) : Pick(S)[j] = Versions[o[j]]
              /\ \A j, k \in 1..Len(Pick(S)) : o[j] = o[k] => j = k
              /\ \A x \in S : \E j \in 1..Len(Pick(S)) : o[j] = x
<1>1. Len(Versions) \in Nat /\ \A i \in 1..Len(Versions) : Versions[i] \in Nat
  BY DEF Versions
<1>2. Enumerates(InOrder(S), S) /\ Cardinality(S) \in Nat
  BY <1>1, InOrderMeetsAll
<1>3. PICK c \in Nat : c = Cardinality(S)
  BY <1>2
<1>4. PICK o : o = InOrder(S)
  OBVIOUS
<1>5. /\ o \in [1..c -> S] /\ \A i, j \in 1..c : i < j => o[i] < o[j]
      /\ \A x \in S : \E i \in 1..c : o[i] = x
  BY <1>2, <1>3, <1>4 DEF Enumerates
<1>6. Pick(S) = [i \in 1..c |-> Versions[o[i]]]
  BY <1>3, <1>4 DEF Pick
<1>7. \A i \in 1..c : o[i] \in S /\ o[i] \in Nat /\ Versions[o[i]] \in Nat
  <2>1. \A x \in S : x \in 1..Len(Versions) /\ x \in Nat
    BY <1>1
  <2> QED
    BY <1>1, <1>5, <2>1
<1>8. Pick(S) \in Seq(Nat) /\ Len(Pick(S)) = c
  BY <1>3, <1>6, <1>7
<1>9. \A j, k \in 1..c : o[j] = o[k] => j = k
  <2>1. ASSUME NEW j \in 1..c, NEW k \in 1..c, o[j] = o[k], j # k PROVE FALSE
    <3>1. j < k \/ k < j
      BY <2>1
    <3> QED
      BY <1>5, <1>7, <2>1, <3>1
  <2> QED
    BY <2>1
<1> QED
  BY <1>5, <1>6, <1>8, <1>9

\* The versions of the resource in hand are of revisions approved so far.
LEMMA VersionsInHand ==
  ASSUME Known, pc = "versioning"
  PROVE  /\ result[category].resource \in 1..Len(forum)
         /\ Versions = forum[result[category].resource].versions
         /\ Versions \in Seq(Nat) /\ DOMAIN Versions = 1..Len(Versions) /\ Len(Versions) \in Nat
         /\ \A i \in 1..Len(Versions) : Versions[i] \in Nat /\ Versions[i] <= current
         /\ current \in Nat /\ current # 0
<1>1. category \in Categories /\ result[category].resource # 0
  BY DEF Known, CategoryKnown
<1>2. result[category].resource \in 0..MaxForum /\ MaxForum \in Nat
  BY <1>1, DispatchAssumption DEF Known, ResultsKnown, CategoryResults
<1>3. result[category].resource \in 1..MaxForum
  BY <1>1, <1>2
<1>4. result[category].resource <= Len(forum)
  BY <1>1, <1>3 DEF Known, Pointing
<1>5. result[category].resource \in 1..Len(forum)
  BY <1>2, <1>3, <1>4 DEF Known, ForumKnown
<1>6. forum[result[category].resource] \in ForumRecords
  BY <1>5 DEF Known, ForumKnown
<1>7. Versions = forum[result[category].resource].versions
  BY DEF Versions, InHand
<1>8. Versions \in Seq(Nat)
  BY <1>6, <1>7 DEF ForumRecords
<1>9. \A i \in 1..Len(Versions) : Versions[i] <= current
  BY <1>5, <1>7 DEF Known, ForumKnown
<1>10. current \in Nat /\ current # 0
  BY DEF Known, AttemptsKnown, RevisionsKnown
<1>11. \A s \in Seq(Nat) : DOMAIN s = 1..Len(s) /\ Len(s) \in Nat /\ \A i \in 1..Len(s) : s[i] \in Nat
  OBVIOUS
<1>12. DOMAIN Versions = 1..Len(Versions) /\ Len(Versions) \in Nat /\ \A i \in 1..Len(Versions) : Versions[i] \in Nat
  BY <1>8, <1>11
<1> QED
  BY <1>5, <1>7, <1>8, <1>9, <1>10, <1>12

\* Versions that stay, with or without the revision's own behind them, are set.
LEMMA PickedChange ==
  ASSUME Known, pc = "versioning", ~result[category].version, NEW S \in SUBSET DOMAIN Versions,
         forum' \in {[forum EXCEPT ![InHand.resource].versions = Append(Pick(S), current)],
                     [forum EXCEPT ![InHand.resource].versions = Pick(S)]}
  PROVE  /\ ForumMoves
         /\ forum'[result[category].resource].versions \in {Append(Pick(S), current), Pick(S)}
<1>1. S \in SUBSET (1..Len(Versions)) /\ Versions \in Seq(Nat) /\ current \in Nat
      /\ \A i \in 1..Len(Versions) : Versions[i] <= current
  BY VersionsInHand
<1>2. Pick(S) \in Seq(Nat) /\ Len(Pick(S)) \in Nat
  BY <1>1, Picked
<1>3. \A j \in 1..Len(Pick(S)) : Pick(S)[j] <= current
  <2>0. \E o \in [1..Len(Pick(S)) -> S] :
              /\ \A j \in 1..Len(Pick(S)) : Pick(S)[j] = Versions[o[j]]
              /\ \A j, k \in 1..Len(Pick(S)) : o[j] = o[k] => j = k
              /\ \A x \in S : \E j \in 1..Len(Pick(S)) : o[j] = x
    BY <1>1, Picked
  <2>1. PICK o \in [1..Len(Pick(S)) -> S] : \A j \in 1..Len(Pick(S)) : Pick(S)[j] = Versions[o[j]]
    BY <2>0
  <2> QED
    BY <1>1, <2>1
<1>4. /\ Append(Pick(S), current) \in Seq(Nat)
      /\ \A j \in 1..Len(Append(Pick(S), current)) : Append(Pick(S), current)[j] <= current
  BY <1>1, <1>2, <1>3
<1>5. CASE forum' = [forum EXCEPT ![InHand.resource].versions = Append(Pick(S), current)]
  BY <1>4, <1>5, VersionsChange DEF InHand
<1>6. CASE forum' = [forum EXCEPT ![InHand.resource].versions = Pick(S)]
  BY <1>2, <1>3, <1>6, VersionsChange DEF InHand
<1> QED
  BY <1>5, <1>6

\* Two versions look the same when string and file do, and one is the revision's
\* own or that of an earlier revision.
LEMMA LooksAreTwins ==
  ASSUME RevisionsKnown, current # 0, NEW n \in Nat, n <= current, LooksTheSame(n)
  PROVE  SameVersion(n) /\ (n = current \/ HasTwin(current))
<1>1. SameVersion(n) /\ n # 0 /\ plan[n].version = plan[current].version
      /\ plan[current].version # "" /\ plan[n].file = plan[current].file
  BY DEF LooksTheSame, SameVersion, Plan
<1>3. current \in Nat
  BY PlanOfCurrent
<1>2. current \in Nat /\ (n = current \/ n \in 1..(current - 1))
  <2>1. n # 0
    BY <1>1
  <2> QED
    BY <1>3, <2>1
<1> QED
  BY <1>1, <1>2 DEF HasTwin

\* AddVersion leaves the revision's version, or one that looks the same, on the
\* resource in hand, and no second one of the same version string.
LEMMA VersionMade ==
  ASSUME Known, AddVersion, ~result[category].version
  PROVE  /\ ForumMoves
         /\ LET v == forum'[result[category].resource].versions IN
            /\ (\E i \in 1..Len(v) : v[i] = current) \/ HasTwin(current)
            /\ plan[current].version # "" /\ ~plan[current].overwrite =>
                 \E i \in 1..Len(v) : \A j \in 1..Len(v) : SameVersion(v[j]) <=> j = i
<1> DEFINE v == forum'[result[category].resource].versions
<1>1. pc = "versioning" /\ InHand = result[category]
  BY DEF AddVersion, InHand
<1>2. /\ Versions \in Seq(Nat) /\ DOMAIN Versions = 1..Len(Versions)
      /\ \A i \in 1..Len(Versions) : Versions[i] \in Nat /\ Versions[i] <= current
      /\ current \in Nat /\ current # 0
  BY <1>1, VersionsInHand
<1>3. Kept \in SUBSET DOMAIN Versions
  BY DEF Kept
<1>4. ~plan[current].overwrite => \A i \in Kept : ~SameVersion(Versions[i])
  BY DEF Kept, Stays, Plan
<1>5. plan[current].version # "" => SameVersion(current)
  BY <1>2 DEF SameVersion, Plan
<1>6. CASE ~Adopts
  <2>1. forum' = [forum EXCEPT ![InHand.resource].versions = Append(Pick(Kept), current)]
    BY <1>1, <1>6 DEF AddVersion
  <2>2. ForumMoves
    BY <1>1, <1>3, <2>1, PickedChange
  <2>3. v = Append(Pick(Kept), current)
    <3>1. \E h \in 1..Len(forum) : h = result[category].resource
      BY <1>1, VersionsInHand
    <3>2. Pick(Kept) \in Seq(Nat) /\ \A i \in 1..Len(Pick(Kept)) : Pick(Kept)[i] <= current
      <4>0. Kept \in SUBSET (1..Len(Versions))
        BY <1>2, <1>3
      <4>3. \E o \in [1..Len(Pick(Kept)) -> Kept] :
              /\ \A j \in 1..Len(Pick(Kept)) : Pick(Kept)[j] = Versions[o[j]]
              /\ \A j, k \in 1..Len(Pick(Kept)) : o[j] = o[k] => j = k
              /\ \A x \in Kept : \E j \in 1..Len(Pick(Kept)) : o[j] = x
        BY <1>2, <4>0, Picked
      <4>1. PICK o \in [1..Len(Pick(Kept)) -> Kept] : \A j \in 1..Len(Pick(Kept)) : Pick(Kept)[j] = Versions[o[j]]
        BY <4>3
      <4>2. Pick(Kept) \in Seq(Nat)
        BY <1>2, <4>0, Picked
      <4> QED
        BY <1>2, <1>3, <4>1, <4>2
    <3>3. /\ Append(Pick(Kept), current) \in Seq(Nat)
          /\ \A j \in 1..Len(Append(Pick(Kept), current)) : Append(Pick(Kept), current)[j] <= current
      BY <1>2, <3>2
    <3> QED
      BY <1>1, <2>1, <3>3, VersionsChange
  <2>4. PICK n \in Nat : n = Len(Pick(Kept)) /\ Pick(Kept) \in Seq(Nat)
    BY <1>2, <1>3, Picked
  <2>5. Len(v) = n + 1 /\ v[n + 1] = current /\ \A j \in 1..n : v[j] = Pick(Kept)[j]
    BY <1>2, <2>3, <2>4
  <2>6. ~plan[current].overwrite => \A j \in 1..n : ~SameVersion(v[j])
    <3>0. \E o \in [1..Len(Pick(Kept)) -> Kept] :
              /\ \A j \in 1..Len(Pick(Kept)) : Pick(Kept)[j] = Versions[o[j]]
              /\ \A j, k \in 1..Len(Pick(Kept)) : o[j] = o[k] => j = k
              /\ \A x \in Kept : \E j \in 1..Len(Pick(Kept)) : o[j] = x
      <4>1. Kept \in SUBSET (1..Len(Versions))
        BY <1>2, <1>3
      <4> QED
        BY <1>2, <4>1, Picked
    <3>1. PICK o \in [1..n -> Kept] : \A j \in 1..n : Pick(Kept)[j] = Versions[o[j]]
      BY <2>4, <3>0
    <3>2. \A j \in 1..n : v[j] = Versions[o[j]] /\ o[j] \in Kept
      BY <2>5, <3>1
    <3> QED
      BY <1>4, <3>2
  <2>7. \A j \in 1..(n + 1) : j \in 1..n \/ j = n + 1
    BY <2>4
  <2>8. plan[current].version # "" /\ ~plan[current].overwrite =>
          \A j \in 1..Len(v) : SameVersion(v[j]) <=> j = n + 1
    <3>1. \A j \in 1..n : j # n + 1
      BY <2>4
    <3> HIDE DEF v
    <3> QED
      BY <1>5, <2>5, <2>6, <2>7, <3>1
  <2>9. n + 1 \in 1..Len(v)
    BY <2>4, <2>5
  <2> HIDE DEF v
  <2>10. \E i \in 1..Len(v) : v[i] = current
    BY <2>5, <2>9
  <2> QED
    BY <2>2, <2>8, <2>9, <2>10 DEF v
<1>7. CASE Adopts
  <2>1. PICK i \in DOMAIN Versions :
          /\ LooksTheSame(Versions[i])
          /\ forum' = [forum EXCEPT ![InHand.resource].versions = Pick(Kept \union {i})]
    BY <1>1, <1>7 DEF AddVersion
  <2> DEFINE S == Kept \union {i}
  <2>2. S \in SUBSET DOMAIN Versions
    BY <1>3
  <2>3. ForumMoves
    BY <1>1, <2>1, <2>2, PickedChange
  <2>4. PICK n \in Nat : n = Len(Pick(S)) /\ Pick(S) \in Seq(Nat)
    <3> HIDE DEF S
    <3> QED BY <1>2, <2>2, Picked
  <2>5. PICK o \in [1..n -> S] :
              /\ \A j \in 1..n : Pick(S)[j] = Versions[o[j]]
              /\ \A j, k \in 1..n : o[j] = o[k] => j = k
              /\ \A x \in S : \E j \in 1..n : o[j] = x
    <3> HIDE DEF S
    <3>1. \E o \in [1..Len(Pick(S)) -> S] :
              /\ \A j \in 1..Len(Pick(S)) : Pick(S)[j] = Versions[o[j]]
              /\ \A j, k \in 1..Len(Pick(S)) : o[j] = o[k] => j = k
              /\ \A x \in S : \E j \in 1..Len(Pick(S)) : o[j] = x
      <4>1. S \in SUBSET (1..Len(Versions))
        BY <1>2, <2>2
      <4> QED
        BY <1>2, <4>1, Picked
    <3> QED BY <2>4, <3>1
  <2>6. v = Pick(S)
    <3>1. \A j \in 1..n : Pick(S)[j] <= current
      <4>1. \A j \in 1..n : o[j] \in 1..Len(Versions)
        BY <1>2, <2>2, <2>5
      <4> HIDE DEF S
      <4> QED BY <1>2, <2>5, <4>1
    <3> HIDE DEF S
    <3>2. forum' = [forum EXCEPT ![InHand.resource].versions = Pick(S)]
      BY <2>1 DEF S
    <3> QED
      BY <1>1, <2>4, <3>1, <3>2, VersionsChange
  <2>7. SameVersion(Versions[i]) /\ (Versions[i] = current \/ HasTwin(current))
    BY <1>2, <2>1, LooksAreTwins DEF Known
  <2>8. PICK k \in 1..n : o[k] = i
    BY <2>5
  <2>9. Len(v) = n /\ \A j \in 1..n : v[j] = Versions[o[j]]
    <3> HIDE DEF S, v
    <3> QED BY <2>4, <2>5, <2>6
  <2>10. ~plan[current].overwrite => \A j \in 1..n : SameVersion(v[j]) <=> j = k
    <3>1. \A j \in 1..n : o[j] \in Kept \/ o[j] = i
      BY <2>5
    <3>2. \A j \in 1..n : o[j] = i => j = k
      BY <2>5, <2>8
    <3> HIDE DEF v
    <3> QED
      BY <1>4, <2>7, <2>8, <2>9, <3>1, <3>2
  <2> HIDE DEF v, S
  <2>11. (\E j \in 1..Len(v) : v[j] = current) \/ HasTwin(current)
    BY <2>7, <2>8, <2>9
  <2> QED
    BY <2>3, <2>8, <2>9, <2>10, <2>11 DEF v
<1> QED
  BY <1>6, <1>7

\* Whatever a step does to the forum, it moves like this.
LEMMA ForumMovesAlways ==
  ASSUME Known, [Next]_vars
  PROVE  ForumMoves
<1>1. ASSUME NEW c \in Categories, Post(c) PROVE ForumMoves
  BY <1>1, Posts DEF Post
<1>2. ASSUME NEW c \in Categories, PostFails(c) PROVE ForumMoves
  <2>1. pc = "choosing"
    BY <1>2 DEF PostFails
  <2>2. CASE forum' = forum
    BY <2>2, ForumStays
  <2>3. CASE forum' # forum
    <3>1. PICK f \in Target(c) : (f = 0 => Len(forum) < MaxForum) /\ forum' = Posted(c, f)
      BY <1>2, <2>3 DEF PostFails
    <3> QED
      BY <2>1, <3>1, Posts
  <2> QED
    BY <2>2, <2>3
<1>3. ASSUME AddVersion PROVE ForumMoves
  <2>1. CASE result[category].version
    BY <1>3, <2>1, ForumStays DEF AddVersion, InHand
  <2>2. CASE ~result[category].version
    BY <1>3, <2>2, VersionMade
  <2> QED
    BY <2>1, <2>2
<1>4. ASSUME AddVersionFails PROVE ForumMoves
  <2>1. pc = "versioning" /\ ~result[category].version
    BY <1>4 DEF AddVersionFails, InHand
  <2>2. CASE forum' = forum
    BY <2>2, ForumStays
  <2>3. CASE forum' # forum
    <3>1. PICK S \in SUBSET DOMAIN Versions :
            forum' \in {[forum EXCEPT ![InHand.resource].versions = Append(Pick(S), current)],
                        [forum EXCEPT ![InHand.resource].versions = Pick(S)]}
      BY <1>4, <2>3 DEF AddVersionFails
    <3> QED
      BY <2>1, <3>1, PickedChange
  <2> QED
    BY <2>2, <2>3
<1>5. ASSUME AddUpdate \/ AddUpdateFails PROVE ForumMoves
  <2>1. pc = "updating" /\ (forum' = forum \/ forum' = WithUpdate)
    BY <1>5 DEF AddUpdate, AddUpdateFails
  <2> QED
    BY <2>1, ForumStays, UpdatesGrow
<1>6. ASSUME (\E p \in Plans : Submit(p)) \/ Approve \/ Retry \/ Begin \/ Cancel PROVE ForumMoves
  BY <1>6, ForumStays DEF Submit, Approve, Retry, Begin, Cancel
<1>7. ASSUME Finish \/ FinishFails \/ Fail \/ Stop PROVE ForumMoves
  BY <1>7, ForumStays DEF Finish, FinishFails, Fail, Stop
<1>8. CASE UNCHANGED vars
  BY <1>8, ForumStays DEF vars
<1> QED
  BY <1>1, <1>2, <1>3, <1>4, <1>5, <1>6, <1>7, <1>8 DEF Next

\* The inductive invariant.
BandBBSInv == Known /\ Evident /\ Reached /\ ClaimedStay /\ Once

\* The approved revision stays as it is while a publication is in hand.
LEMMA PlanKeeps ==
  ASSUME RevisionsKnown, AttemptsKnown, [Next]_vars
  PROVE  /\ RevisionsKnown'
         /\ Len(plan) \in Nat /\ Len(plan) <= Len(plan')
         /\ \A i \in 1..Len(plan) : plan'[i] = plan[i]
         /\ current' = current \/ (Approve /\ current' > current)
<1>1. Len(plan) \in Nat /\ current \in Nat /\ current <= Len(plan) /\ plan \in Seq(Plans) /\ MaxRevisions \in Nat
  BY DispatchAssumption DEF RevisionsKnown
<1>2. ASSUME NEW p \in Plans, Submit(p)
      PROVE  /\ Len(plan') = Len(plan) + 1 /\ plan' \in Seq(Plans) /\ current' = current
             /\ Len(plan) < MaxRevisions
             /\ \A i \in 1..Len(plan) : plan'[i] = plan[i]
  BY <1>1, <1>2 DEF Submit
<1>3. ASSUME Approve PROVE plan' = plan /\ current' = Len(plan) /\ current' > current
  BY <1>1, <1>3 DEF Approve
<1>4. ASSUME \/ Retry \/ Begin \/ Cancel \/ Finish \/ FinishFails \/ Fail \/ Stop \/ UNCHANGED vars
             \/ AddVersion \/ AddVersionFails \/ AddUpdate \/ AddUpdateFails
             \/ \E c \in Categories : Post(c) \/ PostFails(c)
      PROVE  plan' = plan /\ current' = current
  BY <1>4 DEF Retry, Begin, Cancel, Finish, FinishFails, Fail, Stop, vars, rows, AddVersion,
     AddVersionFails, AddUpdate, AddUpdateFails, Post, PostFails
<1>5. CASE \E p \in Plans : Submit(p)
  BY <1>1, <1>2, <1>5 DEF RevisionsKnown
<1>6. CASE Approve
  BY <1>1, <1>3, <1>6 DEF RevisionsKnown
<1>7. CASE plan' = plan /\ current' = current
  BY <1>1, <1>7 DEF RevisionsKnown
<1> QED
  BY <1>4, <1>5, <1>6, <1>7 DEF Next

\* State, attempts and position keep their types.
LEMMA AttemptsKeep ==
  ASSUME RevisionsKnown, AttemptsKnown, [Next]_vars
  PROVE  AttemptsKnown'
<1>1. current \in Nat /\ MaxClaims \in Nat
  BY DispatchAssumption DEF RevisionsKnown
<1>2. CASE \E p \in Plans : Submit(p)
  BY <1>2 DEF AttemptsKnown, Submit, local, PublicationStates
<1>3. CASE Approve
  <2>1. current' # 0
    BY <1>1, <1>3 DEF Approve, RevisionsKnown
  <2>2. 0 \in 0..MaxClaims
    BY <1>1
  <2> QED
    BY <1>3, <2>1, <2>2 DEF AttemptsKnown, Approve, local, PublicationStates
<1>4. CASE Retry \/ Cancel
  BY <1>4 DEF AttemptsKnown, Retry, Cancel, local, PublicationStates
<1>5. CASE Begin
  <2>1. claims + 1 \in 0..MaxClaims
    BY <1>1, <1>5 DEF AttemptsKnown, Begin
  <2> QED
    BY <1>5, <2>1 DEF AttemptsKnown, Begin, PublicationStates
<1>6. CASE \E c \in Categories : Post(c) \/ PostFails(c)
  BY <1>6 DEF AttemptsKnown, Post, PostFails, rows
<1>7. CASE AddVersion \/ AddVersionFails
  BY <1>7 DEF AttemptsKnown, AddVersion, AddVersionFails, rows, local
<1>8. CASE AddUpdate \/ AddUpdateFails
  BY <1>8 DEF AttemptsKnown, AddUpdate, AddUpdateFails, rows, local
<1>9. CASE Finish \/ FinishFails \/ Fail
  BY <1>9 DEF AttemptsKnown, Finish, FinishFails, Fail, Return, AttemptFailed, PublicationStates
<1>10. CASE Stop
  BY <1>10 DEF AttemptsKnown, Stop, Return, rows
<1>11. CASE UNCHANGED vars
  BY <1>11 DEF AttemptsKnown, vars, rows, local
<1> QED
  BY <1>2, <1>3, <1>4, <1>5, <1>6, <1>7, <1>8, <1>9, <1>10, <1>11 DEF Next

\* The forum keeps showing only what was approved.
LEMMA ForumKnownKeeps ==
  ASSUME Known, [Next]_vars
  PROVE  ForumKnown'
<1>1. ForumMoves
  BY ForumMovesAlways
<1>2. current \in Nat /\ current' \in Nat /\ current <= current' /\ Len(forum) \in Nat /\ MaxForum \in Nat
  <2>1. RevisionsKnown /\ RevisionsKnown' /\ (current' = current \/ current' > current)
    BY PlanKeeps DEF Known
  <2>2. current \in Nat /\ current' \in Nat
    BY <2>1 DEF RevisionsKnown
  <2> QED
    BY <2>1, <2>2, DispatchAssumption DEF Known, ForumKnown
<1>3. ASSUME NEW f \in 1..Len(forum)
      PROVE  /\ \A i \in 1..Len(forum'[f].versions) : forum'[f].versions[i] <= current'
             /\ \A i \in 1..Len(forum'[f].updates) : forum'[f].updates[i] \in 1..current'
  <2>1. /\ forum[f].versions \in Seq(Nat) /\ forum[f].updates \in Seq(Nat)
        /\ forum'[f].versions \in Seq(Nat) /\ forum'[f].updates \in Seq(Nat)
    <3>1. forum[f] \in ForumRecords
      BY DEF Known, ForumKnown
    <3>2. f \in 1..Len(forum') /\ forum' \in Seq(ForumRecords)
      BY <1>1, <1>2 DEF ForumMoves
    <3>3. forum'[f] \in ForumRecords
      BY <3>2
    <3> QED
      BY <3>1, <3>3 DEF ForumRecords
  <2>2. \A i \in 1..Len(forum'[f].versions) : forum'[f].versions[i] <= current
    BY <1>1 DEF ForumMoves, Known, ForumKnown
  <2>3. \A i \in 1..Len(forum'[f].versions) : forum'[f].versions[i] \in Nat
    BY <2>1
  <2>4. CASE forum'[f].updates = forum[f].updates
    BY <1>2, <2>2, <2>3, <2>4 DEF Known, ForumKnown
  <2>5. CASE pc = "updating" /\ forum'[f].updates = Append(forum[f].updates, current)
    <3>1. current \in 1..current'
      BY <1>2, <2>5 DEF Known, AttemptsKnown
    <3>2. \A i \in 1..Len(forum[f].updates) : forum[f].updates[i] \in 1..current'
      BY <1>2 DEF Known, ForumKnown
    <3>3. \A i \in 1..Len(forum'[f].updates) : forum'[f].updates[i] \in 1..current'
      BY <2>1, <2>5, <3>1, <3>2
    <3> QED
      BY <1>2, <2>2, <2>3, <3>3
  <2> QED
    BY <1>1, <2>4, <2>5 DEF ForumMoves
<1>4. CASE Len(forum') = Len(forum)
  BY <1>1, <1>3, <1>4 DEF ForumMoves, ForumKnown
<1>5. CASE Len(forum') # Len(forum)
  <2>1. PICK c \in Categories : forum'[Len(forum) + 1] = ForumResource(c, plan[current].name, <<current>>)
    BY <1>1, <1>5 DEF ForumMoves
  <2> DEFINE g == forum'[Len(forum) + 1]
  <2>2. g.versions = <<current>> /\ g.updates = <<>>
    BY <2>1 DEF ForumResource
  <2>3. /\ \A i \in 1..Len(g.versions) : g.versions[i] <= current'
        /\ \A i \in 1..Len(g.updates) : g.updates[i] \in 1..current'
    BY <1>2, <2>2
  <2>4. \A f \in 1..Len(forum') : f \in 1..Len(forum) \/ f = Len(forum) + 1
    BY <1>1, <1>2, <1>5 DEF ForumMoves
  <2> QED
    BY <1>1, <1>3, <2>3, <2>4 DEF ForumMoves, ForumKnown
<1> QED
  BY <1>4, <1>5

\* The claim of the import binds each of its categories to the resource imported for it.
LEMMA ClaimedAreImported ==
  /\ Imported \in Seq(ForumRecords) /\ Len(Imported) = Cardinality(Claimed)
  /\ Cardinality(Claimed) \in Nat /\ Cardinality(Claimed) <= MaxForum
  /\ ClaimedBinding \in [Categories -> 0..MaxForum]
  /\ \A c \in Categories \ Claimed : ClaimedBinding[c] = 0
  /\ \A c \in Claimed :
       /\ c \in Categories /\ ClaimedBinding[c] \in 1..Cardinality(Claimed)
       /\ Imported[ClaimedBinding[c]].category = c
  /\ \A f \in 1..Cardinality(Claimed) :
       /\ Imported[f].category \in Claimed /\ ClaimedBinding[Imported[f].category] = f
       /\ Imported[f].versions = <<0>> /\ Imported[f].updates = <<>>
<1>1. IsFiniteSet(Claimed) /\ Claimed \subseteq Categories /\ MaxForum \in Nat /\ Cardinality(Claimed) <= MaxForum
  BY DispatchAssumption, FS_Subset
<1>2. Cardinality(Claimed) \in Nat /\ ExistsBijection(1..Cardinality(Claimed), Claimed)
  BY <1>1, FS_CardinalityType
<1>3. PICK n \in Nat : n = Cardinality(Claimed)
  BY <1>2
<1> DEFINE order == SetToSeq(Claimed)
<1>4. PICK b \in Bijection(1..n, Claimed) : TRUE
  BY <1>2, <1>3 DEF ExistsBijection
<1>5. b \in [1..n -> Claimed] /\ IsInjective(b)
  BY <1>4 DEF Bijection, Injection
<1>6. order \in [1..n -> Claimed] /\ IsInjective(order)
  BY <1>3, <1>5 DEF SetToSeq
<1> HIDE DEF order
<1>7. order \in Injection(1..n, Claimed)
  BY <1>6 DEF Injection
<1>8. \A i, j \in 1..n : order[i] = order[j] => i = j
  BY <1>6 DEF IsInjective
<1>9. \A c \in Claimed : \E i \in 1..n : order[i] = c
  <2>1. 1 \in Int /\ n \in Int
    OBVIOUS
  <2>2. IsFiniteSet(1..n) /\ Cardinality(1..n) = n
    BY <2>1, FS_Interval
  <2>3. order \in Surjection(1..n, Claimed)
    BY <1>1, <1>3, <1>7, <2>2, FS_Injection
  <2> QED
    BY <2>3 DEF Surjection
<1>10. Imported = [i \in 1..n |-> ForumResource(order[i], "imported", <<0>>)]
  BY <1>3 DEF Imported, order
<1>11. \A i \in 1..n : /\ order[i] \in Claimed
                       /\ Imported[i].category = order[i] /\ Imported[i].versions = <<0>>
                       /\ Imported[i].updates = <<>> /\ Imported[i] \in ForumRecords
  <2>1. \A i \in 1..n : order[i] \in Claimed /\ order[i] \in Categories
    BY <1>1, <1>6
  <2>2. <<0>> \in Seq(Nat) /\ <<>> \in Seq(Nat) /\ "imported" \in Names
    <3>1. 0 \in Nat
      OBVIOUS
    <3>2. <<0>> \in Seq(Nat)
      BY <3>1
    <3>3. <<>> \in Seq(Nat)
      OBVIOUS
    <3>4. "imported" \in Names
      BY DEF Names
    <3> QED
      BY <3>2, <3>3, <3>4
  <2>3. \A c \in Categories : LET r == ForumResource(c, "imported", <<0>>) IN
          r \in ForumRecords /\ r.category = c /\ r.versions = <<0>> /\ r.updates = <<>>
    BY <2>2 DEF ForumResource, ForumRecords
  <2> QED
    BY <1>10, <2>1, <2>3
<1>12. Imported \in Seq(ForumRecords) /\ Len(Imported) = n /\ DOMAIN Imported = 1..n
  BY <1>10, <1>11
<1>13. \A c \in Claimed : /\ ClaimedBinding[c] \in 1..n
                          /\ Imported[ClaimedBinding[c]].category = c
  <2> SUFFICES ASSUME NEW c \in Claimed
               PROVE  ClaimedBinding[c] \in 1..n /\ Imported[ClaimedBinding[c]].category = c
    OBVIOUS
  <2>1. ClaimedBinding[c] = CHOOSE f \in DOMAIN Imported : Imported[f].category = c
    BY <1>1 DEF ClaimedBinding
  <2>2. \E f \in DOMAIN Imported : Imported[f].category = c
    BY <1>9, <1>11, <1>12
  <2>3. ClaimedBinding[c] \in DOMAIN Imported /\ Imported[ClaimedBinding[c]].category = c
    BY <2>1, <2>2
  <2> QED
    BY <1>12, <2>3
<1>14. \A c \in Categories \ Claimed : ClaimedBinding[c] = 0
  BY DEF ClaimedBinding
<1>15. \A f \in 1..n : ClaimedBinding[Imported[f].category] = f
  BY <1>8, <1>11, <1>13
<1>16. ClaimedBinding \in [Categories -> 0..MaxForum]
  <2>1. \A c \in Categories : ClaimedBinding[c] \in 0..MaxForum
    BY <1>1, <1>3, <1>13, <1>14
  <2>2. ClaimedBinding = [c \in Categories |-> ClaimedBinding[c]]
    BY DEF ClaimedBinding
  <2> QED
    BY <2>1, <2>2
<1> QED
  BY <1>1, <1>3, <1>11, <1>12, <1>13, <1>14, <1>15, <1>16

\* The ids Target offers are of the category, and known or to be created.
LEMMA TargetsPoint ==
  ASSUME Known, NEW c \in Categories, NEW f \in Target(c)
  PROVE  /\ f \in 0..Len(forum) /\ Len(forum) \in Nat /\ f \in Nat
         /\ f # 0 => f \in 1..Len(forum) /\ forum[f].category = c
         /\ f = 0 => existing[c] = 0 /\ result[c].resource = 0 /\ Found(c) = {}
         /\ existing[c] # 0 => f = existing[c]
         /\ existing[c] = 0 /\ result[c].resource # 0 => f = result[c].resource
<1>3. forum \in Seq(ForumRecords) /\ Len(forum) <= MaxForum /\ Len(forum) \in Nat /\ MaxForum \in Nat
  BY DispatchAssumption DEF Known, ForumKnown
<1>1. existing[c] \in 0..MaxForum /\ result[c].resource \in 0..MaxForum
  BY DEF Known, ResultsKnown, CategoryResults
<1>2. \A n \in Found(c) : n \in 1..Len(forum) /\ forum[n].category = c
  BY <1>3 DEF Found
<1>4. CASE existing[c] # 0
  <2>1. f = existing[c] /\ f \in 1..MaxForum
    BY <1>1, <1>3, <1>4 DEF Target
  <2>2. f <= Len(forum) /\ forum[f].category = c
    BY <2>1 DEF Known, Pointing
  <2> QED
    BY <1>3, <1>4, <2>1, <2>2
<1>5. CASE existing[c] = 0 /\ result[c].resource # 0
  <2>1. f = result[c].resource /\ f \in 1..MaxForum
    BY <1>1, <1>3, <1>5 DEF Target
  <2>2. f <= Len(forum) /\ forum[f].category = c
    BY <2>1 DEF Known, Pointing
  <2> QED
    BY <1>3, <1>5, <2>1, <2>2
<1>6. CASE existing[c] = 0 /\ result[c].resource = 0
  <2>1. (f = 0 /\ Found(c) = {}) \/ f \in Found(c)
    BY <1>6 DEF Target
  <2> QED
    BY <1>2, <1>3, <1>6, <2>1
<1> QED
  BY <1>4, <1>5, <1>6

\* Post writes to the result the id of the resource it posted, and that the
\* version is there when the resource is new.
LEMMA PostReaches ==
  ASSUME Known, NEW c \in Categories, Post(c)
  PROVE  \E f \in Target(c) :
           /\ f = 0 => Len(forum) < MaxForum
           /\ forum' = Posted(c, f)
           /\ result' \in [Categories -> CategoryResults]
           /\ \A d \in Categories \ {c} : result'[d] = result[d]
           /\ result'[c].resource = IF f = 0 THEN Len(forum) + 1 ELSE f
           /\ result'[c].version <=> result[c].version \/ f = 0
           /\ result'[c].update = result[c].update
<1>1. PICK f \in Target(c) :
        /\ f = 0 => Len(forum) < MaxForum
        /\ forum' = Posted(c, f)
        /\ result' = [result EXCEPT ![c].resource = IF f = 0 THEN Len(forum) + 1 ELSE f,
                                    ![c].version = @ \/ f = 0]
  BY DEF Post
<1>2. PICK g \in Nat : g = IF f = 0 THEN Len(forum) + 1 ELSE f
  BY TargetsPoint
<1>3. g \in 0..MaxForum
  <2>1. MaxForum \in Nat /\ Len(forum) <= MaxForum
    BY DispatchAssumption DEF Known, ForumKnown
  <2> QED
    BY <1>1, <1>2, <2>1, TargetsPoint
<1>4. PICK b \in BOOLEAN : b = (f = 0)
  OBVIOUS
<1>5. result' = [result EXCEPT ![c].resource = g, ![c].version = @ \/ b]
  BY <1>1, <1>2, <1>4
<1>6. result \in [Categories -> CategoryResults]
  BY DEF Known, ResultsKnown
<1>7. /\ result' \in [Categories -> CategoryResults]
      /\ \A d \in Categories \ {c} : result'[d] = result[d]
      /\ result'[c].resource = g
      /\ result'[c].version <=> result[c].version \/ b
      /\ result'[c].update = result[c].update
  <2>1. result[c] \in CategoryResults
    BY <1>3, <1>5, <1>6
  <2>2. result' \in [Categories -> CategoryResults]
    BY <1>3, <1>5, <1>6, <2>1 DEF CategoryResults
  <2>3. \A d \in Categories \ {c} : result'[d] = result[d]
    BY <1>3, <1>5, <1>6
  <2>4. result'[c].resource = g
    BY <1>3, <1>5, <1>6, <2>1 DEF CategoryResults
  <2>5. result'[c].version <=> result[c].version \/ b
    BY <1>3, <1>5, <1>6, <2>1 DEF CategoryResults
  <2>6. result'[c].update = result[c].update
    BY <1>3, <1>5, <1>6, <2>1 DEF CategoryResults
  <2> QED
    BY <2>2, <2>3, <2>4, <2>5, <2>6
<1> QED
  BY <1>1, <1>2, <1>4, <1>7

\* A post that fails keeps of it at most the id of a resource that was there.
LEMMA PostFailsReaches ==
  ASSUME Known, NEW c \in Categories, PostFails(c)
  PROVE  /\ result' \in [Categories -> CategoryResults]
         /\ \A d \in Categories \ {c} : result'[d] = result[d]
         /\ result'[c].resource = result[c].resource \/ result'[c].resource \in Target(c)
         /\ result'[c].version = result[c].version /\ result'[c].update = result[c].update
<1>1. result \in [Categories -> CategoryResults]
  BY DEF Known, ResultsKnown
<1>2. CASE result' = result
  BY <1>1, <1>2
<1>3. CASE result' # result
  <2>1. PICK f \in Target(c) : result' = [result EXCEPT ![c].resource = f]
    BY <1>3 DEF PostFails, IdKnown
  <2>2. f \in 0..MaxForum
    BY TargetsPoint, DispatchAssumption DEF Known, ForumKnown
  <2>3. TRUE \in BOOLEAN
    OBVIOUS
  <2>4. /\ result' \in [Categories -> CategoryResults]
        /\ \A d \in Categories \ {c} : result'[d] = result[d]
        /\ result'[c].resource = f
        /\ result'[c].version = result[c].version /\ result'[c].update = result[c].update
    <3>1. result[c] \in CategoryResults
      BY <1>1, <2>1, <2>2, <2>3
    <3>2. result' \in [Categories -> CategoryResults]
      BY <1>1, <2>1, <2>2, <2>3, <3>1 DEF CategoryResults
    <3>3. \A d \in Categories \ {c} : result'[d] = result[d]
      BY <1>1, <2>1, <2>2, <2>3
    <3>4. result'[c].resource = f
      BY <1>1, <2>1, <2>2, <2>3, <3>1 DEF CategoryResults
    <3>5. result'[c].version = result[c].version
      BY <1>1, <2>1, <2>2, <2>3, <3>1 DEF CategoryResults
    <3>6. result'[c].update = result[c].update
      BY <1>1, <2>1, <2>2, <2>3, <3>1 DEF CategoryResults
    <3> QED
      BY <3>2, <3>3, <3>4, <3>5, <3>6
  <2> QED
    BY <2>4
<1> QED
  BY <1>2, <1>3

\* AddVersion records the version of the category in hand.
LEMMA VersionReaches ==
  ASSUME Known, AddVersion
  PROVE  /\ category \in Categories
         /\ result' \in [Categories -> CategoryResults]
         /\ \A d \in Categories \ {category} : result'[d] = result[d]
         /\ result'[category].resource = result[category].resource
         /\ result'[category].version
         /\ result'[category].update = result[category].update
<1>1. PICK c \in Categories : c = category
  BY DEF AddVersion, Known, CategoryKnown
<1>2. result' = [result EXCEPT ![c].version = TRUE]
  BY <1>1 DEF AddVersion
<1>3. result \in [Categories -> CategoryResults] /\ MaxForum \in Nat
  BY DispatchAssumption DEF Known, ResultsKnown
<1>4. TRUE \in BOOLEAN /\ 0 \in 0..MaxForum
  BY <1>3
<1>5. /\ result' \in [Categories -> CategoryResults]
      /\ \A d \in Categories \ {c} : result'[d] = result[d]
      /\ result'[c].resource = result[c].resource
      /\ result'[c].version
      /\ result'[c].update = result[c].update
  <2>1. result[c] \in CategoryResults
    BY <1>2, <1>3, <1>4
  <2>2. result' \in [Categories -> CategoryResults]
    BY <1>2, <1>3, <1>4, <2>1 DEF CategoryResults
  <2>3. \A d \in Categories \ {c} : result'[d] = result[d]
    BY <1>2, <1>3, <1>4
  <2>4. result'[c].resource = result[c].resource
    BY <1>2, <1>3, <1>4, <2>1 DEF CategoryResults
  <2>5. result'[c].version
    BY <1>2, <1>3, <1>4, <2>1 DEF CategoryResults
  <2>6. result'[c].update = result[c].update
    BY <1>2, <1>3, <1>4, <2>1 DEF CategoryResults
  <2> QED
    BY <2>2, <2>3, <2>4, <2>5, <2>6
<1> QED
  BY <1>1, <1>5

\* AddUpdate records the update of the category in hand, if one is needed.
LEMMA UpdateReaches ==
  ASSUME Known, AddUpdate
  PROVE  /\ category \in Categories
         /\ result' \in [Categories -> CategoryResults]
         /\ \A d \in Categories \ {category} : result'[d] = result[d]
         /\ result'[category].resource = result[category].resource
         /\ result'[category].version = result[category].version
         /\ result'[category].update <=> result[category].update \/ UpdateNeeded
<1>1. PICK c \in Categories : c = category
  BY DEF AddUpdate, Known, CategoryKnown
<1>2. PICK b \in BOOLEAN : b = UpdateNeeded
  BY DEF UpdateNeeded
<1>3. result' = [result EXCEPT ![c].update = @ \/ b]
  BY <1>1, <1>2 DEF AddUpdate
<1>4. result \in [Categories -> CategoryResults] /\ MaxForum \in Nat
  BY DispatchAssumption DEF Known, ResultsKnown
<1>5. 0 \in 0..MaxForum
  BY <1>4
<1>6. /\ result' \in [Categories -> CategoryResults]
      /\ \A d \in Categories \ {c} : result'[d] = result[d]
      /\ result'[c].resource = result[c].resource
      /\ result'[c].version = result[c].version
      /\ result'[c].update <=> result[c].update \/ b
  <2>1. result[c] \in CategoryResults
    BY <1>3, <1>4, <1>5
  <2>2. result' \in [Categories -> CategoryResults]
    BY <1>3, <1>4, <1>5, <2>1 DEF CategoryResults
  <2>3. \A d \in Categories \ {c} : result'[d] = result[d]
    BY <1>3, <1>4, <1>5
  <2>4. result'[c].resource = result[c].resource
    BY <1>3, <1>4, <1>5, <2>1 DEF CategoryResults
  <2>5. result'[c].version = result[c].version
    BY <1>3, <1>4, <1>5, <2>1 DEF CategoryResults
  <2>6. result'[c].update <=> result[c].update \/ b
    BY <1>3, <1>4, <1>5, <2>1 DEF CategoryResults
  <2> QED
    BY <2>2, <2>3, <2>4, <2>5, <2>6
<1> QED
  BY <1>1, <1>2, <1>6

\* The empty results.
LEMMA NothingReached ==
  /\ NoResult \in [Categories -> CategoryResults] /\ Unbound \in [Categories -> 0..MaxForum]
  /\ \A c \in Categories : NoResult[c] = Nothing /\ Unbound[c] = 0
  /\ Nothing.resource = 0 /\ ~Nothing.version /\ ~Nothing.update
<1>1. MaxForum \in Nat
  BY DispatchAssumption
<1>2. Nothing \in CategoryResults /\ Nothing.resource = 0 /\ ~Nothing.version /\ ~Nothing.update
  BY <1>1 DEF Nothing, CategoryResults
<1> QED
  BY <1>1, <1>2 DEF NoResult, Unbound

\* Merged takes what was reached over what it is given.
LEMMA MergedIs ==
  ASSUME result \in [Categories -> CategoryResults], NEW old \in [Categories -> 0..MaxForum]
  PROVE  /\ Merged(old) \in [Categories -> 0..MaxForum]
         /\ \A c \in Categories :
              /\ result[c].resource # 0 => Merged(old)[c] = result[c].resource
              /\ result[c].resource = 0 => Merged(old)[c] = old[c]
<1>1. \A c \in Categories : result[c].resource \in 0..MaxForum
  BY DEF CategoryResults
<1> QED
  BY <1>1 DEF Merged

\* Bindings and results keep their types.
LEMMA ResultsKeep ==
  ASSUME Known, [Next]_vars
  PROVE  ResultsKnown'
<1>1. /\ binding \in [Categories -> 0..MaxForum] /\ existing \in [Categories -> 0..MaxForum]
      /\ progress \in [Categories -> CategoryResults] /\ result \in [Categories -> CategoryResults]
  BY DEF Known, ResultsKnown
<1>2. CASE \E p \in Plans : Submit(p)
  BY <1>1, <1>2, ClaimedAreImported DEF Submit, local, ResultsKnown
<1>3. CASE Approve \/ Retry \/ Cancel \/ Begin
  BY <1>1, <1>3, NothingReached DEF Approve, Retry, Cancel, Begin, local, ResultsKnown
<1>4. ASSUME NEW c \in Categories, Post(c) PROVE ResultsKnown'
  <2>1. result' \in [Categories -> CategoryResults]
    BY <1>4, PostReaches
  <2> QED
    BY <1>1, <1>4, <2>1 DEF Post, rows, ResultsKnown
<1>5. ASSUME NEW c \in Categories, PostFails(c) PROVE ResultsKnown'
  <2>1. result' \in [Categories -> CategoryResults]
    BY <1>5, PostFailsReaches
  <2> QED
    BY <1>1, <1>5, <2>1 DEF PostFails, rows, ResultsKnown
<1>6. CASE AddVersion
  BY <1>1, <1>6, VersionReaches DEF AddVersion, rows, ResultsKnown
<1>7. CASE AddVersionFails \/ AddUpdateFails \/ UNCHANGED vars
  BY <1>1, <1>7 DEF AddVersionFails, AddUpdateFails, vars, rows, local, ResultsKnown
<1>8. CASE AddUpdate
  BY <1>1, <1>8, UpdateReaches DEF AddUpdate, rows, ResultsKnown
<1>9. CASE Finish \/ Fail
  <2>1. Merged(existing) \in [Categories -> 0..MaxForum] /\ Merged(binding) \in [Categories -> 0..MaxForum]
    BY <1>1, MergedIs
  <2>2. /\ existing' \in [Categories -> 0..MaxForum] /\ result' \in [Categories -> CategoryResults]
    BY <1>9, NothingReached DEF Finish, Fail, Return
  <2>3. binding' \in [Categories -> 0..MaxForum] /\ progress' \in [Categories -> CategoryResults]
    BY <1>1, <1>9, <2>1, NothingReached DEF Finish, Fail
  <2> QED
    BY <2>2, <2>3 DEF ResultsKnown
<1>10. CASE FinishFails \/ Stop
  BY <1>1, <1>10, NothingReached DEF FinishFails, Stop, Return, rows, ResultsKnown
<1> QED
  BY <1>2, <1>3, <1>4, <1>5, <1>6, <1>7, <1>8, <1>9, <1>10 DEF Next

\* Every id a step brings in is one known of the category, one found, or that of
\* a resource it made.
LEMMA PointingKeeps ==
  ASSUME Known, ClaimedStay, [Next]_vars
  PROVE  Pointing'
<1> DEFINE Of(c, f) == f <= Len(forum) /\ forum[f].category = c
           Ids(c) == {binding[c], existing[c], progress[c].resource, result[c].resource}
           Made(c, f) == f <= Len(forum') /\ forum'[f].category = c
<1>1. \A c \in Categories, f \in 1..MaxForum : f \in Ids(c) => Of(c, f)
  BY DEF Known, Pointing
<1>2. \A c \in Categories, f \in 1..MaxForum : Of(c, f) => Made(c, f)
  <2>1. ForumMoves /\ Len(forum) \in Nat /\ MaxForum \in Nat
    BY ForumMovesAlways, DispatchAssumption DEF Known, ForumKnown
  <2>2. Len(forum) <= Len(forum') /\ Len(forum') \in Nat
        /\ \A f \in 1..Len(forum) : forum'[f].category = forum[f].category
    BY <2>1 DEF ForumMoves
  <2> QED
    BY <2>1, <2>2
<1> SUFFICES ASSUME NEW c \in Categories, NEW f \in 1..MaxForum,
                    f \in {binding'[c], existing'[c], progress'[c].resource, result'[c].resource}
             PROVE  Made(c, f)
  BY DEF Pointing
<1>3. ASSUME f \in Ids(c) PROVE Made(c, f)
  BY <1>1, <1>2, <1>3
<1>0. f # 0 /\ f \in Nat
  BY DispatchAssumption
<1> HIDE DEF Made, Of
<1>4. CASE \E p \in Plans : Submit(p)
  <2>1. CASE f \in Ids(c)
    BY <1>3, <2>1
  <2>2. CASE f = ClaimedBinding[c]
    <3>1. c \in Claimed
      BY <1>0, <2>2, ClaimedAreImported
    <3>2. Of(c, f)
      BY <2>2, <3>1 DEF ClaimedStay, Of
    <3> QED
      BY <1>2, <3>2
  <2>3. f \in Ids(c) \/ f = ClaimedBinding[c]
    BY <1>4 DEF Submit, local
  <2> QED
    BY <2>1, <2>2, <2>3
<1>5. CASE Approve \/ Retry \/ Cancel \/ Begin
  <2>1. f \in Ids(c)
    BY <1>0, <1>5, NothingReached DEF Approve, Retry, Cancel, Begin, local
  <2> QED
    BY <1>3, <2>1
<1>6. ASSUME NEW d \in Categories, Post(d) PROVE Made(c, f)
  <2>1. PICK g \in Target(d) :
           /\ g = 0 => Len(forum) < MaxForum
           /\ forum' = Posted(d, g)
           /\ \A e \in Categories \ {d} : result'[e] = result[e]
           /\ result'[d].resource = IF g = 0 THEN Len(forum) + 1 ELSE g
    BY <1>6, PostReaches
  <2>2. CASE f \in Ids(c)
    BY <1>3, <2>2
  <2>3. CASE c = d /\ g # 0 /\ f = g
    <3>1. Of(c, f)
      BY <2>3, TargetsPoint DEF Of
    <3> QED
      BY <1>2, <3>1
  <2>4. CASE c = d /\ g = 0 /\ f = Len(forum) + 1
    <3>1. forum' = Append(forum, ForumResource(c, plan[current].name, <<current>>))
      BY <2>1, <2>4 DEF Posted, Plan
    <3>2. Len(forum') = Len(forum) + 1 /\ forum'[f] = ForumResource(c, plan[current].name, <<current>>)
      BY <2>4, <3>1 DEF Known, ForumKnown
    <3>3. f <= Len(forum')
      BY <1>0, <2>4, <3>2
    <3> QED
      BY <3>2, <3>3 DEF Made, ForumResource
  <2>5. \/ f \in Ids(c)
        \/ c = d /\ g # 0 /\ f = g
        \/ c = d /\ g = 0 /\ f = Len(forum) + 1
    <3>1. binding' = binding /\ existing' = existing /\ progress' = progress
      BY <1>6 DEF Post, rows
    <3>2. CASE c = d
      BY <2>1, <3>1, <3>2
    <3>3. CASE c # d
      BY <2>1, <3>1, <3>3
    <3> QED
      BY <3>2, <3>3
  <2> QED
    BY <2>2, <2>3, <2>4, <2>5
<1>7. ASSUME NEW d \in Categories, PostFails(d) PROVE Made(c, f)
  <2>1. CASE f \in Ids(c)
    BY <1>3, <2>1
  <2>2. CASE c = d /\ f \in Target(c)
    <3>1. Of(c, f)
      BY <1>0, <2>2, TargetsPoint DEF Of
    <3> QED
      BY <1>2, <3>1
  <2>3. f \in Ids(c) \/ (c = d /\ f \in Target(c))
    <3>1. binding' = binding /\ existing' = existing /\ progress' = progress
      BY <1>7 DEF PostFails, rows
    <3>2. CASE c = d
      BY <1>7, <3>1, <3>2, PostFailsReaches
    <3>3. CASE c # d
      <4>1. result'[c] = result[c]
        BY <1>7, <3>3, PostFailsReaches
      <4> QED
        BY <3>1, <4>1
    <3> QED
      BY <3>2, <3>3
  <2> QED
    BY <2>1, <2>2, <2>3
<1>8. CASE AddVersion
  <2>1. f \in Ids(c)
    BY <1>8, VersionReaches DEF AddVersion, rows
  <2> QED
    BY <1>3, <2>1
<1>9. CASE AddVersionFails \/ AddUpdateFails \/ UNCHANGED vars
  <2>1. f \in Ids(c)
    BY <1>9 DEF AddVersionFails, AddUpdateFails, vars, rows, local
  <2> QED
    BY <1>3, <2>1
<1>10. CASE AddUpdate
  <2>1. f \in Ids(c)
    BY <1>10, UpdateReaches DEF AddUpdate, rows
  <2> QED
    BY <1>3, <2>1
<1>11. CASE Finish \/ Fail
  <2>1. /\ result \in [Categories -> CategoryResults]
        /\ binding \in [Categories -> 0..MaxForum] /\ existing \in [Categories -> 0..MaxForum]
    BY DEF Known, ResultsKnown
  <2>2. /\ Merged(binding)[c] \in {binding[c], result[c].resource}
        /\ Merged(existing)[c] \in {existing[c], result[c].resource}
    BY <2>1, MergedIs
  <2>3. existing'[c] = 0 /\ result'[c].resource = 0
    BY <1>11, NothingReached DEF Finish, Fail, Return
  <2>4. binding'[c] \in Ids(c) /\ progress'[c].resource \in Ids(c) \union {0}
    BY <1>11, <2>2, NothingReached DEF Finish, Fail
  <2>5. f \in Ids(c)
    BY <1>0, <2>3, <2>4
  <2> QED
    BY <1>3, <2>5
<1>12. CASE FinishFails \/ Stop
  <2>1. f \in Ids(c)
    BY <1>0, <1>12, NothingReached DEF FinishFails, Stop, Return, rows
  <2> QED
    BY <1>3, <2>1
<1> QED
  BY <1>4, <1>5, <1>6, <1>7, <1>8, <1>9, <1>10, <1>11, <1>12 DEF Next

\* Result, progress and binding do not part.
LEMMA ReachedKeeps ==
  ASSUME Known, Reached, ClaimedStay, [Next]_vars
  PROVE  Reached'
<1>1. /\ binding \in [Categories -> 0..MaxForum] /\ existing \in [Categories -> 0..MaxForum]
      /\ progress \in [Categories -> CategoryResults] /\ result \in [Categories -> CategoryResults]
  BY DEF Known, ResultsKnown
<1>0. \A c \in Categories :
        /\ binding[c] \in 0..MaxForum /\ existing[c] \in 0..MaxForum
        /\ progress[c].resource \in 0..MaxForum /\ result[c].resource \in 0..MaxForum
  BY <1>1 DEF CategoryResults
<1>2. ASSUME NEW p \in Plans, Submit(p) PROVE Reached'
  <2>1. UNCHANGED <<current, progress, pc, existing, result>>
    BY <1>2 DEF Submit, local
  <2>2. ASSUME NEW c \in Categories, progress[c].resource # 0
        PROVE  binding'[c] \in {0, progress[c].resource}
    <3>1. CASE binding' = binding
      BY <2>2, <3>1 DEF Reached
    <3>2. CASE binding' = ClaimedBinding /\ c \notin Claimed
      BY <3>2, ClaimedAreImported
    <3>3. CASE binding' = ClaimedBinding /\ c \in Claimed
      <4>1. current # 0
        BY <2>2, NothingReached DEF Reached
      <4>2. plan # <<>>
        BY <4>1 DEF Known, RevisionsKnown
      <4>3. binding[c] = ClaimedBinding[c]
        BY <3>3, <4>2 DEF ClaimedStay
      <4> QED
        BY <2>2, <3>3, <4>3 DEF Reached
    <3> QED
      BY <1>2, <3>1, <3>2, <3>3 DEF Submit
  <2> QED
    BY <2>1, <2>2 DEF Reached
<1>3. CASE Approve
  <2>1. /\ pc = "idle" /\ UNCHANGED <<binding, pc, existing, result>>
        /\ progress' = NoResult
    BY <1>3 DEF Approve, local
  <2> QED
    BY <2>1, NothingReached DEF Reached
<1>4. CASE Retry \/ Cancel \/ UNCHANGED vars
  <2>1. UNCHANGED <<current, progress, binding, pc, existing, result>>
    BY <1>4 DEF Retry, Cancel, vars, rows, local
  <2> QED
    BY <2>1 DEF Reached
<1>5. CASE Begin
  <2>1. /\ UNCHANGED <<current, progress, binding>>
        /\ existing' = binding /\ result' = progress /\ pc' = "choosing"
    BY <1>5 DEF Begin
  <2> QED
    BY <2>1 DEF Reached
<1>6. ASSUME NEW c \in Categories, NEW f \in Target(c), pc = "choosing", pc' # "idle",
             UNCHANGED <<current, progress, binding, existing>>,
             \A d \in Categories \ {c} : result'[d] = result[d],
             result'[c].update = result[c].update,
             \/ result'[c].resource = f /\ result'[c].version = result[c].version
             \/ /\ f = 0 /\ result'[c].resource # 0 /\ result'[c].version
                /\ result[c].resource = 0
      PROVE  Reached'
  <2>1. ASSUME NEW d \in Categories \ {c}
        PROVE  /\ result'[d].version \/ result'[d].update => result'[d].resource # 0
               /\ progress'[d].version \/ progress'[d].update => progress'[d].resource # 0
               /\ pc' = "idle" => result'[d] = Nothing
               /\ current' = 0 => progress'[d] = Nothing
               /\ pc' # "idle" /\ progress'[d].version => result'[d].version
               /\ pc' # "idle" /\ progress'[d].resource # 0 => result'[d].resource = progress'[d].resource
               /\ progress'[d].resource # 0 => binding'[d] \in {0, progress'[d].resource}
               /\ result'[d].resource # 0 => existing'[d] \in {0, result'[d].resource}
    BY <1>6 DEF Reached
  <2>2. /\ f = 0 => existing[c] = 0 /\ result[c].resource = 0
        /\ existing[c] # 0 => f = existing[c]
        /\ existing[c] = 0 /\ result[c].resource # 0 => f = result[c].resource
    BY TargetsPoint
  <2>3. result[c].resource # 0 => f = result[c].resource
    BY <2>2 DEF Reached
  <2>4. /\ result'[c].version \/ result'[c].update => result'[c].resource # 0
        /\ progress'[c].version \/ progress'[c].update => progress'[c].resource # 0
        /\ current' = 0 => progress'[c] = Nothing
        /\ progress'[c].version => result'[c].version
        /\ progress'[c].resource # 0 => result'[c].resource = progress'[c].resource
        /\ progress'[c].resource # 0 => binding'[c] \in {0, progress'[c].resource}
        /\ result'[c].resource # 0 => existing'[c] \in {0, result'[c].resource}
    BY <1>6, <2>2, <2>3 DEF Reached
  <2> QED
    BY <1>6, <2>1, <2>4 DEF Reached
<1>7. ASSUME NEW c \in Categories, Post(c) PROVE Reached'
  <2>1. PICK f \in Target(c) :
           /\ \A d \in Categories \ {c} : result'[d] = result[d]
           /\ result'[c].resource = IF f = 0 THEN Len(forum) + 1 ELSE f
           /\ result'[c].version <=> result[c].version \/ f = 0
           /\ result'[c].update = result[c].update
           /\ result' \in [Categories -> CategoryResults]
    BY <1>7, PostReaches
  <2>2. pc = "choosing" /\ pc' # "idle" /\ UNCHANGED <<current, progress, binding, existing>>
    BY <1>7 DEF Post, rows
  <2>3. CASE f = 0
    <3>1. result'[c].resource # 0 /\ result'[c].version /\ result[c].resource = 0
      BY <2>1, <2>3, TargetsPoint
    <3> QED
      BY <1>6, <2>1, <2>2, <2>3, <3>1
  <2>4. CASE f # 0
    <3>1. result'[c].version = result[c].version
      BY <1>1, <2>1, <2>4 DEF CategoryResults
    <3> QED
      BY <1>6, <2>1, <2>2, <2>4, <3>1
  <2> QED
    BY <2>3, <2>4
<1>8. ASSUME NEW c \in Categories, PostFails(c) PROVE Reached'
  <2>1. pc = "choosing" /\ pc' # "idle" /\ UNCHANGED <<current, progress, binding, existing>>
    BY <1>8 DEF PostFails, rows
  <2>2. CASE result'[c].resource \in Target(c)
    <3>1. PICK f \in Target(c) : f = result'[c].resource
      BY <2>2
    <3> QED
      BY <1>6, <1>8, <2>1, <3>1, PostFailsReaches
  <2>3. CASE result'[c].resource = result[c].resource
    <3>1. \A d \in Categories :
            /\ result'[d].resource = result[d].resource /\ result'[d].version = result[d].version
            /\ result'[d].update = result[d].update
      BY <1>8, <2>3, PostFailsReaches
    <3> QED
      BY <2>1, <3>1 DEF Reached
  <2> QED
    BY <1>8, <2>2, <2>3, PostFailsReaches
<1>9. CASE AddVersion \/ AddUpdate
  <2>1. /\ pc # "idle" /\ pc' # "idle" /\ UNCHANGED <<current, progress, binding, existing>>
        /\ category \in Categories /\ result[category].resource # 0
    BY <1>9 DEF AddVersion, AddUpdate, rows, Known, CategoryKnown
  <2>2. \A d \in Categories :
          /\ result'[d].resource = result[d].resource
          /\ result[d].version => result'[d].version
          /\ d # category => result'[d] = result[d]
    <3>1. CASE AddVersion
      <4>1. \A d \in Categories \ {category} : result'[d] = result[d]
        BY <3>1, VersionReaches
      <4>2. result'[category].resource = result[category].resource /\ result'[category].version
        BY <3>1, VersionReaches
      <4> QED
        BY <4>1, <4>2
    <3>2. CASE AddUpdate
      <4>1. \A d \in Categories \ {category} : result'[d] = result[d]
        BY <3>2, UpdateReaches
      <4>2. result'[category].resource = result[category].resource /\ result'[category].version = result[category].version
        BY <3>2, UpdateReaches
      <4> QED
        BY <4>1, <4>2
    <3> QED
      BY <1>9, <3>1, <3>2
  <2>3. \A d \in Categories : result'[d].version \/ result'[d].update => result'[d].resource # 0
    BY <2>1, <2>2 DEF Reached
  <2> QED
    BY <2>1, <2>2, <2>3 DEF Reached
<1>10. CASE AddVersionFails \/ AddUpdateFails
  <2>1. pc # "idle" /\ pc' # "idle" /\ UNCHANGED <<current, progress, binding, existing, result>>
    BY <1>10 DEF AddVersionFails, AddUpdateFails, rows, local
  <2> QED
    BY <2>1 DEF Reached
<1>11. CASE Finish
  <2>1. pc' = "idle" /\ result' = NoResult /\ existing' = Unbound /\ progress' = NoResult
    BY <1>11 DEF Finish, Return
  <2> QED
    BY <2>1, NothingReached DEF Reached
<1>12. CASE Fail
  <2>1. pc = "failing" /\ pc' = "idle" /\ result' = NoResult /\ existing' = Unbound /\ current' = current
    BY <1>12 DEF Fail, Return
  <2>2. \/ binding' = Merged(binding) /\ progress' \in {result, progress}
        \/ binding' = binding /\ progress' = progress
    BY <1>12 DEF Fail
  <2>3. \A c \in Categories :
          /\ result[c].resource # 0 => Merged(binding)[c] = result[c].resource
          /\ result[c].resource = 0 => Merged(binding)[c] = binding[c]
    BY <1>1, MergedIs
  <2>4. current # 0
    BY <2>1 DEF Known, AttemptsKnown
  <2>5. \A c \in Categories :
          /\ progress'[c].version \/ progress'[c].update => progress'[c].resource # 0
          /\ progress'[c].resource # 0 => binding'[c] \in {0, progress'[c].resource}
    BY <2>1, <2>2, <2>3 DEF Reached
  <2> QED
    BY <2>1, <2>4, <2>5, NothingReached DEF Reached
<1>13. CASE FinishFails \/ Stop
  <2>1. /\ pc # "idle" /\ pc' = "idle" /\ result' = NoResult /\ existing' = Unbound
        /\ UNCHANGED <<current, binding, progress>>
    BY <1>13 DEF FinishFails, Stop, Return, rows
  <2> QED
    BY <2>1, NothingReached DEF Reached
<1> QED
  BY <1>2, <1>3, <1>4, <1>5, <1>7, <1>8, <1>9, <1>10, <1>11, <1>12, <1>13 DEF Next

\* A category leaves the list only with all it asks for.
LEMMA CategoryKeeps ==
  ASSUME Known, Reached, [Next]_vars
  PROVE  CategoryKnown'
<1>1. /\ progress \in [Categories -> CategoryResults] /\ result \in [Categories -> CategoryResults]
  BY DEF Known, ResultsKnown
<1>2. current # 0 => current \in 1..Len(plan) /\ plan'[current] = plan[current]
  BY PlanOfCurrent, PlanKeeps DEF Known
<1>3. pc # "idle" => current # 0
  BY DEF Known, AttemptsKnown
<1>4. CASE pc' = "idle" \/ pc' = "failing"
  BY <1>4 DEF CategoryKnown
<1>5. CASE (\E p \in Plans : Submit(p)) \/ Retry \/ Cancel \/ UNCHANGED vars
  <2>1. UNCHANGED <<current, pc, result, todo, category>>
    BY <1>5 DEF Submit, Retry, Cancel, vars, rows, local
  <2>2. pc # "idle" => plan'[current'] = plan[current]
    BY <1>2, <1>3, <2>1
  <2> QED
    BY <2>1, <2>2 DEF CategoryKnown, Known
<1>6. CASE Begin
  <2>1. /\ UNCHANGED <<current, plan>> /\ result' = progress /\ pc' = "choosing"
        /\ todo' = {c \in Categories : ~FullyDone(progress[c])}
    BY <1>6 DEF Begin
  <2> QED
    BY <2>1 DEF CategoryKnown, FullyDone, Plan
<1>7. ASSUME NEW c \in Categories, Post(c) PROVE CategoryKnown'
  <2>1. PICK f \in Target(c) :
           /\ \A d \in Categories \ {c} : result'[d] = result[d]
           /\ result'[c].resource = IF f = 0 THEN Len(forum) + 1 ELSE f
    BY <1>7, PostReaches
  <2>2. pc = "choosing" /\ pc' = "versioning" /\ UNCHANGED <<current, plan, todo>> /\ c \in todo /\ category' = c
    BY <1>7 DEF Post, rows
  <2>3. result'[c].resource # 0
    BY <2>1, TargetsPoint
  <2> QED
    BY <2>1, <2>2, <2>3 DEF CategoryKnown, Known
<1>8. CASE AddVersion
  <2>1. pc = "versioning" /\ pc' = "updating" /\ UNCHANGED <<current, plan, todo, category>>
    BY <1>8 DEF AddVersion, rows
  <2>2. category \in Categories /\ result[category].resource # 0
    BY <2>1 DEF Known, CategoryKnown
  <2>3. \A d \in Categories \ {category} : result'[d] = result[d]
    BY <1>8, VersionReaches
  <2>4. result'[category].resource = result[category].resource /\ result'[category].version
        /\ result'[category].update = result[category].update
    BY <1>8, VersionReaches
  <2>5. \A c \in Categories \ todo :
         result'[c].version /\ (plan[current].notes # "" => result'[c].update)
    BY <2>1, <2>3, <2>4 DEF Known, CategoryKnown
  <2> QED
    BY <2>1, <2>2, <2>4, <2>5 DEF CategoryKnown
<1>9. CASE AddUpdate
  <2>1. pc = "updating" /\ pc' = "choosing" /\ UNCHANGED <<current, plan>> /\ todo' = todo \ {category}
    BY <1>9 DEF AddUpdate, rows
  <2>2. category \in Categories /\ result[category].version
    BY <2>1 DEF Known, CategoryKnown
  <2>3. \A d \in Categories \ {category} : result'[d] = result[d]
    BY <1>9, UpdateReaches
  <2>4. result'[category].version /\ (plan[current].notes # "" => result'[category].update)
    BY <1>9, <2>2, UpdateReaches DEF UpdateNeeded, InHand, Plan
  <2>5. \A c \in Categories \ todo' :
         result'[c].version /\ (plan[current].notes # "" => result'[c].update)
    BY <2>1, <2>3, <2>4 DEF Known, CategoryKnown
  <2> QED
    BY <2>1, <2>5 DEF CategoryKnown
<1>10. ASSUME \/ Approve \/ AddVersionFails \/ AddUpdateFails \/ Finish \/ FinishFails \/ Fail \/ Stop
              \/ \E c \in Categories : PostFails(c)
       PROVE  pc' = "idle" \/ pc' = "failing"
  BY <1>10 DEF Approve, local, AddVersionFails, AddUpdateFails, Finish, FinishFails, Fail, Stop, Return, PostFails
<1> QED
  BY <1>4, <1>5, <1>6, <1>7, <1>8, <1>9, <1>10 DEF Next

\* No step binds a claimed category to another resource: MayBind refuses to move
\* a category, and the claim that is saved over it is the same one.
LEMMA ClaimsStay ==
  ASSUME Known, ClaimedStay, [Next]_vars
  PROVE  ClaimedStay'
<1> SUFFICES ASSUME NEW c \in Claimed
             PROVE  /\ ClaimedBinding[c] \in 1..Len(forum') /\ forum'[ClaimedBinding[c]].category = c
                    /\ plan' # <<>> => binding'[c] = ClaimedBinding[c]
                    /\ pc' # "idle" => existing'[c] = ClaimedBinding[c]
  <2>1. ClaimedBinding' = ClaimedBinding
    BY DEF ClaimedBinding, Imported
  <2> QED
    BY <2>1 DEF ClaimedStay
<1>1. /\ binding \in [Categories -> 0..MaxForum] /\ existing \in [Categories -> 0..MaxForum]
      /\ result \in [Categories -> CategoryResults]
  BY DEF Known, ResultsKnown
<1>2. c \in Categories /\ Claimed # {} /\ ClaimedBinding[c] # 0
  BY ClaimedAreImported
<1>3. ClaimedBinding[c] \in 1..Len(forum') /\ forum'[ClaimedBinding[c]].category = c
  BY ForumMovesAlways DEF ForumMoves, ClaimedStay, Known, ForumKnown
<1>4. /\ plan # <<>> => binding[c] = ClaimedBinding[c]
      /\ pc # "idle" => existing[c] = ClaimedBinding[c]
  BY DEF ClaimedStay
<1>5. current # 0 => plan # <<>>
  BY DEF Known, RevisionsKnown
<1>6. (state \in {"pending", "running"} => current # 0) /\ (pc # "idle" => current # 0)
  BY DEF Known, AttemptsKnown
<1>7. CASE \E p \in Plans : Submit(p)
  BY <1>2, <1>3, <1>4, <1>7 DEF Submit, local
<1>8. CASE Begin
  BY <1>3, <1>4, <1>5, <1>6, <1>8 DEF Begin
<1>9. CASE \/ Approve \/ Retry \/ Cancel \/ UNCHANGED vars \/ AddVersion \/ AddVersionFails
           \/ AddUpdate \/ AddUpdateFails \/ Stop \/ FinishFails
           \/ \E d \in Categories : Post(d) \/ PostFails(d)
  <2>1. plan' = plan /\ binding' = binding
    BY <1>9 DEF Approve, Retry, Cancel, vars, rows, AddVersion, AddVersionFails, AddUpdate, AddUpdateFails,
       Stop, FinishFails, Post, PostFails
  <2>2. pc' # "idle" => existing' = existing /\ pc # "idle"
    BY <1>9 DEF Approve, Retry, Cancel, vars, local, AddVersion, AddVersionFails, AddUpdate, AddUpdateFails,
       Stop, FinishFails, Return, Post, PostFails
  <2> QED
    BY <1>3, <1>4, <2>1, <2>2
<1>10. CASE Finish \/ Fail
  <2>1. pc' = "idle" /\ plan' = plan /\ pc # "idle"
    BY <1>10 DEF Finish, Fail, Return
  <2>2. \/ MayBind(Merged(existing)) /\ binding' = Merged(existing)
        \/ MayBind(Merged(binding)) /\ binding' = Merged(binding)
        \/ binding' = binding
    BY <1>10 DEF Finish, Fail
  <2>3. binding[c] # 0 => binding'[c] = binding[c]
    BY <1>2, <2>2 DEF MayBind
  <2> QED
    BY <1>2, <1>3, <1>4, <2>1, <2>3
<1> QED
  BY <1>7, <1>8, <1>9, <1>10 DEF Next

\* Evidence of a forum resource stays evidence as long as its versions stay.
LEMMA EvidenceStays ==
  ASSUME Known, [Next]_vars, current' = current, current # 0, NEW f \in 1..Len(forum)
  PROVE  /\ Told(f) => Told(f)'
         /\ forum'[f].versions = forum[f].versions =>
              (Shows(f) => Shows(f)') /\ (Single(f) => Single(f)')
<1>1. /\ current \in Nat /\ current <= Len(plan) /\ Len(plan) \in Nat
      /\ \A i \in 1..Len(plan) : plan'[i] = plan[i]
  BY PlanOfCurrent, PlanKeeps DEF Known
<1>2. plan'[current] = plan[current] /\ \A i \in 1..current : plan'[i] = plan[i]
  BY <1>1
<1>3. forum[f] \in ForumRecords
  BY DEF Known, ForumKnown
<1>4. forum[f].versions \in Seq(Nat) /\ forum[f].updates \in Seq(Nat)
  BY <1>3 DEF ForumRecords
<1>5. ASSUME Told(f) PROVE Told(f)'
  <2>1. ASSUME plan[current].notes # ""
        PROVE  \E i \in 1..Len(forum'[f].updates) : plan'[forum'[f].updates[i]].notes = plan[current].notes
    <3>1. PICK i \in 1..Len(forum[f].updates) : plan[forum[f].updates[i]].notes = plan[current].notes
      BY <1>5, <2>1 DEF Told
    <3>2. plan'[forum[f].updates[i]].notes = plan[current].notes
      BY <1>2, <3>1 DEF Known, ForumKnown
    <3>3. forum'[f].updates = forum[f].updates \/ forum'[f].updates = Append(forum[f].updates, current)
      BY ForumMovesAlways DEF ForumMoves
    <3>4. i \in 1..Len(forum'[f].updates) /\ forum'[f].updates[i] = forum[f].updates[i]
      <4>1. \A u \in Seq(Nat), n \in Nat : \A k \in 1..Len(u) : k \in 1..Len(Append(u, n)) /\ Append(u, n)[k] = u[k]
        OBVIOUS
      <4>2. i \in 1..Len(Append(forum[f].updates, current)) /\ Append(forum[f].updates, current)[i] = forum[f].updates[i]
        BY <1>1, <1>4, <4>1
      <4> QED
        BY <3>3, <4>2
    <3> QED
      BY <3>2, <3>4
  <2> QED
    BY <1>2, <2>1 DEF Told
<1>6. ASSUME forum'[f].versions = forum[f].versions, Shows(f) PROVE Shows(f)'
  <2>1. CASE \E i \in 1..Len(forum[f].versions) : forum[f].versions[i] = current
    BY <1>6, <2>1 DEF Shows
  <2>2. CASE HasTwin(current)
    <3>1. PICK m \in 1..(current - 1) :
            plan[m].version # "" /\ plan[m].version = plan[current].version /\ plan[m].file = plan[current].file
      BY <2>2 DEF HasTwin
    <3>3. m \in 1..current
      BY <1>1
    <3>2. m \in 1..(current' - 1) /\ plan'[m] = plan[m]
      BY <1>2, <3>3
    <3> QED
      BY <1>2, <3>1, <3>2 DEF Shows, HasTwin
  <2> QED
    BY <1>6, <2>1, <2>2 DEF Shows
<1>7. ASSUME forum'[f].versions = forum[f].versions, Single(f) PROVE Single(f)'
  <2>1. \A j \in 1..Len(forum[f].versions) :
          forum[f].versions[j] # 0 => plan'[forum[f].versions[j]] = plan[forum[f].versions[j]]
    <3>1. \A j \in 1..Len(forum[f].versions) : forum[f].versions[j] \in Nat /\ forum[f].versions[j] <= current
      BY <1>4 DEF Known, ForumKnown
    <3> QED
      BY <1>1, <1>2, <3>1
  <2> DEFINE v == forum[f].versions
  <2>2. plan[current].version # "" /\ ~plan[current].overwrite =>
          \E i \in 1..Len(v) : \A j \in 1..Len(v) :
            (v[j] # 0 /\ plan[v[j]].version = plan[current].version /\ plan[current].version # "") <=> j = i
    BY <1>7 DEF Single, SameVersion, Plan
  <2>3. plan[current].version # "" /\ ~plan[current].overwrite =>
          \E i \in 1..Len(v) : \A j \in 1..Len(v) :
            (v[j] # 0 /\ plan'[v[j]].version = plan[current].version /\ plan[current].version # "") <=> j = i
    <3> HIDE DEF v
    <3>1. \A j \in 1..Len(v) : v[j] # 0 => plan'[v[j]] = plan[v[j]]
      BY <2>1 DEF v
    <3> QED
      BY <2>2, <3>1
  <2>4. plan'[current'].version # "" /\ ~plan'[current'].overwrite =>
          \E i \in 1..Len(forum'[f].versions) : \A j \in 1..Len(forum'[f].versions) :
            (forum'[f].versions[j] # 0 /\ plan'[forum'[f].versions[j]].version = plan'[current'].version
               /\ plan'[current'].version # "") <=> j = i
    <3>1. plan'[current'] = plan[current] /\ forum'[f].versions = v
      BY <1>2, <1>7
    <3> HIDE DEF v
    <3>2. ASSUME plan'[current'].version # "" /\ ~plan'[current'].overwrite
          PROVE  \E i \in 1..Len(v) : \A j \in 1..Len(v) :
                   (v[j] # 0 /\ plan'[v[j]].version = plan'[current'].version
                      /\ plan'[current'].version # "") <=> j = i
      <4>1. PICK i \in 1..Len(v) : \A j \in 1..Len(v) :
              (v[j] # 0 /\ plan'[v[j]].version = plan[current].version /\ plan[current].version # "") <=> j = i
        BY <2>3, <3>1, <3>2
      <4>2. plan'[current'].version = plan[current].version
        BY <3>1
      <4>3. ASSUME NEW j \in 1..Len(v)
            PROVE  (v[j] # 0 /\ plan'[v[j]].version = plan'[current'].version
                      /\ plan'[current'].version # "") <=> j = i
        BY <4>1, <4>2, <4>3
      <4> QED
        BY <4>3
    <3> QED
      BY <3>1, <3>2, Zenon
  <2> QED
    BY <2>4 DEF Single, SameVersion, Plan
<1> QED
  BY <1>5, <1>6, <1>7

\* What was recorded of the version and the update goes on to be so.
LEMMA EvidenceHolds ==
  ASSUME Known, Evident, Reached, [Next]_vars, current' = current,
         NEW c \in Categories, NEW f \in 1..MaxForum
  PROVE  /\ result[c].resource = f =>
              (result[c].version => Shows(f)' /\ Single(f)') /\ (result[c].update => Told(f)')
         /\ progress[c].resource = f =>
              (progress[c].version => Shows(f)' /\ Single(f)') /\ (progress[c].update => Told(f)')
<1>0. f # 0 /\ f \in Nat
  BY DispatchAssumption
<1>1. ASSUME f \in {result[c].resource, progress[c].resource}
      PROVE  f \in 1..Len(forum) /\ forum[f].category = c /\ current # 0
  <2>1. f <= Len(forum) /\ forum[f].category = c
    BY <1>1 DEF Known, Pointing
  <2>2. f \in 1..Len(forum)
    BY <1>0, <2>1 DEF Known, ForumKnown
  <2>3. current # 0
    <3>1. current = 0 => result[c] = Nothing /\ progress[c] = Nothing
      BY DEF Reached, Known, AttemptsKnown
    <3> QED
      BY <1>0, <1>1, <3>1, NothingReached
  <2> QED
    BY <2>1, <2>2, <2>3
<1>2. ASSUME f \in 1..Len(forum), forum[f].category = c, result[c].version \/ pc = "idle"
      PROVE  forum'[f].versions = forum[f].versions
  <2>1. SUFFICES ASSUME pc = "versioning", f = result[category].resource, ~result[category].version
                 PROVE  FALSE
    BY <1>2, ForumMovesAlways DEF ForumMoves
  <2>2. category \in Categories
    BY <2>1 DEF Known, CategoryKnown
  <2>3. forum[f].category = category
    BY <2>1, <2>2 DEF Known, Pointing
  <2> QED
    BY <1>2, <2>1, <2>3
<1>3. progress[c].version => result[c].version \/ pc = "idle"
  BY DEF Reached
<1>4. ASSUME result[c].resource = f
      PROVE  (result[c].version => Shows(f)' /\ Single(f)') /\ (result[c].update => Told(f)')
  BY <1>1, <1>2, <1>4, EvidenceStays DEF Evident
<1>5. ASSUME progress[c].resource = f
      PROVE  (progress[c].version => Shows(f)' /\ Single(f)') /\ (progress[c].update => Told(f)')
  BY <1>1, <1>2, <1>3, <1>5, EvidenceStays DEF Evident
<1> QED
  BY <1>4, <1>5

\* Whatever step writes a result or copies one, what it says is so.
LEMMA EvidenceKeeps ==
  ASSUME Known, Evident, Reached, [Next]_vars
  PROVE  Evident'
<1> DEFINE OfResult(c, f) == result'[c].resource = f =>
                (result'[c].version => Shows(f)' /\ Single(f)') /\ (result'[c].update => Told(f)')
           OfProgress(c, f) == progress'[c].resource = f =>
                (progress'[c].version => Shows(f)' /\ Single(f)') /\ (progress'[c].update => Told(f)')
<1> SUFFICES ASSUME NEW c \in Categories, NEW f \in 1..MaxForum
             PROVE  OfResult(c, f) /\ OfProgress(c, f)
  BY DEF Evident
<1>0. f # 0 /\ f \in Nat
  BY DispatchAssumption
<1>1. ASSUME current' = current, result'[c] = result[c] PROVE OfResult(c, f)
  BY <1>1, EvidenceHolds
<1>2. ASSUME current' = current, progress'[c] = progress[c] PROVE OfProgress(c, f)
  BY <1>2, EvidenceHolds
<1>3. ASSUME result'[c] = Nothing PROVE OfResult(c, f)
  BY <1>3, NothingReached
<1>4. ASSUME progress'[c] = Nothing PROVE OfProgress(c, f)
  BY <1>4, NothingReached
<1>5. CASE (\E p \in Plans : Submit(p)) \/ Retry \/ Cancel \/ UNCHANGED vars \/ AddVersionFails \/ AddUpdateFails
  <2>1. UNCHANGED <<current, result, progress>>
    BY <1>5 DEF Submit, Retry, Cancel, vars, AddVersionFails, AddUpdateFails, rows, local
  <2> QED
    BY <1>1, <1>2, <2>1
<1>6. CASE Approve
  <2>1. result'[c] = Nothing /\ progress'[c] = Nothing
    BY <1>6, NothingReached DEF Approve, local, Reached
  <2> QED
    BY <1>3, <1>4, <2>1
<1>7. CASE Begin
  <2>1. current' = current /\ progress' = progress /\ result' = progress
    BY <1>7 DEF Begin
  <2> QED
    BY <1>2, <2>1, EvidenceHolds
<1>8. CASE Finish \/ FinishFails \/ Stop
  <2>1. /\ current' = current /\ result'[c] = Nothing
        /\ progress'[c] = progress[c] \/ progress'[c] = Nothing
    BY <1>8, NothingReached DEF Finish, FinishFails, Stop, Return, rows
  <2> QED
    BY <1>2, <1>3, <1>4, <2>1
<1>9. CASE Fail
  <2>1. /\ current' = current /\ result'[c] = Nothing
        /\ progress' = progress \/ progress' = result
    BY <1>9, NothingReached DEF Fail, Return
  <2> QED
    BY <1>2, <1>3, <2>1, EvidenceHolds
<1>10. ASSUME NEW d \in Categories, Post(d) PROVE OfResult(c, f) /\ OfProgress(c, f)
  <2>1. PICK g \in Target(d) :
           /\ forum' = Posted(d, g)
           /\ \A e \in Categories \ {d} : result'[e] = result[e]
           /\ result'[d].resource = IF g = 0 THEN Len(forum) + 1 ELSE g
           /\ result'[d].version <=> result[d].version \/ g = 0
           /\ result'[d].update = result[d].update
    BY <1>10, PostReaches
  <2>2. UNCHANGED <<current, progress, plan, existing>> /\ pc = "choosing"
    BY <1>10 DEF Post, rows
  <2>3. CASE c # d
    BY <1>1, <1>2, <2>1, <2>2, <2>3
  <2>4. CASE c = d /\ g # 0
    <3>1. ASSUME result'[c].resource = f
          PROVE  (result'[c].version => Shows(f)' /\ Single(f)') /\ (result'[c].update => Told(f)')
      <4>1. f = g /\ (result'[c].version <=> result[c].version) /\ result'[c].update = result[c].update
        BY <2>1, <2>4, <3>1
      <4>2. result[c].version \/ result[c].update => result[c].resource # 0
        BY DEF Reached
      <4>3. result[c].resource # 0 => result[c].resource = f
        <5>1. existing[c] # 0 => g = existing[c]
          BY <2>4, TargetsPoint
        <5>2. existing[c] = 0 /\ result[c].resource # 0 => g = result[c].resource
          BY <2>4, TargetsPoint
        <5> QED
          BY <4>1, <5>1, <5>2 DEF Reached
      <4> QED
        BY <2>2, <4>1, <4>2, <4>3, EvidenceHolds
    <3> QED
      BY <1>2, <2>2, <3>1
  <2>5. CASE c = d /\ g = 0
    <3>1. ASSUME result'[c].resource = f
          PROVE  (result'[c].version => Shows(f)' /\ Single(f)') /\ (result'[c].update => Told(f)')
      <4>1. f = Len(forum) + 1 /\ forum' = Append(forum, ForumResource(c, plan[current].name, <<current>>))
        BY <2>1, <2>5, <3>1 DEF Posted, Plan
      <4>2. forum'[f] = ForumResource(c, plan[current].name, <<current>>)
        BY <4>1 DEF Known, ForumKnown
      <4>3. forum'[f].versions = <<current>>
        BY <4>2 DEF ForumResource
      <4>4. current # 0
        BY <2>2 DEF Known, AttemptsKnown
      <4>5. Len(<<current>>) = 1 /\ <<current>>[1] = current /\ \A j \in 1..1 : j = 1
        OBVIOUS
      <4>6. Shows(f)'
        BY <2>2, <4>3, <4>5 DEF Shows
      <4>7. Single(f)'
        <5>1. plan'[current'].version # "" =>
                \A j \in 1..Len(forum'[f].versions) :
                  (forum'[f].versions[j] # 0 /\ plan'[forum'[f].versions[j]].version = plan'[current'].version
                     /\ plan'[current'].version # "") <=> j = 1
          BY <2>2, <4>3, <4>4, <4>5
        <5>2. 1 \in 1..Len(forum'[f].versions)
          BY <4>3, <4>5
        <5> QED
          BY <5>1, <5>2 DEF Single, SameVersion, Plan
      <4>8. ~result'[c].update
        <5>1. result[c].resource = 0
          BY <2>5, TargetsPoint
        <5> QED
          BY <2>1, <2>5, <5>1 DEF Reached
      <4> QED
        BY <4>6, <4>7, <4>8
    <3> QED
      BY <1>2, <2>2, <3>1
  <2> QED
    BY <2>3, <2>4, <2>5
<1>11. ASSUME NEW d \in Categories, PostFails(d) PROVE OfResult(c, f) /\ OfProgress(c, f)
  <2>1. UNCHANGED <<current, progress, plan, existing>>
    BY <1>11 DEF PostFails, rows
  <2>2. CASE c # d
    BY <1>1, <1>2, <1>11, <2>1, <2>2, PostFailsReaches
  <2>3. CASE c = d
    <3>0. /\ result'[c].resource = result[c].resource \/ result'[c].resource \in Target(c)
          /\ result'[c].version = result[c].version /\ result'[c].update = result[c].update
      BY <1>11, <2>3, PostFailsReaches
    <3>1. ASSUME result'[c].resource = f
          PROVE  (result'[c].version => Shows(f)' /\ Single(f)') /\ (result'[c].update => Told(f)')
      <4>2. result[c].version \/ result[c].update => result[c].resource # 0
        BY DEF Reached
      <4>3. result[c].resource # 0 => result[c].resource = f
        <5>1. CASE f \in Target(c)
          <6>1. existing[c] # 0 => f = existing[c]
            BY <5>1, TargetsPoint
          <6>2. existing[c] = 0 /\ result[c].resource # 0 => f = result[c].resource
            BY <5>1, TargetsPoint
          <6> QED
            BY <6>1, <6>2 DEF Reached
        <5> QED
          BY <3>0, <3>1, <5>1
      <4> QED
        BY <2>1, <3>0, <4>2, <4>3, EvidenceHolds
    <3> QED
      BY <1>2, <2>1, <3>1
  <2> QED
    BY <2>2, <2>3
<1>12. CASE AddVersion
  <2>1. UNCHANGED <<current, progress, plan>> /\ pc = "versioning"
    BY <1>12 DEF AddVersion, rows
  <2>2. CASE c # category
    <3>1. result'[c] = result[c]
      BY <1>12, <2>2, VersionReaches
    <3> QED
      BY <1>1, <1>2, <2>1, <3>1
  <2>3. CASE c = category
    <3>1. result'[c].resource = result[c].resource /\ result'[c].update = result[c].update
      BY <1>12, <2>3, VersionReaches
    <3>2. CASE result[c].version
      BY <1>2, <2>1, <3>1, <3>2, EvidenceHolds
    <3>3. CASE ~result[c].version
      <4>1. ASSUME result'[c].resource = f PROVE Shows(f)' /\ Single(f)'
        <5>1. f = result[category].resource
          BY <2>3, <3>1, <4>1
        <5>2. (\E i \in 1..Len(forum'[f].versions) : forum'[f].versions[i] = current) \/ HasTwin(current)
          BY <1>12, <2>3, <3>3, <5>1, VersionMade
        <5>3. plan[current].version # "" /\ ~plan[current].overwrite =>
                 \E i \in 1..Len(forum'[f].versions) :
                   \A j \in 1..Len(forum'[f].versions) : SameVersion(forum'[f].versions[j]) <=> j = i
          BY <1>12, <2>3, <3>3, <5>1, VersionMade
        <5>4. Shows(f)'
          BY <2>1, <5>2 DEF Shows, HasTwin
        <5>5. Single(f)'
          BY <2>1, <5>3 DEF Single, SameVersion, Plan
        <5> QED
          BY <5>4, <5>5
      <4>2. ASSUME result'[c].resource = f PROVE result'[c].update => Told(f)'
        BY <2>1, <3>1, <4>2, EvidenceHolds
      <4> QED
        BY <1>2, <2>1, <4>1, <4>2
    <3> QED
      BY <3>2, <3>3
  <2> QED
    BY <2>2, <2>3
<1>13. CASE AddUpdate
  <2>1. UNCHANGED <<current, progress, plan>> /\ pc = "updating"
    BY <1>13 DEF AddUpdate, rows
  <2>2. CASE c # category
    <3>1. result'[c] = result[c]
      BY <1>13, <2>2, UpdateReaches
    <3> QED
      BY <1>1, <1>2, <2>1, <3>1
  <2>3. CASE c = category
    <3>1. /\ result'[c].resource = result[c].resource /\ result'[c].version = result[c].version
          /\ result'[c].update <=> result[c].update \/ UpdateNeeded
      BY <1>13, <2>3, UpdateReaches
    <3>2. ASSUME result'[c].resource = f PROVE result'[c].version => Shows(f)' /\ Single(f)'
      BY <2>1, <3>1, <3>2, EvidenceHolds
    <3>3. ASSUME result'[c].resource = f, result[c].update PROVE Told(f)'
      BY <2>1, <3>1, <3>3, EvidenceHolds
    <3>4. ASSUME result'[c].resource = f, UpdateNeeded PROVE Told(f)'
      <4>1. f = result[category].resource
        BY <2>3, <3>1, <3>4
      <4>2. CASE UpdateFound
        <5>1. forum' = forum
          BY <1>13, <4>2 DEF AddUpdate
        <5>2. PICK i \in DOMAIN forum[f].updates : plan[forum[f].updates[i]].notes = plan[current].notes
          BY <4>1, <4>2 DEF UpdateFound, Updates, InHand, Plan
        <5>3. f \in 1..Len(forum)
          <6>1. f <= Len(forum)
            BY <2>3, <4>1 DEF Known, Pointing
          <6> QED
            BY <1>0, <6>1 DEF Known, ForumKnown
        <5>4. forum[f] \in ForumRecords
          BY <5>3 DEF Known, ForumKnown
        <5>5. forum[f].updates \in Seq(Nat)
          BY <5>4 DEF ForumRecords
        <5>6. i \in 1..Len(forum[f].updates)
          BY <5>2, <5>5
        <5> QED
          BY <2>1, <5>1, <5>2, <5>6 DEF Told
      <4>3. CASE ~UpdateFound
        <5>1. forum' = WithUpdate
          BY <1>13, <3>4, <4>3 DEF AddUpdate
        <5>2. forum'[f].updates = Append(forum[f].updates, current)
          BY <2>1, <4>1, <5>1, UpdatesGrow
        <5>3. f \in 1..Len(forum)
          <6>1. f <= Len(forum)
            BY <2>3, <4>1 DEF Known, Pointing
          <6> QED
            BY <1>0, <6>1 DEF Known, ForumKnown
        <5>4. forum[f] \in ForumRecords
          BY <5>3 DEF Known, ForumKnown
        <5>5. forum[f].updates \in Seq(Nat)
          BY <5>4 DEF ForumRecords
        <5>6. \E i \in 1..Len(forum'[f].updates) : forum'[f].updates[i] = current
          <6>1. current \in Nat
            BY DEF Known, RevisionsKnown
          <6> QED
            BY <5>2, <5>5, <6>1
        <5> QED
          BY <2>1, <5>6 DEF Told
      <4> QED
        BY <4>2, <4>3
    <3> QED
      BY <1>2, <2>1, <3>1, <3>2, <3>3, <3>4
  <2> QED
    BY <2>2, <2>3
<1> HIDE DEF OfResult, OfProgress
<1> QED
  BY <1>5, <1>6, <1>7, <1>8, <1>9, <1>10, <1>11, <1>12, <1>13 DEF Next

\* A resource is created only in a category that has none: the claimed ones are
\* bound, and in another one the search by name would find it.
LEMMA OnceKeeps ==
  ASSUME Known, Once, ClaimedStay, [Next]_vars
  PROVE  Once'
<1>1. ForumMoves /\ Len(forum) \in Nat
  BY ForumMovesAlways DEF Known, ForumKnown
<1>2. Len(plan) \in Nat /\ Len(plan) <= Len(plan') /\ \A i \in 1..Len(plan) : plan'[i] = plan[i]
  BY PlanKeeps DEF Known
<1>3. plan \in Seq(Plans) /\ plan' \in Seq(Plans) /\ current \in Nat
  BY PlanKeeps DEF Known, RevisionsKnown
<1>4. ClaimedBinding' = ClaimedBinding
  BY DEF ClaimedBinding, Imported
<1>5. SUFFICES ASSUME OneName' PROVE
        \A f \in 1..Len(forum') :
          /\ forum'[f].category \in Claimed => f = ClaimedBinding[forum'[f].category]
          /\ forum'[f].category \notin Claimed =>
               /\ plan' # <<>> /\ forum'[f].name = plan'[1].name
               /\ \A g \in 1..Len(forum') : forum'[g].category = forum'[f].category => g = f
  BY <1>4 DEF Once
<1>6. OneName
  <2>1. \A i \in 1..Len(plan) : i \in 1..Len(plan') /\ plan'[i] = plan[i]
    BY <1>2, <1>3
  <2> QED
    BY <1>5, <2>1 DEF OneName
<1>7. plan # <<>> => 1 \in 1..Len(plan) /\ plan' # <<>> /\ plan'[1] = plan[1]
  BY <1>2, <1>3
<1>8. current # 0 => plan # <<>> /\ plan[current].name = plan[1].name
  <2>1. current # 0 => current \in 1..Len(plan) /\ plan # <<>>
    BY PlanOfCurrent DEF Known
  <2> QED
    BY <1>6, <1>7, <2>1 DEF OneName
<1>9. \A f \in 1..Len(forum) :
        /\ forum[f].category \in Claimed => f = ClaimedBinding[forum[f].category]
        /\ forum[f].category \notin Claimed =>
             /\ plan # <<>> /\ forum[f].name = plan[1].name
             /\ \A g \in 1..Len(forum) : forum[g].category = forum[f].category => g = f
  BY <1>6 DEF Once
<1>10. \A f \in 1..Len(forum) : forum[f].category \notin Claimed => forum'[f].name = plan[1].name
  <2>1. pc = "choosing" => current # 0
    BY DEF Known, AttemptsKnown
  <2> QED
    BY <1>1, <1>8, <1>9, <2>1 DEF ForumMoves
<1>11. \A f \in 1..Len(forum) : forum'[f].category = forum[f].category
  BY <1>1 DEF ForumMoves
<1>12. CASE Len(forum') = Len(forum)
  BY <1>7, <1>9, <1>10, <1>11, <1>12
<1>13. CASE Len(forum') # Len(forum)
  <2>1. PICK c \in Categories :
          /\ pc = "choosing" /\ Len(forum') = Len(forum) + 1
          /\ existing[c] = 0 /\ Found(c) = {}
          /\ forum'[Len(forum) + 1] = ForumResource(c, plan[current].name, <<current>>)
    BY <1>1, <1>13 DEF ForumMoves
  <2>2. forum'[Len(forum) + 1].category = c /\ forum'[Len(forum) + 1].name = plan[current].name
    BY <2>1 DEF ForumResource
  <2>3. current # 0
    BY <2>1 DEF Known, AttemptsKnown
  <2>4. c \notin Claimed
    BY <2>1, ClaimedAreImported DEF ClaimedStay
  <2>5. \A f \in 1..Len(forum) : forum[f].category # c
    <3>1. SUFFICES ASSUME NEW f \in 1..Len(forum), forum[f].category = c PROVE FALSE
      OBVIOUS
    <3>2. forum[f].name = plan[current].name
      BY <1>8, <1>9, <2>3, <2>4, <3>1
    <3>3. f \in DOMAIN forum
      BY <3>1 DEF Known, ForumKnown
    <3>4. f \in Found(c)
      BY <3>1, <3>2, <3>3 DEF Found, Plan
    <3> QED
      BY <2>1, <3>4
  <2>6. \A f \in 1..Len(forum') : f \in 1..Len(forum) \/ f = Len(forum) + 1
    BY <1>1, <2>1
  <2> QED
    BY <1>7, <1>8, <1>9, <1>10, <1>11, <2>2, <2>3, <2>4, <2>5, <2>6
<1> QED
  BY <1>12, <1>13

\* The invariant holds when the import is done and nothing else.
LEMMA BandBBSBegins ==
  ASSUME Init
  PROVE  BandBBSInv
<1>1. /\ plan = <<>> /\ current = 0 /\ state = "none" /\ claims = 0 /\ progress = NoResult
      /\ binding = Unbound /\ forum = Imported /\ pc = "idle" /\ existing = Unbound
      /\ result = NoResult /\ todo = {} /\ category = None
  BY DEF Init
<1>2. MaxRevisions \in Nat /\ MaxClaims \in Nat /\ MaxForum \in Nat
  BY DispatchAssumption
<1>3. RevisionsKnown
  BY <1>1, <1>2 DEF RevisionsKnown
<1>4. AttemptsKnown
  BY <1>1, <1>2 DEF AttemptsKnown, PublicationStates
<1>5. ResultsKnown
  BY <1>1, NothingReached DEF ResultsKnown
<1>6. ForumKnown
  <2>1. \A f \in 1..Len(forum) : forum[f].versions = <<0>> /\ forum[f].updates = <<>>
    BY <1>1, ClaimedAreImported
  <2>2. Len(<<0>>) = 1 /\ <<0>>[1] = 0 /\ Len(<<>>) = 0 /\ \A j \in 1..1 : j = 1
    OBVIOUS
  <2>3. \A f \in 1..Len(forum) :
          /\ \A i \in 1..Len(forum[f].versions) : forum[f].versions[i] <= current
          /\ \A i \in 1..Len(forum[f].updates) : forum[f].updates[i] \in 1..current
    BY <1>1, <2>1, <2>2
  <2> QED
    BY <1>1, <2>3, ClaimedAreImported DEF ForumKnown
<1>7. Pointing
  BY <1>1, <1>2, NothingReached DEF Pointing
<1>8. CategoryKnown
  BY <1>1 DEF CategoryKnown
<1>9. Evident
  BY <1>1, NothingReached DEF Evident
<1>10. Reached
  BY <1>1, NothingReached DEF Reached
<1>11. ClaimedStay
  BY <1>1, ClaimedAreImported DEF ClaimedStay
<1>12. Once
  BY <1>1, ClaimedAreImported DEF Once
<1> QED
  BY <1>3, <1>4, <1>5, <1>6, <1>7, <1>8, <1>9, <1>10, <1>11, <1>12 DEF BandBBSInv, Known

\* The inductive invariant holds in every reachable state of publishBandBBS.
THEOREM BandBBSInvariance == Spec => []BandBBSInv
<1>1. ASSUME BandBBSInv, [Next]_vars PROVE BandBBSInv'
  BY <1>1, PlanKeeps, AttemptsKeep, ResultsKeep, ForumKnownKeeps, PointingKeeps, EvidenceKeeps,
     ReachedKeeps, CategoryKeeps, ClaimsStay, OnceKeeps DEF BandBBSInv, Known
<1> QED
  BY <1>1, BandBBSBegins, PTL DEF Spec

\* What the invariant says of the types.
LEMMA BandBBSInvTyped == BandBBSInv => TypeOK
<1> SUFFICES ASSUME BandBBSInv PROVE TypeOK
  OBVIOUS
<1>1. forum \in Seq(ForumRecords) /\ Len(forum) \in Nat /\ DOMAIN forum = 1..Len(forum) /\ current \in Nat
  BY DEF BandBBSInv, Known, ForumKnown, RevisionsKnown
<1>2. ASSUME NEW f \in DOMAIN forum
      PROVE  /\ forum[f].category \in Categories
             /\ Range(forum[f].versions) \subseteq 0..current
             /\ Range(forum[f].updates) \subseteq 1..current
  <2>1. forum[f] \in ForumRecords /\ f \in 1..Len(forum)
    BY <1>1
  <2>2. forum[f].category \in Categories /\ forum[f].versions \in Seq(Nat) /\ forum[f].updates \in Seq(Nat)
    BY <2>1 DEF ForumRecords
  <2>3. /\ \A i \in 1..Len(forum[f].versions) : forum[f].versions[i] <= current
        /\ \A i \in 1..Len(forum[f].updates) : forum[f].updates[i] \in 1..current
    BY <2>1 DEF BandBBSInv, Known, ForumKnown
  <2>4. \A i \in DOMAIN forum[f].versions : forum[f].versions[i] \in 0..current
    BY <1>1, <2>2, <2>3
  <2>5. \A i \in DOMAIN forum[f].updates : forum[f].updates[i] \in 1..current
    BY <2>2, <2>3
  <2> QED
    BY <2>2, <2>4, <2>5 DEF Range
<1>3. ASSUME NEW c \in Categories, NEW n \in 0..MaxForum, n \in {binding[c], existing[c]}
      PROVE  n \in 0..Len(forum)
  <2>1. n # 0 => n \in 1..MaxForum
    BY DispatchAssumption
  <2>2. n # 0 => n <= Len(forum)
    BY <1>3, <2>1 DEF BandBBSInv, Known, Pointing
  <2> QED
    BY <1>1, <2>2
<1>4. binding \in [Categories -> 0..Len(forum)] /\ existing \in [Categories -> 0..Len(forum)]
  BY <1>3 DEF BandBBSInv, Known, ResultsKnown
<1> QED
  BY <1>2, <1>4 DEF TypeOK, BandBBSInv, Known, RevisionsKnown, AttemptsKnown, ResultsKnown

\* Every reachable state of publishBandBBS is well typed, and no id names a forum
\* resource that does not exist.
THEOREM BandBBSTypeCorrect == Spec => []TypeOK
BY BandBBSInvariance, BandBBSInvTyped, PTL

\* While the name stays, no category gets a second forum resource, for any
\* categories, claim, plans and number of revisions and attempts.
THEOREM OneResourcePerCategoryAlways == Spec => []OneResourcePerCategory
<1>1. BandBBSInv => OneResourcePerCategory
  <2> SUFFICES ASSUME BandBBSInv, \A m, n \in DOMAIN plan : plan[m].name = plan[n].name,
                      NEW f \in DOMAIN forum, NEW g \in DOMAIN forum, forum[f].category = forum[g].category
               PROVE  f = g
    BY DEF OneResourcePerCategory
  <2>1. f \in 1..Len(forum) /\ g \in 1..Len(forum) /\ DOMAIN plan = 1..Len(plan)
    BY DEF BandBBSInv, Known, ForumKnown, RevisionsKnown
  <2>2. OneName
    BY <2>1 DEF OneName
  <2>3. CASE forum[f].category \in Claimed
    BY <2>1, <2>2, <2>3 DEF BandBBSInv, Once
  <2>4. CASE forum[f].category \notin Claimed
    BY <2>1, <2>2, <2>4 DEF BandBBSInv, Once
  <2> QED
    BY <2>3, <2>4
<1> QED
  BY <1>1, BandBBSInvariance, PTL

\* What a revision shows when it is published.
LEMMA PublishedShows ==
  ASSUME BandBBSInv, [Next]_vars, Publishes, NEW c \in Categories
  PROVE  /\ plan' = plan /\ current' = current /\ forum' = forum /\ current # 0
         /\ \E f \in 1..Len(forum) :
              f = binding'[c] /\ forum[f].category = c /\ Shows(f) /\ Single(f) /\ Told(f)
<1>1. Finish
  BY DEF Publishes, Next, vars, rows, Submit, Approve, Retry, Begin, Cancel, Post, PostFails, AddVersion,
     AddVersionFails, AddUpdate, AddUpdateFails, FinishFails, AttemptFailed, Fail, Stop
<1>2. plan' = plan /\ current' = current /\ forum' = forum /\ pc = "choosing" /\ todo = {}
      /\ binding' = Merged(existing)
  BY <1>1 DEF Finish, AllDone
<1>3. current # 0
  BY <1>2 DEF BandBBSInv, Known, AttemptsKnown
<1>4. result[c].version /\ (plan[current].notes # "" => result[c].update)
  BY <1>2 DEF BandBBSInv, Known, CategoryKnown
<1>5. PICK f \in 0..MaxForum : f = result[c].resource
  BY DEF BandBBSInv, Known, ResultsKnown, CategoryResults
<1>6. f # 0
  BY <1>4, <1>5 DEF BandBBSInv, Reached
<1>7. f \in 1..MaxForum
  BY <1>6, DispatchAssumption
<1>8. f \in 1..Len(forum) /\ forum[f].category = c
  <2>1. f <= Len(forum) /\ forum[f].category = c
    BY <1>5, <1>7 DEF BandBBSInv, Known, Pointing
  <2> QED
    BY <1>7, <2>1 DEF BandBBSInv, Known, ForumKnown
<1>9. Shows(f) /\ Single(f) /\ (plan[current].notes # "" => Told(f))
  BY <1>4, <1>5, <1>7 DEF BandBBSInv, Evident
<1>10. Told(f)
  BY <1>9 DEF Told
<1>11. binding'[c] = f
  BY <1>2, <1>5, <1>6, MergedIs DEF BandBBSInv, Known, ResultsKnown
<1> QED
  BY <1>2, <1>3, <1>8, <1>9, <1>10, <1>11

\* "published" is said when every category shows the revision's version, or one
\* that looks the same, and its update.
THEOREM PublishedCarriesAlways == Spec => PublishedCarries
<1>1. ASSUME BandBBSInv, [Next]_vars, Publishes, NEW c \in Categories
      PROVE  /\ binding'[c] # 0
             /\ forum[binding'[c]].category = c
             /\ Contains(forum[binding'[c]].versions, current) \/ HasTwin(current)
             /\ \/ Plan.notes = ""
                \/ \E i \in DOMAIN forum[binding'[c]].updates :
                     plan[forum[binding'[c]].updates[i]].notes = Plan.notes
  <2>1. PICK f \in 1..Len(forum) : f = binding'[c] /\ forum[f].category = c /\ Shows(f) /\ Told(f)
    BY <1>1, PublishedShows
  <2>2. f # 0
    BY <2>1
  <2>3. Contains(forum[f].versions, current) \/ HasTwin(current)
    BY <2>1 DEF Shows, Contains
  <2>4. forum[f] \in ForumRecords
    BY <1>1 DEF BandBBSInv, Known, ForumKnown
  <2>5. DOMAIN forum[f].updates = 1..Len(forum[f].updates)
    BY <2>4 DEF ForumRecords
  <2>6. Plan.notes = "" \/ \E i \in DOMAIN forum[f].updates : plan[forum[f].updates[i]].notes = Plan.notes
    BY <2>1, <2>5 DEF Told, Plan
  <2> QED
    BY <2>1, <2>2, <2>3, <2>6
<1>2. BandBBSInv /\ [Next]_vars =>
       [Publishes =>
          \A c \in Categories :
            /\ binding'[c] # 0
            /\ forum[binding'[c]].category = c
            /\ Contains(forum[binding'[c]].versions, current) \/ HasTwin(current)
            /\ \/ Plan.notes = ""
               \/ \E i \in DOMAIN forum[binding'[c]].updates :
                    plan[forum[binding'[c]].updates[i]].notes = Plan.notes]_vars
  BY <1>1
<1> QED
  BY <1>2, BandBBSInvariance, PTL DEF Spec, PublishedCarries

\* "published" is said when no category shows two versions of its version string.
THEOREM OneLiveVersionAlways == Spec => OneLiveVersion
<1>0. ASSUME BandBBSInv, NEW f \in 1..Len(forum)
      PROVE  DOMAIN forum[f].versions = 1..Len(forum[f].versions)
  <2>1. forum[f] \in ForumRecords
    BY <1>0 DEF BandBBSInv, Known, ForumKnown
  <2> QED
    BY <2>1 DEF ForumRecords
<1>1. ASSUME BandBBSInv, [Next]_vars, Publishes, Plan.version # "", ~Plan.overwrite, NEW c \in Categories
      PROVE  Cardinality({i \in DOMAIN forum[binding'[c]].versions :
                            SameVersion(forum[binding'[c]].versions[i])}) = 1
  <2>1. PICK f \in 1..Len(forum) : f = binding'[c] /\ Single(f)
    BY <1>1, PublishedShows
  <2>3. DOMAIN forum[f].versions = 1..Len(forum[f].versions)
    BY <1>0, <1>1
  <2>4. PICK i \in 1..Len(forum[f].versions) :
          \A j \in 1..Len(forum[f].versions) : SameVersion(forum[f].versions[j]) <=> j = i
    BY <1>1, <2>1 DEF Single, Plan
  <2>5. {j \in DOMAIN forum[f].versions : SameVersion(forum[f].versions[j])} = {i}
    BY <2>3, <2>4
  <2>6. Cardinality({i}) = 1
    BY FS_Singleton
  <2> QED
    BY <2>1, <2>5, <2>6
<1>2. BandBBSInv /\ [Next]_vars =>
       [Publishes /\ Plan.version # "" /\ ~Plan.overwrite =>
          \A c \in Categories :
            LET versions == forum[binding'[c]].versions IN
            Cardinality({i \in DOMAIN versions : SameVersion(versions[i])}) = 1]_vars
  BY <1>1
<1> QED
  BY <1>2, BandBBSInvariance, PTL DEF Spec, OneLiveVersion

-----------------------------------------------------------------------------
(* Submissions *)

\* The package of revision r may replace that of revision p: it is the same, or code, the
\* versionCode, is higher.
Above(codes, packages, r, p) == p = 0 \/ packages[r] = packages[p] \/ codes[r] > codes[p]

\* What is known of the types.
Steps == {"idle", "read", "forked", "noted", "based", "checked", "chosen", "begun", "submitted"}
AttemptRecords ==
  [step : Steps, revision : Nat, pull : Nat, commit : Nat, base : Nat, row : Nat, key : Nat]
BranchRecords ==
  [at : {"absent", "base", "half", "files"}, row : 0..MaxPackages, digest : 0..MaxPackages, base : 0..MaxMerges]
PullRecords == [state : {"open", "merged", "closed"}, key : Keys]
ForkRecords == [default : 0..Own, objects : 0..MaxMerges]

\* Revision i has one of the version codes up to i, and a package it or an earlier one
\* came with.
CodesKnown ==
  /\ code \in Seq(Nat) /\ Len(code) <= MaxPackages
  /\ package \in Seq(Nat) /\ Len(package) = Len(code)
  /\ \A i \in 1..Len(code) : code[i] \in 1..i /\ package[i] \in 1..i

\* A commit of the catalog has the row of a revision, or none.
CatalogKnown ==
  /\ catalog \in Seq(Nat) /\ Len(catalog) \in 1..MaxMerges
  /\ \A i \in 1..Len(catalog) : catalog[i] \in 0..Len(code)
  /\ halves \subseteq 1..Len(catalog)

\* A row goes to the same package or one with a higher version code, and does not vanish,
\* but by the merge of one file of an upload.
NeverBack ==
  \A i \in 1..(Len(catalog) - 1) :
    \/ catalog[i] = 0 \/ catalog[i] = catalog[i + 1] \/ i + 1 \in halves
    \/ catalog[i + 1] # 0 /\ Above(code, package, catalog[i + 1], catalog[i])

\* The default branch of the fork is the owner's or a commit the fork has.
ForkKnown ==
  /\ fork \in ForkRecords /\ fork.objects <= Len(catalog)
  /\ fork.default \in {0, Own} \/ fork.default <= fork.objects

\* A branch asks for a package that may replace the row at the commit it names.
BranchAsks(k) ==
  /\ branch[k].row \in 1..Len(code) /\ branch[k].base \in 1..Len(catalog)
  /\ branch[k].digest = catalog[branch[k].base]
  /\ Above(code, package, branch[k].row, branch[k].digest)

\* A branch with files asks for something; one with a part of them may name a row.
BranchKnown ==
  /\ branch \in [Keys -> BranchRecords]
  /\ \A k \in Keys : branch[k].row \in 0..Len(code)
  /\ \A k \in Keys : branch[k].at \in {"absent", "base"} => branch[k].row = 0
  /\ \A k \in Keys : branch[k].at = "files" => BranchAsks(k)

\* The requests, and whether one was reopened.
PullsKnown == pulls \in Seq(PullRecords) /\ reopened \in BOOLEAN

\* The steps between the comparison of the versions and the upload.
Compared == {"checked", "chosen", "begun"}

\* What an attempt has read of the catalog stays so, and what it compared holds.
AttemptKnown ==
  /\ attempt \in AttemptRecords
  /\ attempt.step # "idle" => attempt.revision \in 1..Len(code) /\ attempt.pull \in 0..Len(pulls)
  /\ attempt.step \in {"noted", "based"} \union Compared => attempt.commit \in 1..Len(catalog)
  /\ attempt.step \in Compared =>
       attempt.row = catalog[attempt.commit] /\ Above(code, package, attempt.revision, attempt.row)
  /\ attempt.step \in {"chosen", "begun", "submitted"} => attempt.key \in Keys
  /\ attempt.base # 0 => attempt.base = Own \/ attempt.base <= fork.objects

\* Request n is open.
IsOpen(n) == n \in 1..Len(pulls) /\ pulls[n].state = "open"

\* As long as nobody reopens a request there is one, and none that an attempt which
\* found none does not know of.
OneOpen ==
  ~reopened =>
    /\ \A m, n \in 1..Len(pulls) : IsOpen(m) /\ IsOpen(n) => m = n
    /\ attempt.step # "idle" /\ attempt.pull = 0 => \A n \in 1..Len(pulls) : ~IsOpen(n)

\* The inductive invariant.
SubmissionInv ==
  /\ CodesKnown /\ CatalogKnown /\ NeverBack /\ ForkKnown /\ BranchKnown
  /\ PullsKnown /\ AttemptKnown /\ OneOpen

\* The invariant holds when nothing was submitted.
LEMMA SubmissionBegins == SubmissionInit => SubmissionInv
<1> SUFFICES ASSUME SubmissionInit PROVE SubmissionInv
  OBVIOUS
<1> USE SubmissionAssumption
<1>1. CodesKnown /\ NeverBack /\ CatalogKnown
  <2>1. /\ code = <<>> /\ package = <<>> /\ catalog = <<0>> /\ Len(code) = 0 /\ Len(package) = 0
        /\ Len(catalog) = 1 /\ catalog[1] = 0 /\ halves = {}
    BY DEF SubmissionInit
  <2>2. code \in Seq(Nat) /\ package \in Seq(Nat) /\ catalog \in Seq(Nat)
    BY <2>1
  <2> QED
    BY <2>1, <2>2 DEF CodesKnown, NeverBack, CatalogKnown
<1>2. ForkKnown
  BY DEF SubmissionInit, ForkKnown, ForkRecords, Own
<1>3. BranchKnown
  <2>1. NoFiles \in BranchRecords /\ NoFiles.at # "files" /\ NoFiles.row = 0
    BY DEF NoFiles, BranchRecords
  <2>2. branch \in [Keys -> BranchRecords] /\ \A k \in Keys : branch[k] = NoFiles
    BY <2>1 DEF SubmissionInit
  <2>3. code = <<>> /\ Len(code) = 0
    BY DEF SubmissionInit
  <2> QED
    BY <2>1, <2>2, <2>3 DEF BranchKnown
<1>4. PullsKnown /\ OneOpen
  <2>1. pulls = <<>> /\ Len(pulls) = 0 /\ reopened = FALSE /\ attempt.step = "idle"
    BY DEF SubmissionInit, NoAttempt
  <2>2. pulls \in Seq(PullRecords)
    BY <2>1
  <2>3. PullsKnown
    BY <2>1, <2>2 DEF PullsKnown
  <2>4. \A n \in 1..Len(pulls) : ~IsOpen(n)
    BY <2>1 DEF IsOpen
  <2> QED
    BY <2>3, <2>4 DEF OneOpen
<1>5. AttemptKnown
  BY DEF SubmissionInit, AttemptKnown, AttemptRecords, NoAttempt, Steps, Compared
<1> QED
  BY <1>1, <1>2, <1>3, <1>4, <1>5 DEF SubmissionInv

\* Revisions and commits of the catalog are appended to.
Grown ==
  /\ Len(code') >= Len(code)
  /\ \A i \in 1..Len(code) : code'[i] = code[i] /\ package'[i] = package[i]
  /\ Len(catalog') >= Len(catalog) /\ \A i \in 1..Len(catalog) : catalog'[i] = catalog[i]

\* The revisions and the commits of the catalog are appended to and stay.
LEMMA HistoryGrows ==
  ASSUME SubmissionInv, [SubmissionNext]_submissionVars
  PROVE  /\ Grown /\ CodesKnown'
         /\ catalog' \in Seq(Nat) /\ Len(catalog') \in 1..MaxMerges
<1> USE SubmissionAssumption
<1>1. CodesKnown /\ CatalogKnown /\ BranchKnown /\ PullsKnown
  BY DEF SubmissionInv
<1>2. CASE SubmissionNext /\ SubmitRevision
  <2>1. UNCHANGED catalog
    BY <1>2 DEF SubmitRevision, merged
  <2>2. PICK c \in Nat, p \in Nat :
          /\ code' = Append(code, c) /\ package' = Append(package, p)
          /\ c \in 1..(Len(code) + 1) /\ p \in 1..(Len(code) + 1)
    <3>1. CASE code = <<>>
      BY <1>2, <3>1 DEF SubmitRevision
    <3>2. CASE code # <<>>
      <4>1. /\ Len(code) \in 1..Len(code) /\ Len(package) = Len(code)
            /\ Last(code) = code[Len(code)] /\ Last(package) = package[Len(code)]
        BY <1>1, <3>2 DEF CodesKnown, Last
      <4>2. Last(code) \in 1..Len(code) /\ Last(package) \in 1..Len(code)
        BY <1>1, <4>1 DEF CodesKnown
      <4>3. CASE \E c \in {Last(code), Last(code) + 1} :
                   code' = Append(code, c) /\ package' = Append(package, Len(code) + 1)
        <5>1. PICK c \in {Last(code), Last(code) + 1} :
                code' = Append(code, c) /\ package' = Append(package, Len(code) + 1)
          BY <4>3
        <5>2. c \in 1..(Len(code) + 1) /\ Len(code) + 1 \in 1..(Len(code) + 1) /\ Len(code) + 1 \in Nat
          BY <4>1, <4>2, <5>1
        <5> QED
          BY <5>1, <5>2
      <4>4. CASE code' = Append(code, Last(code)) /\ package' = Append(package, Last(package))
        BY <4>1, <4>2, <4>4
      <4> QED
        BY <1>2, <3>2, <4>3, <4>4 DEF SubmitRevision
    <3> QED
      BY <3>1, <3>2
  <2>4. Len(code) \in Nat /\ Len(code) < MaxPackages
    BY <1>1, <1>2 DEF CodesKnown, SubmitRevision
  <2>5. /\ code' \in Seq(Nat) /\ Len(code') = Len(code) + 1
        /\ package' \in Seq(Nat) /\ Len(package') = Len(code) + 1
        /\ \A i \in 1..Len(code) : code'[i] = code[i] /\ package'[i] = package[i]
        /\ code'[Len(code) + 1] = c /\ package'[Len(code) + 1] = p
    BY <1>1, <2>2, <2>4 DEF CodesKnown
  <2>6. CodesKnown'
    <3>1. ASSUME NEW i \in 1..(Len(code) + 1) PROVE code'[i] \in 1..i /\ package'[i] \in 1..i
      <4>1. CASE i \in 1..Len(code)
        BY <1>1, <2>5, <4>1 DEF CodesKnown
      <4>2. CASE i = Len(code) + 1
        BY <2>2, <2>5, <4>2
      <4> QED
        BY <2>4, <4>1, <4>2
    <3> QED
      BY <2>4, <2>5, <3>1 DEF CodesKnown
  <2> QED
    <3>1. catalog' = catalog /\ catalog \in Seq(Nat) /\ Len(catalog) \in 1..MaxMerges
      BY <1>1, <2>1 DEF CatalogKnown
    <3> QED
      BY <2>4, <2>5, <2>6, <3>1 DEF Grown
<1>3. ASSUME NEW x \in Nat, catalog' = Append(catalog, x), Tip < MaxMerges, UNCHANGED submitted
      PROVE  /\ Grown /\ CodesKnown'
             /\ catalog' \in Seq(Nat) /\ Len(catalog') \in 1..MaxMerges
  BY <1>1, <1>3 DEF CodesKnown, CatalogKnown, Tip, Grown, submitted
<1>4. CASE CatalogMoves
  <2>1. Last(catalog) \in Nat
    BY <1>1 DEF Last, CatalogKnown
  <2> QED
    BY <1>3, <1>4, <2>1 DEF CatalogMoves
<1>5. CASE \E n \in DOMAIN pulls : Merge(n)
  <2>1. PICK n \in DOMAIN pulls : Merge(n)
    BY <1>5
  <2>2. pulls[n].key \in Keys
    <3>1. pulls[n] \in PullRecords
      BY <1>1 DEF PullsKnown
    <3> QED
      BY <3>1 DEF PullRecords
  <2>3. branch[pulls[n].key].row \in Nat
    BY <1>1, <2>2 DEF BranchKnown, BranchRecords
  <2>4. catalog' = Append(catalog, branch[pulls[n].key].row) /\ Tip < MaxMerges /\ UNCHANGED submitted
    BY <2>1 DEF Merge
  <2> QED
    BY <1>3, <2>3, <2>4
<1>6. CASE UNCHANGED <<submitted, catalog>>
  BY <1>1, <1>6 DEF CodesKnown, CatalogKnown, Grown, submitted
<1>7. ASSUME \/ OwnerDiverges \/ BeginPublish \/ EnsureFork \/ ReadCommit \/ ReadForkBase \/ CheckCatalog
             \/ ChooseBranch \/ PutOneFile \/ UploadSubmission \/ UpdatePull \/ CreatePull \/ PublishFails
             \/ \E n \in DOMAIN pulls : Close(n) \/ Reopen(n)
             \/ \E k \in Keys : DeleteBranch(k)
             \/ UNCHANGED submissionVars
      PROVE  UNCHANGED <<submitted, catalog>>
  BY <1>7 DEF submissionVars, Close, Reopen, DeleteBranch, OwnerDiverges, BeginPublish, EnsureFork, ReadCommit,
     ReadForkBase, CheckCatalog, ChooseBranch, PutOneFile, UploadSubmission, UpdatePull, CreatePull,
     PublishFails, submitted, merged
<1> QED
  BY <1>2, <1>4, <1>5, <1>6, <1>7 DEF SubmissionNext

\* What could be replaced can be replaced still.
LEMMA AboveStays ==
  ASSUME Grown, CodesKnown, NEW r \in 1..Len(code), NEW p \in 0..Len(code), Above(code, package, r, p)
  PROVE  Above(code', package', r, p)
<1>1. p # 0 => p \in 1..Len(code)
  BY DEF CodesKnown
<1>2. code'[r] = code[r] /\ package'[r] = package[r]
  BY DEF Grown
<1>3. p # 0 => code'[p] = code[p] /\ package'[p] = package[p]
  BY <1>1 DEF Grown
<1> QED
  BY <1>2, <1>3 DEF Above

\* Only Merge lets the row of the catalog become another.
LEMMA CatalogKeeps ==
  ASSUME SubmissionInv, [SubmissionNext]_submissionVars
  PROVE  CatalogKnown' /\ NeverBack'
<1>1. CodesKnown /\ CatalogKnown /\ NeverBack /\ BranchKnown /\ PullsKnown
  BY DEF SubmissionInv
<1>2. Grown /\ CodesKnown' /\ catalog' \in Seq(Nat) /\ Len(catalog') \in 1..MaxMerges
  BY HistoryGrows
<1>3. /\ Len(code) \in Nat /\ Len(code') \in Nat /\ Len(catalog) \in Nat \ {0}
      /\ \A i \in 1..Len(code) : code[i] \in Nat
  BY <1>1, <1>2 DEF CodesKnown, CatalogKnown
<1>4. CASE UNCHANGED merged
  <2>1. CatalogKnown'
    BY <1>1, <1>2, <1>3, <1>4 DEF CatalogKnown, Grown, merged
  <2>2. ASSUME NEW i \in 1..(Len(catalog) - 1)
        PROVE  \/ catalog[i] = 0 \/ catalog[i] = catalog[i + 1] \/ i + 1 \in halves
               \/ catalog[i + 1] # 0 /\ Above(code', package', catalog[i + 1], catalog[i])
    <3>1. catalog[i] \in 0..Len(code) /\ catalog[i + 1] \in 0..Len(code)
      BY <1>1, <1>3 DEF CatalogKnown
    <3>2. \/ catalog[i] = 0 \/ catalog[i] = catalog[i + 1] \/ i + 1 \in halves
          \/ catalog[i + 1] # 0 /\ Above(code, package, catalog[i + 1], catalog[i])
      BY <1>1 DEF NeverBack
    <3>3. PICK r \in 0..Len(code), p \in 0..Len(code) : r = catalog[i + 1] /\ p = catalog[i]
      BY <3>1
    <3>4. r # 0 /\ Above(code, package, r, p) => Above(code', package', r, p)
      BY <1>1, <1>2, <1>3, AboveStays
    <3> QED
      BY <3>2, <3>3, <3>4
  <2>3. NeverBack'
    BY <1>4, <2>2 DEF NeverBack, merged
  <2> QED
    BY <2>1, <2>3
<1>5. ASSUME NEW x \in 0..Len(code), catalog' = Append(catalog, x), UNCHANGED submitted,
             halves' = halves \/ halves' = halves \union {Len(catalog) + 1},
             \/ catalog[Len(catalog)] = 0 \/ catalog[Len(catalog)] = x \/ Len(catalog) + 1 \in halves'
             \/ x # 0 /\ Above(code, package, x, catalog[Len(catalog)])
      PROVE  CatalogKnown' /\ NeverBack'
  <2>1. /\ Len(catalog') = Len(catalog) + 1 /\ catalog'[Len(catalog) + 1] = x
        /\ \A i \in 1..Len(catalog) : catalog'[i] = catalog[i]
        /\ code' = code /\ package' = package
    BY <1>1, <1>5 DEF CatalogKnown, submitted
  <2>2. \A i \in 1..(Len(catalog) + 1) : i \in 1..Len(catalog) \/ i = Len(catalog) + 1
    BY <1>3
  <2>3. CatalogKnown'
    <3>1. halves' \subseteq 1..(Len(catalog) + 1)
      <4>1. halves \subseteq 1..Len(catalog)
        BY <1>1 DEF CatalogKnown
      <4>2. 1..Len(catalog) \subseteq 1..(Len(catalog) + 1) /\ Len(catalog) + 1 \in 1..(Len(catalog) + 1)
        BY <1>3
      <4> QED
        BY <1>5, <4>1, <4>2
    <3>2. \A i \in 1..(Len(catalog) + 1) : catalog'[i] \in 0..Len(code)
      BY <1>1, <1>5, <2>1, <2>2 DEF CatalogKnown
    <3> QED
      BY <1>2, <2>1, <3>1, <3>2 DEF CatalogKnown
  <2>4. ASSUME NEW i \in 1..(Len(catalog') - 1)
        PROVE  \/ catalog'[i] = 0 \/ catalog'[i] = catalog'[i + 1] \/ i + 1 \in halves'
               \/ catalog'[i + 1] # 0 /\ Above(code, package, catalog'[i + 1], catalog'[i])
    <3>1. CASE i = Len(catalog)
      BY <1>3, <1>5, <2>1, <3>1
    <3>2. CASE i # Len(catalog)
      <4>1. i \in 1..(Len(catalog) - 1) /\ i \in 1..Len(catalog) /\ i + 1 \in 1..Len(catalog)
        BY <1>3, <2>1, <3>2
      <4>2. i + 1 \in halves => i + 1 \in halves'
        BY <1>5
      <4> QED
        BY <1>1, <2>1, <4>1, <4>2 DEF NeverBack
    <3> QED
      BY <3>1, <3>2
  <2> QED
    BY <2>1, <2>3, <2>4 DEF NeverBack
<1>6. CASE CatalogMoves
  <2>1. Last(catalog) = catalog[Len(catalog)] /\ catalog[Len(catalog)] \in 0..Len(code)
    BY <1>1, <1>3 DEF Last, CatalogKnown
  <2> QED
    BY <1>5, <1>6, <2>1 DEF CatalogMoves
<1>7. CASE \E n \in DOMAIN pulls : Merge(n)
  <2>1. PICK n \in DOMAIN pulls : Merge(n)
    BY <1>7
  <2>2. pulls[n].key \in Keys
    <3>1. pulls[n] \in PullRecords
      BY <1>1 DEF PullsKnown
    <3> QED
      BY <3>1 DEF PullRecords
  <2>3. PICK k \in Keys : k = pulls[n].key
    BY <2>2
  <2>4. /\ branch[k].row # 0 /\ branch[k].base # 0 /\ branch[k].digest = Last(catalog)
        /\ catalog' = Append(catalog, branch[k].row) /\ UNCHANGED submitted
        /\ halves' = halves \union (IF branch[k].at = "half" THEN {Len(catalog) + 1} ELSE {})
    BY <2>1, <2>3 DEF Merge, Tip
  <2>5. branch[k].row \in 1..Len(code) /\ Last(catalog) = catalog[Len(catalog)]
    BY <1>1, <1>3, <2>4 DEF BranchKnown, Last
  <2>6. CASE branch[k].at = "half"
    <3>1. halves' = halves \union {Len(catalog) + 1} /\ Len(catalog) + 1 \in halves'
      BY <2>4, <2>6
    <3> QED
      BY <1>3, <1>5, <2>4, <2>5, <3>1
  <2>7. CASE branch[k].at = "files"
    <3>1. halves' = halves /\ Above(code, package, branch[k].row, catalog[Len(catalog)])
      BY <1>1, <2>4, <2>5, <2>7 DEF BranchKnown, BranchAsks
    <3> QED
      BY <1>3, <1>5, <2>4, <2>5, <3>1
  <2>8. branch[k].at \in {"half", "files"}
    <3>1. branch[k] \in BranchRecords
      BY <1>1 DEF BranchKnown
    <3>2. branch[k].at \in {"absent", "base", "half", "files"}
      BY <3>1 DEF BranchRecords
    <3> QED
      BY <1>1, <2>4, <3>2 DEF BranchKnown
  <2> QED
    BY <2>6, <2>7, <2>8
<1> QED
  BY <1>4, <1>6, <1>7 DEF SubmissionNext, submissionVars, SubmitRevision, Close, Reopen, DeleteBranch,
     OwnerDiverges, BeginPublish, EnsureFork, ReadCommit, ReadForkBase, CheckCatalog, ChooseBranch,
     PutOneFile, UploadSubmission, UpdatePull, CreatePull, PublishFails, merged

\* The fork gets commits of the catalog alone and keeps them.
LEMMA ForkKeeps ==
  ASSUME SubmissionInv, [SubmissionNext]_submissionVars
  PROVE  ForkKnown' /\ fork'.objects >= fork.objects
<1> USE SubmissionAssumption
<1>1. /\ ForkKnown /\ Grown /\ Len(catalog) \in 1..MaxMerges /\ Len(catalog') \in 1..MaxMerges
      /\ fork.default \in 0..Own /\ fork.objects \in 0..MaxMerges /\ fork \in ForkRecords
  BY HistoryGrows DEF SubmissionInv, ForkKnown, ForkRecords, CatalogKnown
<1>2. CASE UNCHANGED fork
  BY <1>1, <1>2 DEF ForkKnown, Grown
<1>3. CASE EnsureFork
  <2>1. UNCHANGED catalog /\ fork' \in SyncFork
    BY <1>3 DEF EnsureFork, merged
  <2>2. /\ [default |-> Tip, objects |-> Tip] \in ForkRecords
        /\ fork.default = Own => [fork EXCEPT !.objects = Tip] \in ForkRecords
    BY <1>1 DEF ForkRecords, Tip, Own
  <2>3. fork' \in ForkRecords /\ \/ fork' = fork
                                 \/ fork'.default = Tip /\ fork'.objects = Tip
                                 \/ fork'.default = Own /\ fork'.objects = Tip
    BY <1>1, <2>1, <2>2 DEF SyncFork, ForkRecords
  <2> QED
    BY <1>1, <2>1, <2>3 DEF ForkKnown, Tip
<1>4. CASE OwnerDiverges
  <2>1. fork' = [fork EXCEPT !.default = Own] /\ UNCHANGED catalog
    BY <1>4 DEF OwnerDiverges, merged
  <2>2. fork' \in ForkRecords /\ fork'.default = Own /\ fork'.objects = fork.objects
    BY <1>1, <2>1 DEF ForkRecords, Own
  <2> QED
    BY <1>1, <2>1, <2>2 DEF ForkKnown
<1> QED
  BY <1>2, <1>3, <1>4 DEF SubmissionNext, submissionVars, SubmitRevision, CatalogMoves, Merge, Close, Reopen,
     DeleteBranch, BeginPublish, ReadCommit, ReadForkBase, CheckCatalog, ChooseBranch,
     PutOneFile, UploadSubmission, UpdatePull, CreatePull, PublishFails, merged

\* A branch keeps what it asks for, or gets what an attempt has compared.
LEMMA BranchKeeps ==
  ASSUME SubmissionInv, [SubmissionNext]_submissionVars
  PROVE  BranchKnown'
<1> USE SubmissionAssumption
<1>1. CodesKnown /\ CatalogKnown /\ BranchKnown /\ AttemptKnown /\ Grown /\ CodesKnown' /\ CatalogKnown'
  BY HistoryGrows, CatalogKeeps DEF SubmissionInv
<1>2. /\ Len(code) \in Nat /\ Len(code') \in Nat /\ Len(catalog) \in Nat \ {0} /\ Len(catalog') \in Nat
      /\ Len(code) <= MaxPackages
  BY <1>1 DEF CodesKnown, CatalogKnown
<1>3. ASSUME NEW k \in Keys, branch[k].at = "files"
      PROVE  /\ branch[k].row \in 1..Len(code') /\ branch[k].base \in 1..Len(catalog')
             /\ branch[k].digest = catalog'[branch[k].base]
             /\ Above(code', package', branch[k].row, branch[k].digest)
  <2>1. BranchAsks(k)
    BY <1>1, <1>3 DEF BranchKnown
  <2>2. branch[k].row \in 1..Len(code) /\ branch[k].base \in 1..Len(catalog)
        /\ branch[k].digest = catalog[branch[k].base] /\ branch[k].digest \in 0..Len(code)
        /\ Above(code, package, branch[k].row, branch[k].digest)
    BY <1>1, <2>1 DEF BranchAsks, CatalogKnown
  <2>3. Above(code', package', branch[k].row, branch[k].digest)
    BY <1>1, <2>2, AboveStays
  <2> QED
    BY <1>1, <1>2, <2>2, <2>3 DEF Grown
<1>4. CASE UNCHANGED branch
  <2>1. \A k \in Keys : branch[k].row \in 0..Len(code')
    BY <1>1, <1>2 DEF BranchKnown, Grown
  <2> QED
    BY <1>1, <1>3, <1>4, <2>1 DEF BranchKnown, BranchAsks
<1>5. ASSUME NEW k \in Keys, NEW b \in BranchRecords, branch' = [branch EXCEPT ![k] = b],
             b.row \in 0..Len(code'), b.at \in {"absent", "base"} => b.row = 0,
             b.at = "files" =>
               /\ b.row \in 1..Len(code') /\ b.base \in 1..Len(catalog')
               /\ b.digest = catalog'[b.base] /\ Above(code', package', b.row, b.digest)
      PROVE  BranchKnown'
  <2>1. branch' \in [Keys -> BranchRecords]
        /\ branch'[k] = b /\ \A j \in Keys \ {k} : branch'[j] = branch[j]
    BY <1>1, <1>5 DEF BranchKnown
  <2>2. ASSUME NEW j \in Keys, branch'[j].at = "files" PROVE BranchAsks(j)'
    BY <1>3, <1>5, <2>1, <2>2 DEF BranchAsks
  <2>3. ASSUME NEW j \in Keys
        PROVE  branch'[j].row \in 0..Len(code') /\ (branch'[j].at \in {"absent", "base"} => branch'[j].row = 0)
    <3>1. branch[j].row \in 0..Len(code) /\ Len(code') >= Len(code)
      BY <1>1 DEF BranchKnown, Grown
    <3>2. branch[j].row \in 0..Len(code')
      BY <1>2, <3>1
    <3>3. branch[j].at \in {"absent", "base"} => branch[j].row = 0
      BY <1>1 DEF BranchKnown
    <3> QED
      BY <1>5, <2>1, <3>2, <3>3
  <2> QED
    BY <2>1, <2>2, <2>3 DEF BranchKnown
<1>6. CASE \E k \in Keys : DeleteBranch(k)
  <2>1. NoFiles \in BranchRecords /\ NoFiles.at # "files" /\ NoFiles.row = 0 /\ 0 \in 0..Len(code')
    BY <1>2 DEF NoFiles, BranchRecords
  <2> QED
    BY <1>5, <1>6, <2>1 DEF DeleteBranch
<1>7. CASE ChooseBranch /\ ~UNCHANGED branch
  <2>1. attempt.revision \in Keys
    BY <1>1, <1>2, <1>7 DEF AttemptKnown, ChooseBranch, Keys
  <2>2. PICK k \in Keys : k = attempt.revision
    BY <2>1
  <2> DEFINE b == [branch[k] EXCEPT !.at = IF branch[k].at = "absent" THEN "base" ELSE branch[k].at]
  <2>3. branch' = [branch EXCEPT ![k] = b]
    BY <1>7, <2>2 DEF ChooseBranch
  <2>4. branch[k] \in BranchRecords
    BY <1>1 DEF BranchKnown
  <2>5. /\ b \in BranchRecords /\ (b.at = "files" => b = branch[k]) /\ b.row = branch[k].row
        /\ b.at \in {"absent", "base"} => branch[k].at \in {"absent", "base"}
    BY <2>4 DEF BranchRecords
  <2>7. b.row \in 0..Len(code') /\ (b.at \in {"absent", "base"} => b.row = 0)
    BY <1>1, <1>2, <2>5 DEF BranchKnown, Grown
  <2>6. b.at = "files" =>
               /\ b.row \in 1..Len(code') /\ b.base \in 1..Len(catalog')
               /\ b.digest = catalog'[b.base] /\ Above(code', package', b.row, b.digest)
    BY <1>3, <2>5
  <2> HIDE DEF b
  <2> QED
    BY <1>5, <2>3, <2>5, <2>6, <2>7
<1>8. ASSUME PutOneFile \/ UploadSubmission
      PROVE  /\ attempt.key \in Keys /\ attempt.revision \in 1..Len(code) /\ attempt.commit \in 1..Len(catalog)
             /\ attempt.row = catalog[attempt.commit] /\ Above(code, package, attempt.revision, attempt.row)
             /\ UNCHANGED <<code, package, catalog>> /\ attempt.row \in 0..MaxPackages
             /\ attempt.revision \in 1..MaxPackages /\ attempt.commit \in 0..MaxMerges
  <2>1. /\ attempt.key \in Keys /\ attempt.revision \in 1..Len(code) /\ attempt.commit \in 1..Len(catalog)
        /\ attempt.row = catalog[attempt.commit] /\ Above(code, package, attempt.revision, attempt.row)
        /\ UNCHANGED <<code, package, catalog>>
    BY <1>1, <1>8 DEF PutOneFile, UploadSubmission, AttemptKnown, Compared, submitted, merged
  <2>2. attempt.row \in 0..Len(code) /\ Len(catalog) <= MaxMerges
    BY <1>1, <2>1 DEF CatalogKnown
  <2> QED
    BY <1>2, <2>1, <2>2
<1>9. CASE PutOneFile
  <2>1. PICK k \in Keys : k = attempt.key
    BY <1>8, <1>9
  <2>2. /\ branch[k] \in BranchRecords /\ branch[k].row \in 0..Len(code)
        /\ attempt.revision \in 0..Len(code')
    BY <1>1, <1>2, <1>8, <1>9, <2>1 DEF BranchKnown
  <2> DEFINE row == [branch[k] EXCEPT !.at = "half", !.row = attempt.revision]
             request == [branch[k] EXCEPT !.at = "half", !.digest = attempt.row, !.base = attempt.commit]
  <2>3. branch' = [branch EXCEPT ![k] = row] \/ branch' = [branch EXCEPT ![k] = request]
    BY <1>1, <1>9, <2>1 DEF PutOneFile, EntryDigest, CatalogCommit, BranchKnown
  <2>4. row \in BranchRecords /\ row.at = "half" /\ row.row \in 0..Len(code')
    <3>1. attempt.revision \in 0..MaxPackages
      BY <1>8, <1>9
    <3> QED
      BY <2>2, <3>1 DEF BranchRecords
  <2>5. request \in BranchRecords /\ request.at = "half" /\ request.row \in 0..Len(code')
    BY <1>8, <1>9, <2>2 DEF BranchRecords
  <2> HIDE DEF row, request
  <2>6. CASE branch' = [branch EXCEPT ![k] = row]
    BY <1>5, <2>4, <2>6
  <2>7. CASE branch' = [branch EXCEPT ![k] = request]
    BY <1>5, <2>5, <2>7
  <2> QED
    BY <2>3, <2>6, <2>7
<1>10. CASE UploadSubmission
  <2>1. PICK k \in Keys : k = attempt.key
    BY <1>8, <1>10
  <2> DEFINE b == [at |-> "files", row |-> attempt.revision, digest |-> attempt.row, base |-> attempt.commit]
  <2>2. b \in BranchRecords
    BY <1>8, <1>10 DEF BranchRecords
  <2>3. branch' = [branch EXCEPT ![k] = b]
    BY <1>10, <2>1 DEF UploadSubmission, EntryDigest, CatalogCommit
  <2>4. /\ b.row \in 1..Len(code') /\ b.base \in 1..Len(catalog')
        /\ b.digest = catalog'[b.base] /\ Above(code', package', b.row, b.digest)
        /\ b.at = "files" /\ b.row \in 0..Len(code')
    BY <1>2, <1>8, <1>10
  <2> HIDE DEF b
  <2> QED
    BY <1>5, <2>2, <2>3, <2>4
<1> QED
  BY <1>4, <1>6, <1>7, <1>9, <1>10 DEF SubmissionNext, submissionVars, SubmitRevision, CatalogMoves, Merge, Close,
     Reopen, OwnerDiverges, BeginPublish, EnsureFork, ReadCommit, ReadForkBase, CheckCatalog,
     UpdatePull, CreatePull, PublishFails

\* A request that is opened is the only one, as long as none is reopened.
LEMMA PullsKeep ==
  ASSUME SubmissionInv, [SubmissionNext]_submissionVars
  PROVE  PullsKnown' /\ OneOpen' /\ Len(pulls') >= Len(pulls)
<1>1. PullsKnown /\ OneOpen /\ AttemptKnown /\ Len(pulls) \in Nat
  BY DEF SubmissionInv, PullsKnown
<1>2. ASSUME NEW n \in 1..Len(pulls), NEW s \in {"merged", "closed"}, pulls' = [pulls EXCEPT ![n].state = s],
             UNCHANGED <<reopened, attempt>>
      PROVE  PullsKnown' /\ OneOpen' /\ Len(pulls') >= Len(pulls)
  <2>1. pulls[n] \in PullRecords /\ [pulls[n] EXCEPT !.state = s] \in PullRecords
        /\ [pulls[n] EXCEPT !.state = s].state = s
    <3>1. \A p \in PullRecords : [p EXCEPT !.state = s] \in PullRecords /\ [p EXCEPT !.state = s].state = s
      BY DEF PullRecords
    <3>2. pulls[n] \in PullRecords
      BY <1>1 DEF PullsKnown
    <3> QED
      BY <3>1, <3>2
  <2>2. pulls' \in Seq(PullRecords) /\ Len(pulls') = Len(pulls)
        /\ pulls'[n].state = s /\ \A m \in 1..Len(pulls) : m # n => pulls'[m] = pulls[m]
    BY <1>1, <1>2, <2>1 DEF PullsKnown
  <2>3. \A m \in 1..Len(pulls) : IsOpen(m)' => IsOpen(m)
    BY <2>2 DEF IsOpen
  <2> QED
    BY <1>1, <1>2, <2>2, <2>3 DEF PullsKnown, OneOpen
<1>3. CASE \E n \in DOMAIN pulls : Merge(n) \/ Close(n)
  <2>1. DOMAIN pulls = 1..Len(pulls)
    BY <1>1 DEF PullsKnown
  <2> QED
    BY <1>2, <1>3, <2>1 DEF Merge, Close
<1>4. CASE \E n \in DOMAIN pulls : Reopen(n)
  <2>1. PICK n \in 1..Len(pulls) : Reopen(n)
    BY <1>1, <1>4 DEF PullsKnown
  <2>2. pulls[n] \in PullRecords /\ [pulls[n] EXCEPT !.state = "open"] \in PullRecords
    <3>1. \A p \in PullRecords : [p EXCEPT !.state = "open"] \in PullRecords
      BY DEF PullRecords
    <3>2. pulls[n] \in PullRecords
      BY <1>1 DEF PullsKnown
    <3> QED
      BY <3>1, <3>2
  <2>3. pulls' = [pulls EXCEPT ![n].state = "open"] /\ reopened' = TRUE
    BY <2>1 DEF Reopen
  <2>4. pulls' \in Seq(PullRecords) /\ Len(pulls') = Len(pulls)
    BY <1>1, <2>2, <2>3 DEF PullsKnown
  <2> QED
    BY <1>1, <2>3, <2>4 DEF PullsKnown, OneOpen
<1>5. CASE UNCHANGED <<pulls, reopened>> /\ (attempt' = NoAttempt \/ UNCHANGED attempt)
  <2>1. \A m : IsOpen(m)' <=> IsOpen(m)
    BY <1>5 DEF IsOpen
  <2> QED
    BY <1>1, <1>5, <2>1 DEF PullsKnown, OneOpen, NoAttempt
<1>6. CASE UNCHANGED <<pulls, reopened>> /\ attempt.step # "idle" /\ attempt'.pull = attempt.pull
  <2>1. \A m : IsOpen(m)' <=> IsOpen(m)
    BY <1>6 DEF IsOpen
  <2> QED
    BY <1>1, <1>6, <2>1 DEF PullsKnown, OneOpen
<1>7. CASE BeginPublish
  <2>1. UNCHANGED <<pulls, reopened>>
    BY <1>7 DEF BeginPublish
  <2>2. \A m : IsOpen(m)' <=> IsOpen(m)
    BY <2>1 DEF IsOpen
  <2>3. \A n : Begun(n).pull = n
    BY DEF Begun, NoAttempt
  <2>4. \A n \in Waiting : n # 0
    BY <1>1 DEF Waiting, OpenPulls, PullsKnown
  <2>5. attempt'.pull = 0 => Waiting = {}
    BY <1>7, <2>3, <2>4 DEF BeginPublish
  <2>6. Waiting = {} => \A n \in 1..Len(pulls) : ~IsOpen(n)
    BY <1>1 DEF Waiting, OpenPulls, IsOpen, PullsKnown
  <2> QED
    BY <1>1, <2>1, <2>2, <2>5, <2>6 DEF PullsKnown, OneOpen
<1>8. CASE CreatePull /\ ~UNCHANGED pulls
  <2>1. attempt.step = "submitted" /\ attempt.pull = 0 /\ attempt.key \in Keys
        /\ attempt' = NoAttempt /\ UNCHANGED reopened
    BY <1>1, <1>8 DEF CreatePull, AttemptKnown
  <2> DEFINE new == [state |-> "open", key |-> attempt.key]
  <2>2. new \in PullRecords
    BY <2>1 DEF PullRecords
  <2>3. pulls' = Append(pulls, new)
    BY <1>8 DEF CreatePull
  <2> HIDE DEF new
  <2>4. pulls' \in Seq(PullRecords) /\ Len(pulls') = Len(pulls) + 1
        /\ \A m \in 1..Len(pulls) : pulls'[m] = pulls[m]
    BY <1>1, <2>2, <2>3 DEF PullsKnown
  <2>5. ~reopened => \A n \in 1..Len(pulls) : ~IsOpen(n)
    BY <1>1, <2>1 DEF OneOpen
  <2>6. ~reopened => \A n \in 1..Len(pulls') : IsOpen(n)' => n = Len(pulls) + 1
    BY <1>1, <2>4, <2>5 DEF IsOpen
  <2>7. NoAttempt.step = "idle"
    BY DEF NoAttempt
  <2>8. OneOpen'
    BY <2>1, <2>6, <2>7 DEF OneOpen
  <2> QED
    BY <1>1, <2>1, <2>4, <2>8 DEF PullsKnown
<1>9. ASSUME \/ EnsureFork \/ ReadCommit \/ ReadForkBase \/ CheckCatalog \/ ChooseBranch
             \/ PutOneFile \/ UploadSubmission
      PROVE  UNCHANGED <<pulls, reopened>> /\ attempt.step # "idle" /\ attempt'.pull = attempt.pull
  <2>1. attempt \in AttemptRecords
    BY <1>1 DEF AttemptKnown
  <2> QED
    BY <1>9, <2>1 DEF EnsureFork, ReadCommit, ReadForkBase, CheckCatalog, ChooseBranch, PutOneFile,
       UploadSubmission, AttemptRecords
<1>10. ASSUME \/ SubmitRevision \/ CatalogMoves \/ OwnerDiverges \/ UpdatePull \/ PublishFails
              \/ \E k \in Keys : DeleteBranch(k)
              \/ CreatePull /\ UNCHANGED pulls
              \/ UNCHANGED submissionVars
       PROVE  UNCHANGED <<pulls, reopened>> /\ (attempt' = NoAttempt \/ UNCHANGED attempt)
  BY <1>10 DEF SubmitRevision, CatalogMoves, OwnerDiverges, UpdatePull, PublishFails, DeleteBranch,
     CreatePull, submissionVars
<1> QED
  BY <1>3, <1>4, <1>5, <1>6, <1>7, <1>8, <1>9, <1>10 DEF SubmissionNext

\* What an attempt holds when it has read the catalog holds until it uploads.
LEMMA AttemptKeeps ==
  ASSUME SubmissionInv, [SubmissionNext]_submissionVars
  PROVE  AttemptKnown'
<1> USE SubmissionAssumption
<1>1. /\ CodesKnown /\ CatalogKnown /\ AttemptKnown /\ ForkKnown /\ PullsKnown /\ Grown /\ CodesKnown'
      /\ fork'.objects >= fork.objects /\ Len(pulls') >= Len(pulls)
  BY HistoryGrows, ForkKeeps, PullsKeep DEF SubmissionInv
<1>2. /\ Len(code) \in Nat /\ Len(code') \in Nat /\ Len(catalog) \in 1..MaxMerges /\ Len(catalog') \in Nat
      /\ Len(pulls) \in Nat /\ Len(pulls') \in Nat /\ attempt \in AttemptRecords
      /\ fork.objects \in Nat /\ fork'.objects \in Nat
  <2>1. ForkKnown' /\ PullsKnown' /\ CatalogKnown'
    BY ForkKeeps, PullsKeep, CatalogKeeps
  <2> QED
    BY <1>1, <2>1 DEF CodesKnown, CatalogKnown, PullsKnown, AttemptKnown, ForkKnown, ForkRecords
\* The attempt goes on, with what it had.
<1>3. /\ attempt.step # "idle" => attempt.revision \in 1..Len(code') /\ attempt.pull \in 0..Len(pulls')
      /\ attempt.step \in {"noted", "based"} \union Compared => attempt.commit \in 1..Len(catalog')
      /\ attempt.step \in Compared =>
           attempt.row = catalog'[attempt.commit] /\ Above(code', package', attempt.revision, attempt.row)
      /\ attempt.step \in {"chosen", "begun", "submitted"} => attempt.key \in Keys
      /\ attempt.base # 0 => attempt.base = Own \/ attempt.base <= fork'.objects
  <2>1. attempt.step # "idle" => attempt.revision \in 1..Len(code') /\ attempt.pull \in 0..Len(pulls')
    BY <1>1, <1>2 DEF AttemptKnown, Grown
  <2>2. attempt.step \in {"noted", "based"} \union Compared => attempt.commit \in 1..Len(catalog')
    BY <1>1, <1>2 DEF AttemptKnown, Grown
  <2>3. ASSUME attempt.step \in Compared
        PROVE  attempt.row = catalog'[attempt.commit] /\ Above(code', package', attempt.revision, attempt.row)
    <3>1. /\ attempt.commit \in 1..Len(catalog) /\ attempt.row = catalog[attempt.commit]
          /\ attempt.revision \in 1..Len(code) /\ Above(code, package, attempt.revision, attempt.row)
      BY <1>1, <2>3 DEF AttemptKnown, Compared
    <3>2. attempt.row \in 0..Len(code)
      BY <1>1, <3>1 DEF CatalogKnown
    <3>3. Above(code', package', attempt.revision, attempt.row)
      BY <1>1, <3>1, <3>2, AboveStays
    <3> QED
      BY <1>1, <3>1, <3>3 DEF Grown
  <2>4. attempt.base # 0 => attempt.base = Own \/ attempt.base <= fork'.objects
    <3>1. attempt.base \in Nat
      BY <1>2 DEF AttemptRecords
    <3> QED
      BY <1>1, <1>2, <3>1 DEF AttemptKnown
  <2> QED
    BY <1>1, <2>1, <2>2, <2>3, <2>4 DEF AttemptKnown
<1>4. CASE UNCHANGED attempt
  BY <1>2, <1>3, <1>4 DEF AttemptKnown
<1>5. CASE attempt' = NoAttempt
  <2>1. NoAttempt \in AttemptRecords /\ NoAttempt.step = "idle" /\ NoAttempt.base = 0
    BY DEF NoAttempt, AttemptRecords, Steps
  <2> QED
    BY <1>5, <2>1 DEF AttemptKnown, Compared
<1>6. CASE BeginPublish
  <2>1. PICK n \in 0..Len(pulls) : attempt' = Begun(n)
    <3>1. Waiting \subseteq 1..Len(pulls)
      BY <1>1 DEF Waiting, OpenPulls, PullsKnown
    <3> QED
      BY <1>2, <1>6, <3>1 DEF BeginPublish
  <2>2. UNCHANGED <<code, pulls>> /\ code # <<>>
    BY <1>6 DEF BeginPublish, submitted
  <2>3. Len(code) \in 1..Len(code)
    BY <1>1, <1>2, <2>2 DEF CodesKnown
  <2>4. /\ Begun(n) \in AttemptRecords
        /\ Begun(n).step = "read" /\ Begun(n).revision = Len(code) /\ Begun(n).pull = n /\ Begun(n).base = 0
    <3>1. \A r, m \in Nat :
            LET a == [NoAttempt EXCEPT !.step = "read", !.revision = r, !.pull = m] IN
            /\ a \in AttemptRecords /\ a.step = "read" /\ a.revision = r /\ a.pull = m /\ a.base = 0
      BY DEF NoAttempt, AttemptRecords, Steps
    <3>2. n \in Nat
      BY <1>2
    <3> QED
      BY <1>2, <3>1, <3>2 DEF Begun
  <2> QED
    BY <2>1, <2>2, <2>3, <2>4 DEF AttemptKnown, Compared
<1>7. CASE EnsureFork
  <2>1. attempt' = [attempt EXCEPT !.step = "forked"] /\ attempt.step = "read"
    BY <1>7 DEF EnsureFork
  <2>2. /\ attempt' \in AttemptRecords /\ attempt'.step = "forked" /\ attempt'.revision = attempt.revision
        /\ attempt'.pull = attempt.pull /\ attempt'.base = attempt.base
    BY <1>2, <2>1 DEF AttemptRecords, Steps
  <2> QED
    BY <1>3, <2>1, <2>2 DEF AttemptKnown, Compared
<1>8. CASE ReadCommit
  <2>1. attempt' = [attempt EXCEPT !.step = "noted", !.commit = Tip] /\ attempt.step = "forked"
        /\ UNCHANGED catalog
    BY <1>8 DEF ReadCommit, merged
  <2>2. /\ attempt' \in AttemptRecords /\ attempt'.step = "noted" /\ attempt'.revision = attempt.revision
        /\ attempt'.pull = attempt.pull /\ attempt'.base = attempt.base /\ attempt'.commit = Len(catalog)
    BY <1>2, <2>1 DEF AttemptRecords, Steps, Tip
  <2>3. attempt'.commit \in 1..Len(catalog')
    BY <1>2, <2>1, <2>2
  <2> QED
    BY <1>3, <2>1, <2>2, <2>3 DEF AttemptKnown, Compared
<1>9. CASE ReadForkBase
  <2>1. attempt' = [attempt EXCEPT !.step = "based", !.base = fork.default] /\ attempt.step = "noted"
        /\ UNCHANGED fork
    BY <1>9 DEF ReadForkBase, ForkBase
  <2>2. fork.default \in Nat /\ (fork.default # 0 => fork.default = Own \/ fork.default <= fork.objects)
    BY <1>1 DEF ForkKnown, ForkRecords, Own
  <2>3. /\ attempt' \in AttemptRecords /\ attempt'.step = "based" /\ attempt'.revision = attempt.revision
        /\ attempt'.pull = attempt.pull /\ attempt'.base = fork.default /\ attempt'.commit = attempt.commit
    BY <1>2, <2>1, <2>2 DEF AttemptRecords, Steps
  <2> QED
    BY <1>3, <2>1, <2>2, <2>3 DEF AttemptKnown, Compared
<1>10. CASE CheckCatalog
  <2>1. attempt.step = "based" /\ UNCHANGED <<code, package, catalog>>
    BY <1>10 DEF CheckCatalog, submitted, merged
  <2>2. CASE Tip = attempt.commit
    <3>1. PICK r \in Nat : r = catalog[attempt.commit] /\ attempt.commit \in 1..Len(catalog)
      BY <1>1, <2>1 DEF AttemptKnown, CatalogKnown
    <3>2. Exceeds(attempt.revision, r) /\ attempt' = [attempt EXCEPT !.step = "checked", !.row = r]
      BY <1>10, <2>2, <3>1 DEF CheckCatalog
    <3>3. /\ attempt' \in AttemptRecords /\ attempt'.step = "checked" /\ attempt'.revision = attempt.revision
          /\ attempt'.pull = attempt.pull /\ attempt'.base = attempt.base
          /\ attempt'.commit = attempt.commit /\ attempt'.row = r
      BY <1>2, <3>2 DEF AttemptRecords, Steps
    <3>4. Above(code, package, attempt.revision, r)
      BY <3>2 DEF Exceeds, Above
    <3> QED
      BY <1>3, <2>1, <3>1, <3>3, <3>4 DEF AttemptKnown, Compared
  <2>3. CASE Tip # attempt.commit
    <3>1. attempt' = [attempt EXCEPT !.step = "forked", !.commit = 0, !.base = 0]
      BY <1>10, <2>3 DEF CheckCatalog
    <3>2. /\ attempt' \in AttemptRecords /\ attempt'.step = "forked" /\ attempt'.revision = attempt.revision
          /\ attempt'.pull = attempt.pull /\ attempt'.base = 0
      BY <1>2, <3>1 DEF AttemptRecords, Steps
    <3> QED
      BY <1>3, <2>1, <3>2 DEF AttemptKnown, Compared
  <2> QED
    BY <2>2, <2>3
<1>11. CASE ChooseBranch
  <2>1. attempt.step = "checked" /\ attempt.revision \in 1..Len(code) /\ attempt.pull \in 0..Len(pulls)
    BY <1>1, <1>11 DEF ChooseBranch, AttemptKnown
  <2>2. PICK k \in Keys : attempt' = [attempt EXCEPT !.step = "chosen", !.base = 0, !.key = k]
    <3>1. attempt.revision \in Keys
      BY <1>1, <1>2, <2>1 DEF Keys, CodesKnown
    <3>2. attempt.pull # 0 => pulls[attempt.pull].key \in Keys
      <4>1. attempt.pull # 0 => pulls[attempt.pull] \in PullRecords
        BY <1>1, <1>2, <2>1 DEF PullsKnown
      <4> QED
        BY <4>1 DEF PullRecords
    <3> QED
      BY <1>11, <3>1, <3>2 DEF ChooseBranch
  <2>3. k \in Nat
    BY DEF Keys
  <2>4. /\ attempt' \in AttemptRecords /\ attempt'.step = "chosen" /\ attempt'.revision = attempt.revision
        /\ attempt'.pull = attempt.pull /\ attempt'.base = 0 /\ attempt'.key = k
        /\ attempt'.commit = attempt.commit /\ attempt'.row = attempt.row
    BY <1>2, <2>2, <2>3 DEF AttemptRecords, Steps
  <2> QED
    BY <1>3, <2>1, <2>4 DEF AttemptKnown, Compared
<1>12. CASE PutOneFile
  <2>1. attempt.step = "chosen" /\ attempt' = [attempt EXCEPT !.step = "begun"]
    BY <1>12 DEF PutOneFile
  <2>2. /\ attempt' \in AttemptRecords /\ attempt'.step = "begun" /\ attempt'.revision = attempt.revision
        /\ attempt'.pull = attempt.pull /\ attempt'.base = attempt.base /\ attempt'.key = attempt.key
        /\ attempt'.commit = attempt.commit /\ attempt'.row = attempt.row
    BY <1>2, <2>1 DEF AttemptRecords, Steps
  <2> QED
    BY <1>3, <2>1, <2>2 DEF AttemptKnown, Compared
<1>14. CASE UploadSubmission
  <2>1. /\ attempt.step \in {"chosen", "begun"}
        /\ attempt' = [attempt EXCEPT !.step = "submitted", !.commit = 0, !.row = 0]
    BY <1>14 DEF UploadSubmission
  <2>2. /\ attempt' \in AttemptRecords /\ attempt'.step = "submitted" /\ attempt'.revision = attempt.revision
        /\ attempt'.pull = attempt.pull /\ attempt'.base = attempt.base /\ attempt'.key = attempt.key
    BY <1>2, <2>1 DEF AttemptRecords, Steps
  <2> QED
    BY <1>3, <2>1, <2>2 DEF AttemptKnown, Compared
<1>13. ASSUME \/ SubmitRevision \/ CatalogMoves \/ OwnerDiverges \/ UpdatePull \/ PublishFails \/ CreatePull
              \/ \E k \in Keys : DeleteBranch(k)
              \/ \E n \in DOMAIN pulls : Merge(n) \/ Close(n) \/ Reopen(n)
              \/ UNCHANGED submissionVars
       PROVE  attempt' = NoAttempt \/ UNCHANGED attempt
  BY <1>13 DEF SubmitRevision, CatalogMoves, OwnerDiverges, UpdatePull, PublishFails, DeleteBranch,
     CreatePull, Merge, Close, Reopen, submissionVars
<1> QED
  BY <1>4, <1>5, <1>6, <1>7, <1>8, <1>9, <1>10, <1>11, <1>12, <1>13, <1>14 DEF SubmissionNext

\* The inductive invariant of the submissions: what is read of the catalog stays as it
\* was read, what was compared may be asked for, and no request is opened beside another.
THEOREM SubmissionInvariance == SubmissionSpec => []SubmissionInv
<1>1. SubmissionInv /\ [SubmissionNext]_submissionVars => SubmissionInv'
  BY HistoryGrows, CatalogKeeps, ForkKeeps, BranchKeeps, PullsKeep, AttemptKeeps DEF SubmissionInv
<1> QED
  BY <1>1, SubmissionBegins, PTL DEF SubmissionSpec

\* Every reachable state of the submissions is well typed.
THEOREM SubmissionTypeCorrect == SubmissionSpec => []SubmissionTypeOK
<1>1. ASSUME SubmissionInv PROVE SubmissionTypeOK
  <2> USE SubmissionAssumption
  <2>1. code \in Seq(1..MaxPackages) /\ package \in Seq(1..MaxPackages)
    <3>1. /\ code \in Seq(Nat) /\ package \in Seq(Nat) /\ Len(package) = Len(code)
          /\ Len(code) \in Nat /\ Len(code) <= MaxPackages
      BY <1>1 DEF SubmissionInv, CodesKnown
    <3>2. \A i \in 1..Len(code) : code[i] \in 1..MaxPackages /\ package[i] \in 1..MaxPackages
      BY <1>1, <3>1 DEF SubmissionInv, CodesKnown
    <3>3. code \in Seq(1..MaxPackages)
      <4>1. \A i \in 1..Len(code) : code[i] \in 1..MaxPackages
        BY <3>1, <3>2
      <4> QED
        BY <3>1, <4>1
    <3>4. package \in Seq(1..MaxPackages)
      <4>1. \A i \in 1..Len(package) : package[i] \in 1..MaxPackages
        BY <3>1, <3>2
      <4> QED
        BY <3>1, <4>1
    <3> QED
      BY <3>3, <3>4
  <2>2. catalog \in Seq(0..MaxPackages) /\ halves \subseteq 1..MaxMerges
    <3>1. /\ Len(code) \in Nat /\ Len(code) <= MaxPackages /\ catalog \in Seq(Nat)
          /\ Len(catalog) \in 1..MaxMerges /\ halves \subseteq 1..Len(catalog)
      BY <1>1 DEF SubmissionInv, CatalogKnown, CodesKnown
    <3>2. \A i \in 1..Len(catalog) : catalog[i] \in 0..MaxPackages
      BY <1>1, <3>1 DEF SubmissionInv, CatalogKnown
    <3>3. 1..Len(catalog) \subseteq 1..MaxMerges
      BY <3>1
    <3> QED
      BY <3>1, <3>2, <3>3
  <2>3. fork \in [default : 0..Own, objects : 0..MaxMerges]
    BY <1>1 DEF SubmissionInv, ForkKnown, ForkRecords
  <2>4. branch \in [Keys -> [at : {"absent", "base", "half", "files"}, row : 0..MaxPackages,
                          digest : 0..MaxPackages, base : 0..MaxMerges]]
    BY <1>1 DEF SubmissionInv, BranchKnown, BranchRecords
  <2>5. pulls \in Seq([state : {"open", "merged", "closed"}, key : Keys]) /\ reopened \in BOOLEAN
    BY <1>1 DEF SubmissionInv, PullsKnown, PullRecords
  <2>6. attempt.step \in {"idle", "read", "forked", "noted", "based", "checked", "chosen",
                        "begun", "submitted"}
    BY <1>1 DEF SubmissionInv, AttemptKnown, AttemptRecords, Steps
  <2> QED
    BY <2>1, <2>2, <2>3, <2>4, <2>5, <2>6 DEF SubmissionTypeOK
<1> QED
  BY <1>1, SubmissionInvariance, PTL

\* Whatever a branch asks the catalog for, it replaces the row it was compared with, by
\* a package that may; and the resource has one open request, as long as none is reopened.
THEOREM SubmissionIsCoherentAlways == SubmissionSpec => []SubmissionIsCoherent
<1>1. ASSUME SubmissionInv PROVE SubmissionIsCoherent
  <2>1. \A k \in Keys : branch[k].at = "files" =>
          /\ branch[k].digest = catalog[branch[k].base]
          /\ Exceeds(branch[k].row, branch[k].digest)
    BY <1>1 DEF SubmissionInv, BranchKnown, BranchAsks, Above, Exceeds
  <2>2. attempt.base # 0 => InFork(attempt.base)
    <3>1. attempt.base \in Nat /\ fork.objects \in Nat
      BY <1>1 DEF SubmissionInv, AttemptKnown, AttemptRecords, ForkKnown, ForkRecords
    <3> QED
      BY <1>1, <3>1 DEF SubmissionInv, AttemptKnown, InFork
  <2>3. ASSUME ~reopened PROVE Cardinality(OpenPulls) <= 1
    <3>1. \A m, n \in OpenPulls : m = n
      BY <1>1, <2>3 DEF SubmissionInv, OneOpen, OpenPulls, IsOpen, PullsKnown
    <3>2. CASE OpenPulls = {}
      BY <3>2, FS_EmptySet
    <3>3. CASE OpenPulls # {}
      <4>1. PICK n \in OpenPulls : TRUE
        BY <3>3
      <4>2. OpenPulls = {n}
        BY <3>1, <4>1
      <4>3. Cardinality({n}) = 1
        BY FS_Singleton
      <4> QED
        BY <4>2, <4>3
    <3> QED
      BY <3>2, <3>3
  <2> QED
    BY <2>1, <2>2, <2>3 DEF SubmissionIsCoherent
<1> QED
  BY <1>1, SubmissionInvariance, PTL

\* The catalog's row never goes to another package whose version code is not higher, for
\* any number of revisions, commits and requests.
THEOREM PublishedNeverGoesBackAlways == SubmissionSpec => []PublishedNeverGoesBack
<1>1. ASSUME SubmissionInv PROVE PublishedNeverGoesBack
  <2>1. ASSUME NEW i \in 1..(Len(catalog) - 1)
        PROVE  \/ catalog[i] \in {0, catalog[i + 1]} \/ i + 1 \in halves
               \/ package[catalog[i]] = package[catalog[i + 1]] \/ code[catalog[i]] < code[catalog[i + 1]]
    <3>1. /\ Len(catalog) \in Nat /\ catalog[i] \in 0..Len(code) /\ catalog[i + 1] \in 0..Len(code)
          /\ Len(code) \in Nat /\ \A r \in 1..Len(code) : code[r] \in Nat
      BY <1>1 DEF SubmissionInv, CatalogKnown, CodesKnown
    <3> QED
      BY <1>1, <3>1 DEF SubmissionInv, NeverBack, Above
  <2> QED
    BY <2>1 DEF PublishedNeverGoesBack, Tip
<1> QED
  BY <1>1, SubmissionInvariance, PTL

-----------------------------------------------------------------------------
(* The two beside each other *)

\* The run of both implements each: what is proved of a module alone holds of it
\* beside the other.
THEOREM PublishImplementsEach == MCSpec => Spec /\ SubmissionSpec
<1>1. MCInit => Init /\ SubmissionInit
  BY DEF MCInit
<1>2. [MCNext]_<<focus, vars, submissionVars>> => [Next]_vars /\ [SubmissionNext]_submissionVars
  BY DEF MCNext
<1> QED
  BY <1>1, <1>2, PTL DEF MCSpec, Spec, SubmissionSpec

\* Every variable of the two modules keeps its type.
THEOREM PublishTypeCorrect == MCSpec => []MCTypeOK
<1>1. TypeOK /\ SubmissionTypeOK => MCTypeOK
  BY DEF MCTypeOK
<1> QED
  BY <1>1, PublishImplementsEach, BandBBSTypeCorrect, SubmissionTypeCorrect, PTL
=============================================================================
