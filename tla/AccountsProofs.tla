---------------------------- MODULE AccountsProofs ----------------------------
(***************************************************************************)
(* Proofs about the modules of one account: its client sessions, its       *)
(* console session, its BandBBS grant and its GitHub authorization, for    *)
(* any number of logins, tabs, callers, flows and requests.                *)
(***************************************************************************)
EXTENDS Sessions, ConsoleSessions, Grants, GitHubLink, TLAPS

-----------------------------------------------------------------------------
(* Sessions *)

(* The pairs anybody holds, asked for or was given have been made. *)
PairsWereMade ==
  /\ \A l \in Logins : session[l].pair \in 0..pairs /\ client[l].pair \in 0..pairs
  /\ \A q \in requests : q.pair \in 1..pairs
  /\ \A a \in answers : a.presented \in 1..pairs /\ a.pair \in 1..pairs
  /\ \A r \in receipts : r.from \in 1..pairs /\ r.to \in 1..pairs

(* A pair is the current one of a single session; once exchanged it is current no
   more, and it has one successor, that of its receipts. *)
OneSuccessor ==
  /\ \A l, m \in Logins : session[l].pair = session[m].pair /\ session[l].pair # 0 => l = m
  /\ \A a, b \in answers : a.presented = b.presented => a.pair = b.pair
  /\ \A a \in answers, l \in Logins : ~Its(l, a.presented)
  /\ \A r \in receipts :
       /\ \E a \in answers : a.presented = r.from /\ a.pair = r.to
       /\ \A l \in Logins : Its(l, r.to) => r.session = l

(* What was answered was asked for, and if under an id there is a receipt. *)
AnswersWereAsked ==
  \A a \in answers : \E q \in requests :
    /\ q.pair = a.presented
    /\ q.id # NoId => \E r \in receipts : r.from = q.pair /\ r.id = q.id /\ r.to = a.pair

(* The session is one rotation ahead of its client at most, and the id of that
   rotation is the one the client has kept to. *)
ClientFollows(l) ==
  client[l].pair # 0 =>
    /\ \/ Its(l, client[l].pair)
       \/ /\ \E a \in answers : a.presented = client[l].pair /\ Its(l, a.pair)
          /\ \A q \in requests : ~Its(l, q.pair)
    /\ client[l].kept =>
         \A q \in requests : q.pair = client[l].pair => q.id = client[l].id
    /\ client[l].kept /\ client[l].id # NoId =>
         \/ Its(l, client[l].pair)
         \/ \E r \in receipts :
              r.from = client[l].pair /\ r.id = client[l].id /\ Its(l, r.to)

(* Before its ticket is used a login has neither client nor end; and what has
   ended is not open. *)
EndsAreFinal ==
  /\ \A l \in Logins : login[l] # "used" => client[l] = NoClient /\ l \notin left
  /\ \A l \in left : session[l].state # "open"
  /\ banned => \A l \in Logins : session[l].state # "open"

PairInv ==
  /\ PairsWereMade /\ OneSuccessor /\ AnswersWereAsked
  /\ \A l \in Logins : ClientFollows(l)

SessionsInv == SessionsTypeOK /\ PairInv /\ EndsAreFinal

SessionRecords ==
  [state : {"none", "open", "revoked"}, pair : Pairs, access : BOOLEAN, refresh : BOOLEAN]
ClientRecords == [pair : Pairs, id : RotationIds \union {NoId}, kept : BOOLEAN]
Receipts == [from : Pairs, id : RotationIds, session : Logins, to : Pairs, live : BOOLEAN]

\* Receipts that say the same whether or not they are live.
SameRotation(r, s) == r.from = s.from /\ r.id = s.id /\ r.session = s.session /\ r.to = s.to

\* Steps that make no pair and hand none on: a client at most forgets its own.
LEMMA NoPairKeeps ==
  ASSUME PairInv, UNCHANGED <<pairs, requests, answers>>,
         \A l \in Logins : session'[l].pair = session[l].pair,
         \A l \in Logins : client'[l] = client[l] \/ client'[l] = NoClient,
         \A r \in receipts : \E s \in receipts' : SameRotation(r, s),
         \A s \in receipts' : \E r \in receipts : SameRotation(r, s),
         pairs \in Nat
  PROVE  PairInv'
<1>1. PairsWereMade'
  BY DEF PairInv, PairsWereMade, SameRotation, NoClient
<1>2. OneSuccessor'
  BY DEF PairInv, OneSuccessor, Its, SameRotation
<1>3. AnswersWereAsked'
  BY DEF PairInv, AnswersWereAsked, SameRotation
<1>4. ASSUME NEW l \in Logins PROVE ClientFollows(l)'
  <2>1. CASE client'[l] = NoClient
    BY <2>1 DEF ClientFollows, NoClient
  <2>2. CASE client'[l] = client[l]
    BY <2>2 DEF PairInv, ClientFollows, Its, SameRotation
  <2> QED
    BY <2>1, <2>2
<1> QED
  BY <1>1, <1>2, <1>3, <1>4 DEF PairInv

\* The pair of a client is no other client's, and not the session's of another login.
LEMMA ClientsApart ==
  ASSUME PairInv, NEW l \in Logins, NEW m \in Logins, l # m, client[l].pair # 0
  PROVE  client[m].pair # client[l].pair /\ ~Its(m, client[l].pair)
<1>1. \A a \in answers : a.pair \in 1..pairs /\ \A n \in Logins : ~Its(n, a.presented)
  BY DEF PairInv, PairsWereMade, OneSuccessor
<1>2. \A a \in answers : ~(Its(l, a.pair) /\ Its(m, a.pair))
  BY <1>1 DEF PairInv, OneSuccessor, Its
<1>3. ~Its(m, client[l].pair)
  BY <1>1 DEF PairInv, OneSuccessor, ClientFollows, Its
<1>4. ASSUME client[m].pair = client[l].pair PROVE FALSE
  <2>1. ClientFollows(l) /\ ClientFollows(m) /\ client[m].pair # 0
    BY <1>4 DEF PairInv
  <2>2. CASE Its(l, client[l].pair) \/ Its(m, client[m].pair)
    BY <1>1, <1>3, <1>4, <2>1, <2>2 DEF ClientFollows, PairInv, OneSuccessor, Its
  <2>3. CASE ~Its(l, client[l].pair) /\ ~Its(m, client[m].pair)
    <3>1. PICK a \in answers : a.presented = client[l].pair /\ Its(l, a.pair)
      BY <2>1, <2>3 DEF ClientFollows
    <3>2. PICK b \in answers : b.presented = client[l].pair /\ Its(m, b.pair)
      BY <1>4, <2>1, <2>3 DEF ClientFollows
    <3>3. a.pair = b.pair
      BY <3>1, <3>2 DEF PairInv, OneSuccessor
    <3> QED
      BY <1>2, <3>1, <3>2, <3>3
  <2> QED
    BY <2>2, <2>3
<1> QED
  BY <1>3, <1>4
\* The first pair of a session is new.
LEMMA ExchangeKeeps ==
  ASSUME SessionsTypeOK, PairInv, EndsAreFinal, NEW l \in Logins, ExchangeTicket(l)
  PROVE  PairInv'
<1> DEFINE new == pairs + 1
<1>1. pairs \in Nat /\ pairs' = new /\ UNCHANGED <<receipts, requests, answers>>
  BY DEF ExchangeTicket, SessionsTypeOK, Pairs
<1>2. /\ session'[l].pair = new
      /\ \A m \in Logins : m # l => session'[m].pair = session[m].pair
  BY DEF ExchangeTicket, SessionsTypeOK
<1>3. client[l] = NoClient
  BY DEF ExchangeTicket, TicketValid, EndsAreFinal
<1>4. /\ client'[l] = NoClient \/ (client'[l].pair = new /\ client'[l].id = NoId)
      /\ \A m \in Logins : m # l => client'[m] = client[m]
  <2>1. CASE client' = [client EXCEPT ![l].pair = pairs + 1]
    <3>1. client'[l] = [client[l] EXCEPT !.pair = new]
      BY <2>1 DEF SessionsTypeOK
    <3> QED
      BY <1>3, <2>1, <3>1 DEF SessionsTypeOK, NoClient
  <2>2. CASE UNCHANGED client
    BY <1>3, <2>2
  <2> QED
    BY <2>1, <2>2 DEF ExchangeTicket
<1> HIDE DEF new
<1>5. new \in 1..new /\ (\A n \in 0..pairs : n # new /\ n \in 0..new) /\ \A n \in 1..pairs : n \in 1..new
  BY <1>1 DEF new
<1>6. PairsWereMade'
  BY <1>1, <1>2, <1>4, <1>5 DEF PairInv, PairsWereMade, NoClient
<1>7. OneSuccessor'
  BY <1>1, <1>2, <1>5 DEF PairInv, PairsWereMade, OneSuccessor, Its
<1>8. AnswersWereAsked'
  BY <1>1 DEF PairInv, AnswersWereAsked
<1>9. \A q \in requests : q.pair # new
  BY <1>5 DEF PairInv, PairsWereMade
<1>10. ASSUME NEW m \in Logins PROVE ClientFollows(m)'
  <2>1. CASE m # l
    BY <1>1, <1>2, <1>4, <2>1 DEF PairInv, ClientFollows, Its
  <2>2. CASE client'[l] = NoClient
    BY <1>1, <1>2, <1>4, <2>2 DEF PairInv, ClientFollows, Its, NoClient
  <2>3. CASE m = l /\ (client'[l].pair = new /\ client'[l].id = NoId)
    BY <1>1, <1>2, <1>9, <2>3 DEF ClientFollows, Its
  <2> QED
    BY <1>4, <2>1, <2>2, <2>3
<1> QED
  BY <1>6, <1>7, <1>8, <1>10 DEF PairInv

\* A client that asks, or asks again, asks for its own session only.
LEMMA AskKeeps ==
  ASSUME SessionsTypeOK, PairInv, NEW l \in Logins, NEW id \in RotationIds \union {NoId},
         AskRotation(l, id)
  PROVE  PairInv'
<1> DEFINE p == client[l].pair
           asked == [pair |-> p, id |-> id]
           keeps == client[l].kept /\
             (client[l].id = id \/ [pair |-> p, id |-> client[l].id] \notin requests)
<1>1. /\ p # 0 /\ p \in Pairs /\ p \in 0..pairs /\ pairs \in Nat
      /\ requests' = requests \union {asked}
      /\ UNCHANGED <<session, receipts, pairs, answers>>
  BY DEF AskRotation, SessionsTypeOK, PairInv, PairsWereMade, Pairs
<1>2. /\ client'[l].pair = p /\ client'[l].id = id /\ client'[l].kept = keeps
      /\ \A m \in Logins : m # l => client'[m] = client[m]
  BY DEF AskRotation, SessionsTypeOK
<1>3. \A q \in requests : q = [pair |-> q.pair, id |-> q.id]
  BY DEF SessionsTypeOK
<1> HIDE DEF keeps
<1>4. PairsWereMade'
  BY <1>1, <1>2 DEF PairInv, PairsWereMade
<1>5. OneSuccessor'
  BY <1>1 DEF PairInv, OneSuccessor, Its
<1>6. AnswersWereAsked'
  BY <1>1 DEF PairInv, AnswersWereAsked
<1>7. ASSUME NEW m \in Logins, m # l PROVE ClientFollows(m)'
  <2>1. client[m].pair # p /\ ~Its(m, p)
    BY <1>1, <1>7, ClientsApart
  <2> QED
    BY <1>1, <1>2, <1>7, <2>1 DEF PairInv, ClientFollows, Its
<1>8. ClientFollows(l)'
  <2>1. \/ Its(l, p)
        \/ /\ \E a \in answers : a.presented = p /\ Its(l, a.pair)
           /\ \A q \in requests' : ~Its(l, q.pair)
    BY <1>1 DEF PairInv, ClientFollows
  <2>2. keeps => \A q \in requests : q.pair = p => q.id = client[l].id /\ q.id = id
    BY <1>1, <1>3 DEF PairInv, ClientFollows, keeps
  <2>3. keeps => \A q \in requests' : q.pair = p => q.id = id
    BY <1>1, <2>2
  <2>4. ASSUME keeps, id # NoId, ~Its(l, p)
        PROVE  \E r \in receipts : r.from = p /\ r.id = id /\ Its(l, r.to)
    <3>1. \E a \in answers : a.presented = p
      BY <2>1, <2>4
    <3>2. PICK q \in requests : q.pair = p
      BY <3>1 DEF PairInv, AnswersWereAsked
    <3>3. client[l].id = id
      BY <2>2, <2>4, <3>2
    <3> QED
      BY <1>1, <2>4, <3>3 DEF PairInv, ClientFollows, keeps
  <2> QED
    BY <1>1, <1>2, <2>1, <2>3, <2>4 DEF ClientFollows, Its
<1> QED
  BY <1>4, <1>5, <1>6, <1>7, <1>8 DEF PairInv

\* A rotation gives the session a new pair, and only its client is behind.
LEMMA RotateKeeps ==
  ASSUME SessionsTypeOK, PairInv, NEW l \in Logins, NEW q \in requests, Rotate(l, q)
  PROVE  PairInv'
<1> DEFINE new == pairs + 1
           made == {[from |-> q.pair, id |-> id, session |-> l, to |-> new, live |-> TRUE] :
                      id \in {q.id} \ {NoId}}
           answer == [presented |-> q.pair, pair |-> new]
<1>1. /\ pairs \in Nat /\ pairs' = new /\ UNCHANGED <<client, requests>>
      /\ receipts' = receipts \union made /\ answers' = answers \union {answer}
      /\ Its(l, q.pair) /\ q.pair \in 1..pairs
  BY DEF Rotate, Rotatable, SessionsTypeOK, Pairs, PairInv, PairsWereMade
<1>2. /\ session'[l].pair = new
      /\ \A m \in Logins : m # l => session'[m].pair = session[m].pair
  BY DEF Rotate, SessionsTypeOK
<1>3. \A r \in made : r.from = q.pair /\ r.id = q.id /\ r.session = l /\ r.to = new
  OBVIOUS
<1>4. q.id # NoId => \E r \in made : r.from = q.pair /\ r.id = q.id /\ r.to = new
  <2> SUFFICES ASSUME q.id # NoId PROVE \E r \in made : r.from = q.pair /\ r.id = q.id /\ r.to = new
    OBVIOUS
  <2>1. [from |-> q.pair, id |-> q.id, session |-> l, to |-> new, live |-> TRUE] \in made
    OBVIOUS
  <2> QED
    BY <2>1
<1>5. answer.presented = q.pair /\ answer.pair = new
  OBVIOUS
<1> HIDE DEF new, made, answer
<1>6. new \in 1..new /\ (\A n \in 0..pairs : n # new /\ n \in 0..new)
      /\ (\A n \in 1..pairs : n # new /\ n \in 1..new)
  BY <1>1 DEF new
<1>7. PairsWereMade'
  BY <1>1, <1>2, <1>3, <1>5, <1>6 DEF PairInv, PairsWereMade
<1>8. OneSuccessor'
  <2>1. \A k, m \in Logins : session'[k].pair = session'[m].pair /\ session'[k].pair # 0 => k = m
    BY <1>2, <1>6 DEF PairInv, PairsWereMade, OneSuccessor
  <2>2. \A a \in answers : a.presented # q.pair
    BY <1>1 DEF PairInv, OneSuccessor
  <2>3. \A a, b \in answers' : a.presented = b.presented => a.pair = b.pair
    BY <1>1, <1>5, <2>2 DEF PairInv, OneSuccessor
  <2>4. ASSUME NEW a \in answers', NEW m \in Logins PROVE session'[m].pair # a.presented
    <3>1. CASE a \in answers
      BY <1>2, <1>6, <3>1 DEF PairInv, PairsWereMade, OneSuccessor, Its
    <3>2. CASE a = answer
      BY <1>1, <1>2, <1>5, <1>6, <3>2 DEF PairInv, OneSuccessor, Its
    <3> QED
      BY <1>1, <3>1, <3>2
  <2>5. ASSUME NEW r \in receipts'
        PROVE  /\ \E a \in answers' : a.presented = r.from /\ a.pair = r.to
               /\ \A m \in Logins : session'[m].pair = r.to => r.session = m
    <3>1. CASE r \in receipts
      BY <1>1, <1>2, <1>6, <3>1 DEF PairInv, PairsWereMade, OneSuccessor, Its
    <3>2. CASE r \in made
      BY <1>1, <1>2, <1>3, <1>5, <1>6, <3>2 DEF PairInv, PairsWereMade
    <3> QED
      BY <1>1, <3>1, <3>2
  <2> QED
    BY <2>1, <2>3, <2>4, <2>5 DEF OneSuccessor, Its
<1>9. AnswersWereAsked'
  BY <1>1, <1>4, <1>5 DEF PairInv, AnswersWereAsked
<1>10. ASSUME NEW m \in Logins PROVE ClientFollows(m)'
  <2>1. CASE m # l
    BY <1>1, <1>2, <2>1 DEF PairInv, ClientFollows, Its
  <2>2. CASE m = l /\ client[l].pair # 0
    <3>1. client[l].pair = q.pair
      BY <1>1, <2>2 DEF PairInv, ClientFollows, Its
    <3>2. \A s \in requests : s.pair # new
      BY <1>6 DEF PairInv, PairsWereMade
    <3>3. client[l].kept => q.id = client[l].id
      BY <2>2, <3>1 DEF PairInv, ClientFollows
    <3>4. client[l].kept => \A s \in requests : s.pair = client[l].pair => s.id = client[l].id
      BY <2>2 DEF PairInv, ClientFollows
    <3> QED
      BY <1>1, <1>2, <1>3, <1>4, <1>5, <2>2, <3>1, <3>2, <3>3, <3>4 DEF ClientFollows, Its
  <2>3. CASE client[m].pair = 0
    BY <1>1, <2>3 DEF ClientFollows
  <2> QED
    BY <2>1, <2>2, <2>3
<1> QED
  BY <1>7, <1>8, <1>9, <1>10 DEF PairInv

\* Whatever answer a client still waits for leads to the pair of its session.
LEMMA AdoptKeeps ==
  ASSUME SessionsTypeOK, PairInv, NEW l \in Logins, NEW a \in answers, Adopt(l, a)
  PROVE  PairInv'
<1>1. /\ UNCHANGED <<session, receipts, pairs, requests, answers>>
      /\ a.presented = client[l].pair /\ a.presented \in 1..pairs /\ a.pair \in 1..pairs
      /\ pairs \in Nat /\ client[l].pair # 0
  BY DEF Adopt, SessionsTypeOK, Pairs, PairInv, PairsWereMade
<1>2. /\ client'[l] = [pair |-> a.pair, id |-> NoId, kept |-> TRUE]
      /\ \A m \in Logins : m # l => client'[m] = client[m]
  BY DEF Adopt, NoClient, SessionsTypeOK
<1>3. ~Its(l, client[l].pair)
  BY <1>1 DEF PairInv, OneSuccessor
<1>4. PICK b \in answers : b.presented = client[l].pair /\ Its(l, b.pair)
  BY <1>1, <1>3 DEF PairInv, ClientFollows
<1>5. Its(l, a.pair) /\ \A q \in requests : q.pair # a.pair
  BY <1>1, <1>3, <1>4 DEF PairInv, OneSuccessor, ClientFollows, Its
<1>6. PairsWereMade' /\ OneSuccessor' /\ AnswersWereAsked'
  BY <1>1, <1>2 DEF PairInv, PairsWereMade, OneSuccessor, AnswersWereAsked, Its
<1>7. \A m \in Logins : ClientFollows(m)'
  BY <1>1, <1>2, <1>5 DEF PairInv, ClientFollows, Its
<1> QED
  BY <1>6, <1>7 DEF PairInv

\* What the revocation of some sessions leaves.
LEMMA RevokeEffect ==
  ASSUME SessionsTypeOK, NEW ls, Revoke(ls)
  PROVE  /\ session' \in [Logins -> SessionRecords]
         /\ \A l \in Logins :
              /\ session'[l].pair = session[l].pair
              /\ session'[l].state = "open" => l \notin ls /\ session[l].state = "open"
<1>1. session \in [Logins -> SessionRecords]
  BY DEF SessionsTypeOK, SessionRecords
<1>2. \A l \in Logins :
        session'[l] = IF l \in ls /\ session[l].state = "open" THEN [session[l] EXCEPT !.state = "revoked"]
                      ELSE session[l]
  BY DEF Revoke
<1>3. \A s \in SessionRecords :
        /\ [s EXCEPT !.state = "revoked"] \in SessionRecords
        /\ [s EXCEPT !.state = "revoked"].pair = s.pair
        /\ [s EXCEPT !.state = "revoked"].state = "revoked"
  BY DEF SessionRecords
<1>4. \A l \in Logins :
        /\ session'[l] \in SessionRecords
        /\ session'[l].pair = session[l].pair
        /\ session'[l].state = "open" => l \notin ls /\ session[l].state = "open"
  BY <1>1, <1>2, <1>3
<1>5. DOMAIN session' = Logins /\ session' = [l \in Logins |-> session'[l]]
  BY DEF Revoke
<1> QED
  BY <1>4, <1>5

\* A client that logs out in time is found, by its pair or by the receipt of its rotation.
LEMMA LogoutFinds ==
  ASSUME SessionsTypeOK, PairInv, NEW l \in Logins, Logout(l), l \in left', l \notin left,
         session[l].state = "open"
  PROVE  l \in FoundByCredential(client[l].pair)
<1> DEFINE p == client[l].pair
<1>1. /\ p # 0 /\ [pair |-> p, id |-> NoId] \notin requests
      /\ \A r \in receipts : r.from = p => r.live
  BY DEF Logout
<1>2. CASE Its(l, p)
  BY <1>2 DEF FoundByCredential
<1>3. CASE ~Its(l, p)
  <2>1. PICK a \in answers : a.presented = p /\ Its(l, a.pair)
    BY <1>1, <1>3 DEF PairInv, ClientFollows
  <2>2. PICK q \in requests :
          /\ q.pair = p
          /\ q.id # NoId => \E r \in receipts : r.from = q.pair /\ r.id = q.id /\ r.to = a.pair
    BY <2>1 DEF PairInv, AnswersWereAsked
  <2>3. q = [pair |-> q.pair, id |-> q.id]
    BY DEF SessionsTypeOK
  <2>4. PICK r \in receipts : r.from = p /\ r.to = a.pair
    BY <1>1, <2>2, <2>3
  <2>5. r.session = l
    BY <2>1, <2>4 DEF PairInv, OneSuccessor
  <2> QED
    BY <1>1, <2>4, <2>5 DEF FoundByCredential
<1> QED
  BY <1>2, <1>3

\* The steps of an authorization come before any session, client or end.
LEMMA LoginStepKeeps ==
  ASSUME SessionsInv, NEW l \in Logins,
         \/ StartAuthorization(l) \/ ConsumeState(l) \/ AdmitUser(l) \/ RefuseUser(l)
         \/ CreateTicket(l) \/ LoginExpires(l)
  PROVE  SessionsInv'
<1>1. PICK from \in {"none", "started", "consumed", "admitted", "ticket"},
           to \in {"started", "consumed", "admitted", "ticket", "failed"} : LoginStep(l, from, to)
  BY DEF StartAuthorization, ConsumeState, AdmitUser, RefuseUser, CreateTicket, LoginExpires
<1>2. PairInv'
  <2>1. UNCHANGED <<session, receipts, pairs, client, requests, answers>>
    BY <1>1 DEF LoginStep
  <2> QED
    BY <2>1, NoPairKeeps DEF SessionsInv, SameRotation, SessionsTypeOK, Pairs
<1>3. SessionsTypeOK'
  BY <1>1 DEF LoginStep, SessionsInv, SessionsTypeOK
<1>4. EndsAreFinal'
  BY <1>1 DEF LoginStep, SessionsInv, SessionsTypeOK, EndsAreFinal
<1> QED
  BY <1>2, <1>3, <1>4 DEF SessionsInv

\* Steps that make no new pair keep what is said of pairs.
LEMMA PairsStay ==
  ASSUME SessionsInv, UNCHANGED <<pairs, requests, answers, receipts>>,
         \A l \in Logins : session'[l].pair = session[l].pair,
         \A l \in Logins : client'[l] = client[l] \/ client'[l] = NoClient
  PROVE  PairInv'
  BY NoPairKeeps DEF SessionsInv, SameRotation, SessionsTypeOK, Pairs

\* Ends of sessions and of bans.
LEMMA EndKeeps ==
  ASSUME SessionsInv,
         \/ \E l \in Logins : Logout(l) \/ AdminRevoke({l})
         \/ AdminRevoke(Logins) \/ Ban \/ Unban
  PROVE  SessionsInv'
<1> USE SessionsAssumption
<1>1. ASSUME NEW l \in Logins, Logout(l) PROVE SessionsInv'
  <2>1. /\ Revoke(FoundByCredential(client[l].pair))
        /\ client' = [client EXCEPT ![l] = NoClient] /\ client[l].pair # 0
        /\ left' = left \/ left' = left \union {l}
        /\ UNCHANGED <<banned, login, receipts, pairs, requests, answers>>
    BY <1>1 DEF Logout
  <2>2. /\ session' \in [Logins -> SessionRecords]
        /\ \A m \in Logins :
              /\ session'[m].pair = session[m].pair
              /\ session'[m].state = "open" =>
                   m \notin FoundByCredential(client[l].pair) /\ session[m].state = "open"
    BY <2>1, RevokeEffect DEF SessionsInv
  <2>3. NoClient \in ClientRecords
    BY DEF NoClient, ClientRecords, Pairs
  <2>4. client' \in [Logins -> ClientRecords] /\ client'[l] = NoClient
        /\ \A m \in Logins : m # l => client'[m] = client[m]
    BY <2>1, <2>3 DEF SessionsInv, SessionsTypeOK, ClientRecords
  <2>5. SessionsTypeOK'
    BY <2>1, <2>2, <2>4 DEF SessionsInv, SessionsTypeOK, SessionRecords, ClientRecords
  <2>6. PairInv'
    BY <2>1, <2>2, <2>4, PairsStay
  <2>7. login[l] = "used"
    BY <2>1 DEF SessionsInv, EndsAreFinal, NoClient
  <2>8. l \in left' => session'[l].state # "open"
    BY <1>1, <2>1, <2>2, LogoutFinds DEF SessionsInv, EndsAreFinal
  <2>9. EndsAreFinal'
    BY <2>1, <2>2, <2>4, <2>7, <2>8 DEF SessionsInv, EndsAreFinal, SessionsTypeOK
  <2> QED
    BY <2>5, <2>6, <2>9 DEF SessionsInv
<1>2. ASSUME NEW ls, Revoke(ls), UNCHANGED <<login, receipts, pairs, client, requests, answers, left>>,
             UNCHANGED banned \/ (banned' = TRUE /\ ls = Logins)
      PROVE  SessionsInv'
  <2>1. /\ session' \in [Logins -> SessionRecords]
        /\ \A m \in Logins :
              /\ session'[m].pair = session[m].pair
              /\ session'[m].state = "open" => m \notin ls /\ session[m].state = "open"
    BY <1>2, RevokeEffect DEF SessionsInv
  <2>2. SessionsTypeOK'
    <3>1. banned' \in BOOLEAN
      BY <1>2 DEF SessionsInv, SessionsTypeOK
    <3> QED
      BY <1>2, <2>1, <3>1 DEF SessionsInv, SessionsTypeOK, SessionRecords
  <2>3. PairInv'
    BY <1>2, <2>1, PairsStay
  <2>4. EndsAreFinal'
    BY <1>2, <2>1 DEF SessionsInv, EndsAreFinal, SessionsTypeOK
  <2> QED
    BY <2>2, <2>3, <2>4 DEF SessionsInv
<1>3. ASSUME NEW ls, AdminRevoke(ls) PROVE SessionsInv'
  BY <1>2, <1>3 DEF AdminRevoke
<1>4. CASE Ban
  BY <1>2, <1>4 DEF Ban, EndedByBan
<1>5. CASE Unban
  <2>1. SessionsTypeOK' /\ EndsAreFinal'
    BY <1>5 DEF Unban, SessionsInv, SessionsTypeOK, EndsAreFinal
  <2>2. PairInv'
    BY <1>5, PairsStay DEF Unban
  <2> QED
    BY <2>1, <2>2 DEF SessionsInv
<1> QED
  BY <1>1, <1>3, <1>4, <1>5

\* Tokens and receipts go out of date.
LEMMA ExpiryKeeps ==
  ASSUME SessionsInv,
         (\E l \in Logins : TokenExpires(l)) \/ (\E r \in receipts : ReceiptExpires(r))
  PROVE  SessionsInv'
<1>1. ASSUME NEW l \in Logins, TokenExpires(l) PROVE SessionsInv'
  <2>1. /\ session' \in [Logins -> SessionRecords]
        /\ \A m \in Logins : session'[m].pair = session[m].pair /\ session'[m].state = session[m].state
    <3>1. session \in [Logins -> SessionRecords]
      BY DEF SessionsInv, SessionsTypeOK, SessionRecords
    <3>2. CASE session' = [session EXCEPT ![l].access = FALSE]
      BY <3>1, <3>2 DEF SessionRecords
    <3>3. CASE session' = [session EXCEPT ![l].access = FALSE, ![l].refresh = FALSE]
      BY <3>1, <3>3 DEF SessionRecords
    <3> QED
      BY <1>1, <3>2, <3>3 DEF TokenExpires
  <2>2. UNCHANGED <<banned, login, receipts, pairs, client, requests, answers, left>>
    BY <1>1 DEF TokenExpires
  <2>3. SessionsTypeOK' /\ EndsAreFinal'
    BY <2>1, <2>2 DEF SessionsInv, SessionsTypeOK, SessionRecords, EndsAreFinal
  <2>4. PairInv'
    BY <2>1, <2>2, PairsStay
  <2> QED
    BY <2>3, <2>4 DEF SessionsInv
<1>2. ASSUME NEW r \in receipts, ReceiptExpires(r) PROVE SessionsInv'
  <2> DEFINE old == [r EXCEPT !.live = FALSE]
  <2>1. r \in Receipts /\ receipts \subseteq Receipts
    BY DEF SessionsInv, SessionsTypeOK, Receipts
  <2>2. old \in Receipts /\ SameRotation(r, old) /\ SameRotation(old, r)
    BY <2>1 DEF Receipts, SameRotation
  <2>3. /\ receipts' = (receipts \ {r}) \union {old}
        /\ UNCHANGED <<banned, login, session, pairs, client, requests, answers, left>>
    BY <1>2 DEF ReceiptExpires
  <2> HIDE DEF old
  <2>4. \A s \in receipts : SameRotation(s, s)
    BY DEF SameRotation
  <2>5. /\ \A s \in receipts : \E n \in receipts' : SameRotation(s, n)
        /\ \A n \in receipts' : \E s \in receipts : SameRotation(s, n)
    BY <2>2, <2>3, <2>4
  <2>6. PairInv'
    <3>1. PairInv /\ pairs \in Nat
      BY DEF SessionsInv, SessionsTypeOK, Pairs
    <3>2. UNCHANGED <<pairs, requests, answers, session, client>>
      BY <2>3
    <3> QED
      BY <2>5, <3>1, <3>2, NoPairKeeps
  <2>7. SessionsTypeOK' /\ EndsAreFinal'
    BY <2>1, <2>2, <2>3 DEF SessionsInv, SessionsTypeOK, Receipts, EndsAreFinal
  <2> QED
    BY <2>6, <2>7 DEF SessionsInv
<1> QED
  BY <1>1, <1>2

\* The exchange of a ticket, the rotation and its repetition, and what the client does.
LEMMA PairKeeps ==
  ASSUME SessionsInv, NEW l \in Logins,
         \/ ExchangeTicket(l)
         \/ \E id \in RotationIds \union {NoId} : AskRotation(l, id)
         \/ \E q \in requests : Rotate(l, q) \/ \E r \in receipts : Replay(l, q, r)
         \/ \E a \in answers : Adopt(l, a)
  PROVE  SessionsInv'
<1> USE SessionsAssumption
<1>0. /\ session \in [Logins -> SessionRecords] /\ client \in [Logins -> ClientRecords]
      /\ pairs \in 0..MaxPairs /\ receipts \subseteq Receipts /\ SessionsTypeOK
      /\ EndsAreFinal /\ PairInv
  BY DEF SessionsInv, SessionsTypeOK, SessionRecords, ClientRecords, Receipts, Pairs
<1>1. CASE ExchangeTicket(l)
  <2>1. pairs + 1 \in Pairs /\ pairs' = pairs + 1
        /\ UNCHANGED <<banned, receipts, requests, answers, left>>
        /\ login[l] = "ticket" /\ ~banned /\ login' = [login EXCEPT ![l] = "used"]
    BY <1>0, <1>1 DEF ExchangeTicket, TicketValid, Pairs
  <2>2. session' \in [Logins -> SessionRecords]
        /\ \A m \in Logins : m # l => session'[m] = session[m]
    BY <1>0, <1>1, <2>1 DEF ExchangeTicket, SessionRecords
  <2>3. client' \in [Logins -> ClientRecords]
        /\ \A m \in Logins : m # l => client'[m] = client[m]
    BY <1>0, <1>1, <2>1 DEF ExchangeTicket, ClientRecords
  <2>4. SessionsTypeOK'
    BY <1>0, <2>1, <2>2, <2>3 DEF SessionsTypeOK, SessionRecords, ClientRecords
  <2>5. EndsAreFinal'
    BY <1>0, <2>1, <2>2, <2>3 DEF SessionsTypeOK, EndsAreFinal
  <2> QED
    BY <1>0, <1>1, <2>4, <2>5, ExchangeKeeps DEF SessionsInv
<1>2. ASSUME NEW id \in RotationIds \union {NoId}, AskRotation(l, id) PROVE SessionsInv'
  <2> DEFINE keeps == client[l].kept /\
         (client[l].id = id \/ [pair |-> client[l].pair, id |-> client[l].id] \notin requests)
  <2>1. client' = [client EXCEPT ![l].id = id, ![l].kept = keeps] /\ client[l].pair # 0
        /\ requests' = requests \union {[pair |-> client[l].pair, id |-> id]}
        /\ UNCHANGED <<banned, login, session, receipts, pairs, answers, left>>
    BY <1>2 DEF AskRotation
  <2>2. keeps \in BOOLEAN
    OBVIOUS
  <2> HIDE DEF keeps
  <2>3. client' \in [Logins -> ClientRecords]
        /\ \A m \in Logins : m # l => client'[m] = client[m]
    BY <1>0, <2>1, <2>2 DEF ClientRecords
  <2>4. [pair |-> client[l].pair, id |-> id] \in [pair : Pairs, id : RotationIds \union {NoId}]
    BY <1>0 DEF ClientRecords
  <2>5. SessionsTypeOK'
    BY <1>0, <2>1, <2>3, <2>4 DEF SessionsTypeOK, ClientRecords
  <2>6. login[l] = "used"
    BY <1>0, <2>1 DEF EndsAreFinal, NoClient
  <2>7. EndsAreFinal'
    BY <1>0, <2>1, <2>3, <2>6 DEF EndsAreFinal
  <2> QED
    BY <1>0, <1>2, <2>5, <2>7, AskKeeps DEF SessionsInv
<1>3. ASSUME NEW q \in requests, Rotate(l, q) PROVE SessionsInv'
  <2> DEFINE made == {[from |-> q.pair, id |-> id, session |-> l, to |-> pairs + 1, live |-> TRUE] :
                        id \in {q.id} \ {NoId}}
  <2>1. pairs + 1 \in Pairs /\ pairs' = pairs + 1 /\ q.pair \in Pairs /\ q.id \in RotationIds \union {NoId}
        /\ UNCHANGED <<banned, login, client, requests, left>>
        /\ session[l].state = "open"
    BY <1>0, <1>3 DEF Rotate, Rotatable, SessionsTypeOK, Pairs
  <2>2. session' \in [Logins -> SessionRecords]
        /\ \A m \in Logins : session'[m].state = session[m].state
    BY <1>0, <1>3, <2>1 DEF Rotate, SessionRecords
  <2>3. receipts' = receipts \union made /\ made \subseteq Receipts
    <3>1. \A id \in {q.id} \ {NoId} :
            [from |-> q.pair, id |-> id, session |-> l, to |-> pairs + 1, live |-> TRUE] \in Receipts
      BY <2>1 DEF Receipts
    <3> QED
      BY <1>3, <3>1 DEF Rotate
  <2>4. answers' = answers \union {[presented |-> q.pair, pair |-> pairs + 1]}
    BY <1>3 DEF Rotate
  <2> HIDE DEF made
  <2>5. SessionsTypeOK'
    BY <1>0, <2>1, <2>2, <2>3, <2>4 DEF SessionsTypeOK, SessionRecords, Receipts
  <2>6. EndsAreFinal'
    BY <1>0, <2>1, <2>2 DEF EndsAreFinal, SessionsTypeOK
  <2> QED
    BY <1>0, <1>3, <2>5, <2>6, RotateKeeps DEF SessionsInv
<1>4. ASSUME NEW q \in requests, NEW r \in receipts, Replay(l, q, r) PROVE SessionsInv'
  <2>1. answers' = answers \union {[presented |-> r.from, pair |-> r.to]}
        /\ UNCHANGED <<banned, login, session, receipts, pairs, client, requests, left>>
    BY <1>4 DEF Replay, Replayed, Replayable
  <2>2. PICK a \in answers : a.presented = r.from /\ a.pair = r.to
    BY <1>0 DEF PairInv, OneSuccessor
  <2>3. a = [presented |-> a.presented, pair |-> a.pair]
    BY <1>0 DEF SessionsTypeOK
  <2>4. answers' = answers
    BY <2>1, <2>2, <2>3
  <2>5. PairInv'
    BY <2>1, <2>4, PairsStay
  <2>6. SessionsTypeOK' /\ EndsAreFinal'
    BY <1>0, <2>1, <2>4 DEF SessionsTypeOK, EndsAreFinal
  <2> QED
    BY <2>5, <2>6 DEF SessionsInv
<1>5. ASSUME NEW a \in answers, Adopt(l, a) PROVE SessionsInv'
  <2>1. a.pair \in Pairs /\ client[l].pair # 0
        /\ UNCHANGED <<banned, login, session, receipts, pairs, requests, answers, left>>
    BY <1>0, <1>5 DEF Adopt, SessionsTypeOK, PairInv, PairsWereMade
  <2>2. client' \in [Logins -> ClientRecords]
        /\ \A m \in Logins : m # l => client'[m] = client[m]
    BY <1>0, <1>5, <2>1 DEF Adopt, NoClient, ClientRecords
  <2>3. SessionsTypeOK'
    BY <1>0, <2>1, <2>2 DEF SessionsTypeOK, ClientRecords
  <2>4. login[l] = "used"
    BY <1>0, <2>1 DEF EndsAreFinal, NoClient
  <2>5. EndsAreFinal'
    BY <1>0, <2>1, <2>2, <2>4 DEF EndsAreFinal
  <2> QED
    BY <1>0, <1>5, <2>3, <2>5, AdoptKeeps DEF SessionsInv
<1> QED
  BY <1>1, <1>2, <1>3, <1>4, <1>5

\* The inductive invariant of the sessions of an account.
THEOREM SessionsInvariance == SessionsSpec => []SessionsInv
<1>1. SessionsInit => SessionsInv
  <2> SUFFICES ASSUME SessionsInit PROVE SessionsInv
    OBVIOUS
  <2>1. NoSession \in SessionRecords /\ NoClient \in ClientRecords /\ 0 \in Pairs
    BY SessionsAssumption DEF NoSession, NoClient, SessionRecords, ClientRecords, Pairs
  <2>2. banned \in BOOLEAN
    BY DEF SessionsInit
  <2>3. SessionsTypeOK
    BY <2>1, <2>2 DEF SessionsInit, SessionsTypeOK, SessionRecords, ClientRecords
  <2>4. PairInv /\ EndsAreFinal
    BY DEF SessionsInit, PairInv, PairsWereMade, OneSuccessor, AnswersWereAsked, ClientFollows,
           EndsAreFinal, Its, NoSession, NoClient
  <2> QED
    BY <2>3, <2>4 DEF SessionsInv
<1>2. SessionsInv /\ [SessionsNext]_sessionsVars => SessionsInv'
  <2>1. ASSUME SessionsInv, SessionsNext PROVE SessionsInv'
    BY <2>1, LoginStepKeeps, PairKeeps, ExpiryKeeps, EndKeeps DEF SessionsNext
  <2>2. ASSUME SessionsInv, UNCHANGED sessionsVars PROVE SessionsInv'
    <3>1. PairInv'
      BY <2>2, PairsStay DEF sessionsVars
    <3> QED
      BY <2>2, <3>1 DEF sessionsVars, SessionsInv, SessionsTypeOK, EndsAreFinal
  <2> QED
    BY <2>1, <2>2
<1> QED
  BY <1>1, <1>2, PTL DEF SessionsSpec

\* A pair is exchanged for one other pair, and a client that keeps to the id of its
\* rotation finds its session again, for any number of logins, lost answers and
\* repeated requests.
THEOREM RotationHasOneAnswerAlways == SessionsSpec => []RotationHasOneAnswer
<1>1. SessionsInv => RotationHasOneAnswer
  BY DEF SessionsInv, PairInv, OneSuccessor, ClientFollows, RotationHasOneAnswer
<1> QED
  BY <1>1, SessionsInvariance, PTL

\* Nobody uses a session after a logout in time or under a ban, whatever was on its way.
THEOREM EndedIsEndedAlways == SessionsSpec => []EndedIsEnded
<1>1. SessionsInv => EndedIsEnded
  BY DEF SessionsInv, SessionsTypeOK, EndsAreFinal, EndedIsEnded, Admitted
<1> QED
  BY <1>1, SessionsInvariance, PTL

-----------------------------------------------------------------------------
(* ConsoleSessions *)

(* How old the credentials are that the browser holds: the current one is younger
   than the session, the one before was last given before the rotation, and those
   before that are out of date. *)
HandedInOrder ==
  /\ console.rotated <= clock
  /\ console.rotated = Never => console.generation = 0
  /\ \A g \in Generations : handed[g] # Never =>
       /\ console.exists
       /\ g <= console.generation /\ handed[g] <= clock
       /\ g = console.generation - 1 => handed[g] <= console.rotated
       /\ g < console.generation - 1 => handed[g] + Overlap <= clock

ConsoleInv == ConsoleTypeOK /\ HandedInOrder

\* A session that has ended leaves nothing behind that would be accepted.
LEMMA EndedKeeps ==
  ASSUME ConsoleInv, Ended, UNCHANGED clock
  PROVE  /\ HandedInOrder'
         /\ console' \in [exists : BOOLEAN, generation : Generations, rotated : {Never} \union 0..MaxTime]
         /\ handed' \in [Generations -> {Never} \union 0..MaxTime]
  BY ConsoleAssumption DEF ConsoleInv, ConsoleTypeOK, HandedInOrder, Ended, NoConsole, Never, Generations

\* The steps that touch neither the session nor what was handed out.
LEMMA AsideKeeps ==
  ASSUME ConsoleInv, UNCHANGED <<clock, console, handed>>
  PROVE  HandedInOrder'
  BY DEF ConsoleInv, HandedInOrder

\* A request of a tab keeps the order of what was handed out, whatever the other
\* tabs have rotated between its steps.
LEMMA TabKeeps ==
  ASSUME ConsoleInv, NEW t \in Tabs,
         Request(t) \/ TouchSession(t) \/ RefreshSession(t) \/ RefreshRefused(t) \/ ConsoleLogout(t)
  PROVE  ConsoleInv'
<1> USE ConsoleAssumption DEF ConsoleInv
<1>0. NoRequest \in [pc : {"idle", "refresh", "touch", "logout"},
                     credential : Generations, generation : Generations]
  BY DEF NoRequest, Generations
<1>1. CASE Request(t)
  BY <1>1, AsideKeeps DEF ConsoleTypeOK, Request
<1>2. CASE TouchSession(t)
  <2>1. ConsoleTypeOK'
    BY <1>0, <1>2 DEF ConsoleTypeOK, TouchSession
  <2>2. HandedInOrder'
    BY <1>2 DEF ConsoleTypeOK, HandedInOrder, TouchSession, Generations, Never
  <2> QED
    BY <2>1, <2>2
<1>3. CASE RefreshSession(t)
  <2>1. tab' = [tab EXCEPT ![t] = NoRequest] /\ UNCHANGED <<clock, staff, callback>>
    BY <1>3 DEF RefreshSession
  <2>2. CASE UNCHANGED console /\ handed' = [handed EXCEPT ![console.generation] = clock]
    <3>1. HandedInOrder'
      BY <1>3, <2>1, <2>2 DEF ConsoleTypeOK, HandedInOrder, RefreshSession, Accepted, Generations, Never
    <3> QED
      BY <1>0, <2>1, <2>2, <3>1 DEF ConsoleTypeOK
  <2>3. CASE /\ ~Settled(t)
             /\ console.generation < MaxGeneration
             /\ console' = [console EXCEPT !.generation = @ + 1, !.rotated = clock]
             /\ handed' = [handed EXCEPT ![console.generation + 1] = clock]
    <3> DEFINE gen == console.generation
    <3>1. console.exists /\ gen \in Nat /\ gen + 1 \in Generations
          /\ console'.exists = TRUE /\ console'.generation = gen + 1 /\ console'.rotated = clock
      BY <1>3, <2>3 DEF RefreshSession, Accepted, ConsoleTypeOK, Generations
    <3>2. console.rotated # Never => console.rotated + Overlap <= clock
      BY <2>3 DEF Settled, PreviousLives, ConsoleTypeOK, Never
    <3>3. ConsoleTypeOK'
      BY <1>0, <2>1, <2>3, <3>1 DEF ConsoleTypeOK
    <3>4. ASSUME NEW g \in Generations, handed'[g] # Never
          PROVE  /\ g <= gen + 1 /\ handed'[g] <= clock
                 /\ g = gen => handed'[g] <= clock
                 /\ g < gen => handed'[g] + Overlap <= clock
      <4>1. CASE g = gen + 1
        BY <2>3, <3>1, <4>1 DEF ConsoleTypeOK
      <4>2. CASE g # gen + 1
        <5>1. handed'[g] = handed[g]
          BY <2>3, <4>2 DEF ConsoleTypeOK
        <5>2. handed[g] \in Int /\ g \in Int /\ console.rotated \in Int /\ clock \in Int
          BY <3>4, <5>1 DEF ConsoleTypeOK, Generations, Never
        <5>3. /\ g <= gen /\ handed[g] <= clock
              /\ g = gen - 1 => handed[g] <= console.rotated
              /\ g < gen - 1 => handed[g] + Overlap <= clock
              /\ console.rotated = Never => gen = 0
          BY <3>4, <5>1 DEF HandedInOrder
        <5>4. g >= 0
          BY DEF Generations
        <5> QED
          BY <3>1, <3>2, <5>1, <5>2, <5>3, <5>4
      <4> QED
        BY <4>1, <4>2
    <3>5. HandedInOrder'
      <4>1. clock \in 0..MaxTime /\ Generations \subseteq Int
        BY DEF ConsoleTypeOK, Generations
      <4>2. clock # Never
        BY <4>1 DEF Never
      <4>3. \A g \in Generations : (g = gen + 1 - 1 => g = gen) /\ (g < gen + 1 - 1 => g < gen)
        BY <3>1, <4>1
      <4>4. \A g \in Generations : handed'[g] # Never =>
              /\ console'.exists
              /\ g <= console'.generation /\ handed'[g] <= clock'
              /\ g = console'.generation - 1 => handed'[g] <= console'.rotated
              /\ g < console'.generation - 1 => handed'[g] + Overlap <= clock'
        BY <2>1, <3>1, <3>4, <4>3
      <4>5. console'.rotated <= clock' /\ (console'.rotated # Never)
        BY <2>1, <3>1, <4>1, <4>2
      <4> QED
        BY <4>4, <4>5 DEF HandedInOrder
    <3> QED
      BY <3>3, <3>5
  <2> QED
    BY <1>3, <2>2, <2>3 DEF RefreshSession
<1>4. CASE RefreshRefused(t)
  BY <1>0, <1>4, AsideKeeps DEF ConsoleTypeOK, RefreshRefused
<1>5. CASE ConsoleLogout(t)
  BY <1>0, <1>5, EndedKeeps DEF ConsoleTypeOK, ConsoleLogout
<1> QED
  BY <1>1, <1>2, <1>3, <1>4, <1>5

\* The login, the clock, the end of a session and the administration of staff.
LEMMA StaffKeeps ==
  ASSUME ConsoleInv,
         \/ Tick \/ Authorize \/ Identify \/ RefuseStaff \/ Enter \/ SessionExpires
         \/ \E role \in {"user", "reviewer"} : SetRole(role)
         \/ BanStaff \/ UnbanStaff
  PROVE  ConsoleInv'
<1> USE ConsoleAssumption DEF ConsoleInv
<1>1. CASE Tick
  BY <1>1 DEF Tick, ConsoleTypeOK, HandedInOrder, Generations, Never
<1>2. CASE Authorize \/ Identify \/ RefuseStaff
  BY <1>2, AsideKeeps DEF Authorize, Identify, RefuseStaff, CallbackStep, ConsoleTypeOK
<1>3. CASE Enter
  <2>1. ConsoleTypeOK'
    <3>1. console' \in [exists : BOOLEAN, generation : Generations, rotated : {Never} \union 0..MaxTime]
      <4>1. console' = [exists |-> TRUE, generation |-> 0, rotated |-> Never]
        BY <1>3 DEF Enter, NoConsole
      <4>2. 0 \in Generations
        BY DEF Generations
      <4> QED
        BY <4>1, <4>2
    <3>2. handed' \in [Generations -> {Never} \union 0..MaxTime]
      BY <1>3 DEF Enter, ConsoleTypeOK
    <3> QED
      BY <1>3, <3>1, <3>2 DEF Enter, ConsoleTypeOK
  <2>2. HandedInOrder'
    BY <1>3 DEF Enter, ConsoleTypeOK, HandedInOrder, NoConsole, Generations, Never
  <2> QED
    BY <2>1, <2>2
<1>4. CASE SessionExpires
  BY <1>4, EndedKeeps DEF SessionExpires, ConsoleTypeOK
<1>5. CASE \E role \in {"user", "reviewer"} : SetRole(role)
  BY <1>5, AsideKeeps DEF SetRole, ConsoleTypeOK
<1>6. CASE BanStaff
  BY <1>6, EndedKeeps DEF BanStaff, ConsoleTypeOK
<1>7. CASE UnbanStaff
  BY <1>7, AsideKeeps DEF UnbanStaff, ConsoleTypeOK
<1> QED
  BY <1>1, <1>2, <1>3, <1>4, <1>5, <1>6, <1>7

\* The inductive invariant of a console session.
THEOREM ConsoleInvariance == ConsoleSpec => []ConsoleInv
<1>1. ConsoleInit => ConsoleInv
  <2> SUFFICES ASSUME ConsoleInit PROVE ConsoleInv
    OBVIOUS
  <2> USE ConsoleAssumption DEF ConsoleInit
  <2>1. NoRequest \in [pc : {"idle", "refresh", "touch", "logout"},
                       credential : Generations, generation : Generations]
    BY DEF NoRequest, Generations
  <2>2. console \in [exists : BOOLEAN, generation : Generations, rotated : {Never} \union 0..MaxTime]
    BY DEF NoConsole, Generations
  <2>3. handed \in [Generations -> {Never} \union 0..MaxTime]
    OBVIOUS
  <2>4. staff \in [role : {"user", "reviewer", "admin"}, banned : BOOLEAN]
    OBVIOUS
  <2>5. HandedInOrder
    BY DEF HandedInOrder, NoConsole, Never
  <2> QED
    BY <2>1, <2>2, <2>3, <2>4, <2>5 DEF ConsoleInv, ConsoleTypeOK
<1>2. ConsoleInv /\ [ConsoleNext]_consoleVars => ConsoleInv'
  <2>1. ASSUME ConsoleInv, ConsoleNext PROVE ConsoleInv'
    <3>1. CASE \E t \in Tabs : Request(t) \/ TouchSession(t) \/ RefreshSession(t)
                                \/ RefreshRefused(t) \/ ConsoleLogout(t)
      BY <2>1, <3>1, TabKeeps
    <3> QED
      BY <2>1, <3>1, StaffKeeps DEF ConsoleNext
  <2>2. ASSUME ConsoleInv, UNCHANGED consoleVars PROVE ConsoleInv'
    BY <2>2 DEF consoleVars, ConsoleInv, ConsoleTypeOK, HandedInOrder
  <2> QED
    BY <2>1, <2>2
<1> QED
  BY <1>1, <1>2, PTL DEF ConsoleSpec

\* A cookie given less than Overlap ago is accepted, for any number of tabs that
\* refresh it.
THEOREM HandedOutIsAcceptedAlways == ConsoleSpec => []HandedOutIsAccepted
<1>1. ASSUME ConsoleInv, NEW g \in Generations, handed[g] # Never, handed[g] + Overlap > clock
      PROVE  Accepted(g)
  <2> DEFINE gen == console.generation
             rot == console.rotated
             h == handed[g]
  <2>1. h \in Nat /\ g \in Nat /\ gen \in Nat /\ clock \in Nat /\ Overlap \in Nat
        /\ (rot \in Nat \/ rot = Never)
    BY <1>1, ConsoleAssumption DEF ConsoleInv, ConsoleTypeOK, Generations, Never
  <2>2. /\ console.exists /\ g <= gen
        /\ g = gen - 1 => h <= rot
        /\ g < gen - 1 => h + Overlap <= clock
    BY <1>1 DEF ConsoleInv, HandedInOrder
  <2>3. g = gen \/ g = gen - 1
    BY <1>1, <2>1, <2>2
  <2>4. ASSUME g = gen - 1 PROVE rot # Never /\ rot + Overlap > clock
    <3>1. h <= rot
      BY <2>2, <2>4
    <3> QED
      BY <1>1, <2>1, <3>1 DEF Never
  <2> QED
    BY <2>2, <2>3, <2>4 DEF Accepted, PreviousLives
<1>2. ConsoleInv => HandedOutIsAccepted
  BY <1>1 DEF HandedOutIsAccepted
<1> QED
  BY <1>2, ConsoleInvariance, PTL

-----------------------------------------------------------------------------
(* Grants *)

(* The pair a caller that waits for the lock will use. *)
Latest == IF grant.pending # 0 THEN grant.pending ELSE grant.token

Acts(c) == caller[c].pc # "idle" /\ caller[c].connected

(* Whoever acts and still has its connection holds the lock. *)
LockIsHeld ==
  \A c \in Callers :
    /\ Acts(c) => holder = c
    /\ caller[c].pc = "idle" => caller[c].connected

(* Pairs are issued once: one of a login is not the grant's, nor in any hand. *)
PairsAreFresh ==
  /\ exchanged \subseteq 1..issued /\ accepted \subseteq 1..issued
  /\ grant.token \in 1..issued /\ grant.pending \in 0..issued
  /\ {grant.token, grant.pending} \intersect exchanged = {}
  /\ \A c \in Callers :
       caller[c].pc # "idle" => caller[c].token \in 1..issued /\ caller[c].token \notin exchanged

(* The next pair of a caller that is about to save it is not lost. *)
InHand(c) == Acts(c) /\ caller[c].pc = "save" /\ caller[c].token \in accepted

(* The chain of pairs goes on: BandBBS accepts the latest one or its successor
   is about to be saved, and whoever acts goes by the latest. *)
ChainGoesOn ==
  /\ ~grant.invalid
  /\ Latest \in accepted \/ \E c \in Callers : InHand(c)
  /\ \A c \in Callers : Acts(c) =>
       /\ caller[c].pc # "invalidate"
       /\ caller[c].pc = "save" => InHand(c)
       /\ caller[c].pc # "save" => caller[c].token = Latest /\ Latest \in accepted

GrantsInv == GrantsTypeOK /\ LockIsHeld /\ PairsAreFresh /\ (forfeited \/ ChainGoesOn)

(* The names of the actions, one case each. *)
LEMMA GrantsCases ==
  ASSUME GrantsNext
  PROVE  \/ ExchangeCode \/ UserWithdraws \/ Suspend
         \/ \E token \in exchanged : StoreLogin(token)
         \/ \E token \in exchanged : RevokePair(token)
         \/ \E c \in Callers : ReadGrant(c)
         \/ \E c \in Callers : Refresh(c)
         \/ \E c \in Callers : RefreshFails(c)
         \/ \E c \in Callers : SavePending(c) \/ SaveFails(c)
         \/ \E c \in Callers : Validate(c)
         \/ \E c \in Callers : StoreGrant(c) \/ Invalidate(c)
         \/ \E c \in Callers : GiveUp(c) \/ DropConnection(c)
  BY DEF GrantsNext

CallerRecords ==
  [pc : {"idle", "renew", "save", "validate", "store", "invalidate"},
   token : Tokens, connected : BOOLEAN, again : BOOLEAN]

(* What GoOn and Return do to the caller. *)
LEMMA GoOnEffect ==
  ASSUME GrantsTypeOK, NEW c \in Callers, NEW token \in Tokens,
         NEW pc \in {"renew", "save", "validate", "store", "invalidate"}, GoOn(c, pc, token)
  PROVE  /\ caller' \in [Callers -> CallerRecords]
         /\ caller'[c].pc = pc /\ caller'[c].token = token
         /\ caller'[c].connected = caller[c].connected
         /\ \A d \in Callers : d # c => caller'[d] = caller[d]
  BY DEF GrantsTypeOK, CallerRecords, GoOn

(* A call that returns leaves the lock to those who wait. *)
LEMMA ReturnEffect ==
  ASSUME GrantsTypeOK, LockIsHeld, NEW c \in Callers, Return(c)
  PROVE  /\ caller' \in [Callers -> CallerRecords]
         /\ caller'[c] = NoCall
         /\ \A d \in Callers : d # c => caller'[d] = caller[d]
         /\ holder' \in Callers \union {NoCaller}
         /\ LockIsHeld'
<1>1. caller \in [Callers -> CallerRecords]
  BY DEF GrantsTypeOK, CallerRecords
<1>2. NoCall \in CallerRecords
  BY GrantsAssumption DEF NoCall, CallerRecords, Tokens
<1>3. caller' = [caller EXCEPT ![c] = NoCall]
  BY DEF Return
<1>4. caller' \in [Callers -> CallerRecords] /\ caller'[c] = NoCall
      /\ \A d \in Callers : d # c => caller'[d] = caller[d]
  BY <1>1, <1>2, <1>3
<1>5. holder' = IF holder = c THEN NoCaller ELSE holder
  BY DEF Return
<1>6. holder' \in Callers \union {NoCaller}
  BY <1>5 DEF GrantsTypeOK
<1>7. LockIsHeld'
  BY <1>4, <1>5 DEF LockIsHeld, Acts, NoCall
<1> QED
  BY <1>4, <1>6, <1>7

(* Logins, withdrawals and bans *)
LEMMA OutsideKeeps ==
  ASSUME GrantsInv,
         \/ ExchangeCode \/ UserWithdraws \/ Suspend
         \/ \E token \in exchanged : StoreLogin(token)
         \/ \E token \in exchanged : RevokePair(token)
  PROVE  GrantsInv'
<1> USE GrantsAssumption
<1>1. caller \in [Callers -> CallerRecords] /\ issued \in 0..MaxTokens
  BY DEF GrantsInv, GrantsTypeOK, CallerRecords, Tokens
<1>2. CASE ExchangeCode
  <2>1. GrantsTypeOK' /\ LockIsHeld'
    BY <1>1, <1>2 DEF ExchangeCode, GrantsInv, GrantsTypeOK, Tokens, LockIsHeld, Acts
  <2>2. PairsAreFresh'
    BY <1>1, <1>2 DEF ExchangeCode, GrantsInv, PairsAreFresh
  <2>3. ASSUME ChainGoesOn PROVE ChainGoesOn'
    BY <1>2, <2>3 DEF ExchangeCode, ChainGoesOn, Latest, InHand, Acts
  <2> QED
    BY <1>2, <2>1, <2>2, <2>3 DEF GrantsInv, ExchangeCode
<1>3. CASE UserWithdraws
  BY <1>3 DEF UserWithdraws, GrantsInv, GrantsTypeOK, Tokens, LockIsHeld, Acts, PairsAreFresh
<1>4. CASE Suspend
  <2>1. GrantsTypeOK' /\ LockIsHeld' /\ PairsAreFresh'
    BY <1>4 DEF Suspend, GrantsInv, GrantsTypeOK, Tokens, LockIsHeld, Acts, PairsAreFresh
  <2>2. ASSUME ChainGoesOn PROVE ChainGoesOn'
    BY <1>4, <2>2 DEF Suspend, ChainGoesOn, Latest, InHand, Acts
  <2> QED
    BY <1>4, <2>1, <2>2 DEF GrantsInv, Suspend
<1>5. CASE \E token \in exchanged : StoreLogin(token)
  <2> PICK token \in exchanged : StoreLogin(token)
    BY <1>5
  <2>1. token \in 1..issued /\ token \in Tokens
    BY <1>1 DEF GrantsInv, PairsAreFresh, Tokens
  <2>2. grant' = [token |-> token, pending |-> 0, invalid |-> FALSE]
        /\ exchanged' = exchanged \ {token} /\ UNCHANGED <<issued, accepted, holder, caller>>
    BY DEF StoreLogin, UpsertOAuthGrant
  <2>3. GrantsTypeOK' /\ LockIsHeld'
    BY <2>1 DEF StoreLogin, UpsertOAuthGrant, GrantsInv, GrantsTypeOK, Tokens, LockIsHeld, Acts
  <2>4. PairsAreFresh'
    BY <1>1, <2>1, <2>2 DEF GrantsInv, PairsAreFresh
  <2>5. forfeited' \/ token \in accepted
    BY DEF StoreLogin
  <2>6. \A c \in Callers : ~Acts(c)'
    BY <2>2 DEF StoreLogin, GrantsInv, LockIsHeld, Acts
  <2>7. Latest' = token
    BY <2>2 DEF Latest
  <2>8. token \in accepted => ChainGoesOn'
    BY <2>2, <2>6, <2>7 DEF ChainGoesOn
  <2> QED
    BY <2>3, <2>4, <2>5, <2>8 DEF GrantsInv
<1>6. CASE \E token \in exchanged : RevokePair(token)
  <2> PICK token \in exchanged : RevokePair(token)
    BY <1>6
  <2>1. GrantsTypeOK' /\ LockIsHeld'
    BY DEF RevokePair, GrantsInv, GrantsTypeOK, Tokens, LockIsHeld, Acts
  <2>2. PairsAreFresh'
    BY DEF RevokePair, GrantsInv, PairsAreFresh
  <2>3. Latest # token /\ \A c \in Callers : Acts(c) => caller[c].token # token
    BY DEF GrantsInv, PairsAreFresh, Latest, Acts
  <2>4. ASSUME ChainGoesOn PROVE ChainGoesOn'
    BY <2>3, <2>4 DEF RevokePair, ChainGoesOn, Latest, InHand, Acts
  <2> QED
    BY <2>1, <2>2, <2>4 DEF GrantsInv, RevokePair
<1> QED
  BY <1>2, <1>3, <1>4, <1>5, <1>6

(* Where a caller goes on with what it holds, having its connection still. *)
LEMMA GoOnKeepsLock ==
  ASSUME GrantsInv, NEW c \in Callers, NEW token \in Tokens, caller[c].pc # "idle",
         NEW pc \in {"renew", "save", "validate", "store", "invalidate"}, GoOn(c, pc, token),
         UNCHANGED holder
  PROVE  LockIsHeld'
  BY GoOnEffect DEF GrantsInv, LockIsHeld, Acts

(* A call reads the grant that is kept, under the lock. *)
LEMMA ReadKeeps ==
  ASSUME GrantsInv, NEW c \in Callers, ReadGrant(c)
  PROVE  GrantsInv'
<1> USE GrantsAssumption
<1>1. PICK pc \in {"renew", "validate"} : GoOn(c, pc, Latest)
  BY DEF ReadGrant, Latest
<1>2. holder = NoCaller /\ holder' = c /\ caller[c].pc = "idle" /\ caller[c].connected
      /\ UNCHANGED <<grant, suspended, issued, accepted, exchanged, forfeited>>
  BY DEF ReadGrant, LockGranted, GrantsInv, LockIsHeld
<1>3. Latest \in 1..issued /\ Latest \in Tokens /\ Latest \notin exchanged
  BY DEF GrantsInv, PairsAreFresh, Latest, GrantsTypeOK, Tokens
<1>4. /\ caller' \in [Callers -> CallerRecords]
      /\ caller'[c].pc = pc /\ caller'[c].token = Latest /\ caller'[c].connected
      /\ \A d \in Callers : d # c => caller'[d] = caller[d]
  BY <1>1, <1>2, <1>3, GoOnEffect DEF GrantsInv
<1>5. GrantsTypeOK'
  BY <1>2, <1>4 DEF GrantsInv, GrantsTypeOK, CallerRecords, Tokens
<1>6. \A d \in Callers : ~Acts(d)
  BY <1>2 DEF GrantsInv, LockIsHeld, Acts
<1>7. LockIsHeld'
  BY <1>2, <1>4, <1>6 DEF GrantsInv, LockIsHeld, Acts
<1>8. PairsAreFresh'
  BY <1>2, <1>3, <1>4 DEF GrantsInv, PairsAreFresh
<1>9. ASSUME ChainGoesOn PROVE ChainGoesOn'
  <2>1. Latest \in accepted /\ Latest' = Latest
    BY <1>2, <1>6, <1>9 DEF ChainGoesOn, InHand, Latest
  <2> QED
    BY <1>2, <1>4, <1>6, <1>9, <2>1 DEF ChainGoesOn, Acts
<1> QED
  BY <1>2, <1>5, <1>7, <1>8, <1>9 DEF GrantsInv

(* BandBBS takes a pair only if it is the latest, and the next is in hand. *)
LEMMA RefreshKeeps ==
  ASSUME GrantsInv, NEW c \in Callers, Refresh(c)
  PROVE  GrantsInv'
<1> USE GrantsAssumption
<1>1. caller \in [Callers -> CallerRecords] /\ issued \in 0..MaxTokens
      /\ caller[c].pc = "renew" /\ caller[c].token \in Tokens
      /\ UNCHANGED <<grant, suspended, holder, exchanged>>
  BY DEF GrantsInv, GrantsTypeOK, CallerRecords, Tokens, Refresh
<1>2. CASE Renewed(c) /\ GoOn(c, "save", issued + 1) /\ forfeited' = (forfeited \/ ~caller[c].connected)
  <2>1. issued' = issued + 1 /\ issued' \in Tokens
        /\ accepted' = (accepted \ {caller[c].token}) \union {issued + 1}
    BY <1>1, <1>2 DEF Renewed, Tokens
  <2>2. /\ caller' \in [Callers -> CallerRecords]
        /\ caller'[c].pc = "save" /\ caller'[c].token = issued + 1
        /\ caller'[c].connected = caller[c].connected
        /\ \A d \in Callers : d # c => caller'[d] = caller[d]
    BY <1>2, <2>1, GoOnEffect DEF GrantsInv
  <2>3. GrantsTypeOK'
    BY <1>1, <1>2, <2>1, <2>2 DEF GrantsInv, GrantsTypeOK, CallerRecords, Tokens
  <2>4. LockIsHeld'
    BY <1>1, <1>2, <2>1, GoOnKeepsLock
  <2>5. PairsAreFresh'
    <3>1. 1..issued \subseteq 1..issued' /\ 0..issued \subseteq 0..issued'
          /\ issued + 1 \in 1..issued' /\ issued + 1 \notin 1..issued
      BY <1>1, <2>1
    <3>2. accepted' \subseteq 1..issued'
      BY <2>1, <3>1 DEF GrantsInv, PairsAreFresh
    <3> QED
      BY <1>1, <2>2, <3>1, <3>2 DEF GrantsInv, PairsAreFresh
  <2>6. ASSUME ChainGoesOn, caller[c].connected PROVE ChainGoesOn'
    <3>1. \A d \in Callers : d # c => ~Acts(d)'
      BY <1>1, <2>2, <2>6 DEF GrantsInv, LockIsHeld, Acts
    <3>2. InHand(c)'
      BY <2>1, <2>2, <2>6 DEF InHand, Acts
    <3> QED
      BY <1>1, <2>2, <2>6, <3>1, <3>2 DEF ChainGoesOn
  <2> QED
    BY <1>2, <2>3, <2>4, <2>5, <2>6 DEF GrantsInv
<1>3. CASE caller[c].token \notin accepted /\ GoOn(c, "invalidate", caller[c].token)
           /\ UNCHANGED <<issued, accepted, forfeited>>
  <2>1. /\ caller' \in [Callers -> CallerRecords]
        /\ caller'[c].pc = "invalidate" /\ caller'[c].token = caller[c].token
        /\ caller'[c].connected = caller[c].connected
        /\ \A d \in Callers : d # c => caller'[d] = caller[d]
    BY <1>1, <1>3, GoOnEffect DEF GrantsInv
  <2>2. GrantsTypeOK'
    BY <1>1, <1>3, <2>1 DEF GrantsInv, GrantsTypeOK, CallerRecords, Tokens
  <2>3. LockIsHeld'
    BY <1>1, <1>3, GoOnKeepsLock
  <2>4. PairsAreFresh'
    BY <1>1, <1>3, <2>1 DEF GrantsInv, PairsAreFresh
  <2>5. ASSUME ChainGoesOn PROVE ChainGoesOn'
    <3>1. ~caller[c].connected
      BY <1>1, <1>3, <2>5 DEF ChainGoesOn, Acts
    <3>2. \A d \in Callers : /\ Acts(d)' <=> Acts(d)
                             /\ Acts(d) => caller'[d] = caller[d]
      BY <2>1, <3>1 DEF Acts
    <3> QED
      BY <1>1, <1>3, <2>5, <3>2 DEF ChainGoesOn, Latest, InHand
  <2> QED
    BY <1>3, <2>2, <2>3, <2>4, <2>5 DEF GrantsInv
<1> QED
  BY <1>2, <1>3 DEF Refresh

(* A call may end anywhere but with a pair in hand that is not saved. *)
LEMMA ReturnKeeps ==
  ASSUME GrantsInv, NEW c \in Callers, Return(c), caller[c].pc # "save" \/ forfeited',
         UNCHANGED <<grant, suspended, issued, accepted, exchanged>>, forfeited => forfeited',
         forfeited' \in BOOLEAN
  PROVE  GrantsInv'
<1>1. /\ caller' \in [Callers -> CallerRecords]
      /\ caller'[c] = NoCall
      /\ \A d \in Callers : d # c => caller'[d] = caller[d]
      /\ holder' \in Callers \union {NoCaller}
      /\ LockIsHeld'
  BY ReturnEffect DEF GrantsInv
<1>2. GrantsTypeOK'
  BY <1>1 DEF GrantsInv, GrantsTypeOK, CallerRecords, Tokens
<1>3. PairsAreFresh'
  BY <1>1 DEF GrantsInv, PairsAreFresh, NoCall
<1>4. ASSUME ChainGoesOn, caller[c].pc # "save" PROVE ChainGoesOn'
  <2>1. \A d \in Callers : Acts(d)' => d # c /\ Acts(d) /\ caller'[d] = caller[d]
    BY <1>1 DEF Acts, NoCall
  <2>2. \A d \in Callers : InHand(d) => InHand(d)'
    BY <1>1, <1>4 DEF InHand, Acts
  <2> QED
    BY <1>4, <2>1, <2>2 DEF ChainGoesOn, Latest, InHand
<1> QED
  BY <1>1, <1>2, <1>3, <1>4 DEF GrantsInv

(* A refresh fails, before or after the forum renewed the tokens. *)
LEMMA RefreshFailsKeeps ==
  ASSUME GrantsInv, NEW c \in Callers, RefreshFails(c)
  PROVE  GrantsInv'
<1> USE GrantsAssumption
<1>1. CASE UNCHANGED <<issued, accepted, forfeited>>
  BY <1>1, ReturnKeeps DEF RefreshFails, GrantsInv, GrantsTypeOK
<1>2. CASE Renewed(c) /\ forfeited' = TRUE
  <2>1. issued \in 0..MaxTokens /\ issued' = issued + 1 /\ issued' \in Tokens
        /\ accepted' = (accepted \ {caller[c].token}) \union {issued + 1}
    BY <1>2 DEF Renewed, GrantsInv, GrantsTypeOK, Tokens
  <2>2. /\ caller' \in [Callers -> CallerRecords]
        /\ caller'[c] = NoCall
        /\ \A d \in Callers : d # c => caller'[d] = caller[d]
        /\ holder' \in Callers \union {NoCaller}
        /\ LockIsHeld'
    BY ReturnEffect DEF GrantsInv, RefreshFails
  <2>3. UNCHANGED <<grant, suspended, exchanged>>
    BY DEF RefreshFails
  <2>4. GrantsTypeOK'
    BY <1>2, <2>1, <2>2, <2>3 DEF GrantsInv, GrantsTypeOK, CallerRecords, Tokens
  <2>5. PairsAreFresh'
    <3>1. 1..issued \subseteq 1..issued' /\ 0..issued \subseteq 0..issued' /\ issued + 1 \in 1..issued'
      BY <2>1
    <3>2. accepted' \subseteq 1..issued'
      BY <2>1, <3>1 DEF GrantsInv, PairsAreFresh
    <3> QED
      BY <2>2, <2>3, <3>1, <3>2 DEF GrantsInv, PairsAreFresh, NoCall
  <2> QED
    BY <1>2, <2>2, <2>4, <2>5 DEF GrantsInv
<1> QED
  BY <1>1, <1>2 DEF RefreshFails

(* The new tokens are written down before they are used, or that fails. *)
LEMMA SaveKeeps ==
  ASSUME GrantsInv, NEW c \in Callers, SavePending(c) \/ SaveFails(c)
  PROVE  GrantsInv'
<1> USE GrantsAssumption
<1>1. CASE SaveFails(c)
  BY <1>1, ReturnKeeps DEF SaveFails
<1>2. CASE SavePending(c)
  <2>1. caller[c].pc = "save" /\ caller[c].connected /\ caller[c].token \in 1..issued
        /\ caller[c].token \in Tokens /\ caller[c].token \notin exchanged
        /\ grant' = [grant EXCEPT !.pending = caller[c].token]
        /\ UNCHANGED <<suspended, issued, accepted, holder, exchanged, forfeited>>
    BY <1>2 DEF SavePending, PendingSaved, GrantsInv, PairsAreFresh, GrantsTypeOK, CallerRecords
  <2>2. /\ caller' \in [Callers -> CallerRecords]
        /\ caller'[c].pc = "validate" /\ caller'[c].token = caller[c].token
        /\ caller'[c].connected = caller[c].connected
        /\ \A d \in Callers : d # c => caller'[d] = caller[d]
    BY <1>2, <2>1, GoOnEffect DEF GrantsInv, SavePending
  <2>3. GrantsTypeOK'
    BY <2>1, <2>2 DEF GrantsInv, GrantsTypeOK, CallerRecords, Tokens
  <2>4. LockIsHeld'
    BY <1>2, <2>1, GoOnKeepsLock DEF SavePending
  <2>5. PairsAreFresh'
    BY <2>1, <2>2 DEF GrantsInv, PairsAreFresh, GrantsTypeOK, Tokens
  <2>6. ASSUME ChainGoesOn PROVE ChainGoesOn'
    <3>1. \A d \in Callers : d # c => ~Acts(d)'
      BY <2>1, <2>2 DEF GrantsInv, LockIsHeld, Acts
    <3>2. grant'.pending = caller[c].token /\ grant'.invalid = grant.invalid /\ caller[c].token # 0
      BY <2>1 DEF GrantsInv, GrantsTypeOK
    <3>3. Latest' = caller[c].token /\ caller[c].token \in accepted
      BY <2>1, <2>6, <3>2 DEF Latest, ChainGoesOn, InHand, Acts
    <3> QED
      BY <2>1, <2>2, <2>6, <3>1, <3>2, <3>3 DEF ChainGoesOn
  <2> QED
    BY <2>1, <2>3, <2>4, <2>5, <2>6 DEF GrantsInv
<1> QED
  BY <1>1, <1>2

(* The forum is asked whether the access token is still good. *)
LEMMA ValidateKeeps ==
  ASSUME GrantsInv, NEW c \in Callers, Validate(c)
  PROVE  GrantsInv'
<1> USE GrantsAssumption
<1>1. caller \in [Callers -> CallerRecords] /\ caller[c].pc = "validate" /\ caller[c].token \in Tokens
      /\ UNCHANGED <<grant, suspended, issued, accepted, exchanged>>
  BY DEF GrantsInv, GrantsTypeOK, CallerRecords, Validate
<1>2. CASE Return(c) /\ UNCHANGED forfeited
  BY <1>1, <1>2, ReturnKeeps DEF GrantsInv, GrantsTypeOK
<1>3. ASSUME NEW pc \in {"renew", "store", "invalidate"}, UNCHANGED holder,
             caller' \in [Callers -> CallerRecords],
             caller'[c].pc = pc, caller'[c].token = caller[c].token,
             caller'[c].connected = caller[c].connected,
             \A d \in Callers : d # c => caller'[d] = caller[d],
             (UNCHANGED forfeited /\ pc # "invalidate") \/ forfeited' = TRUE
      PROVE  GrantsInv'
  <2>1. GrantsTypeOK'
    BY <1>1, <1>3 DEF GrantsInv, GrantsTypeOK, CallerRecords, Tokens
  <2>2. LockIsHeld' /\ PairsAreFresh'
    BY <1>1, <1>3 DEF GrantsInv, LockIsHeld, Acts, PairsAreFresh
  <2>3. ASSUME ChainGoesOn, pc # "invalidate" PROVE ChainGoesOn'
    BY <1>1, <1>3, <2>3 DEF ChainGoesOn, Latest, InHand, Acts
  <2> QED
    BY <1>3, <2>1, <2>2, <2>3 DEF GrantsInv
<1>4. CASE GoOn(c, "store", caller[c].token) /\ UNCHANGED <<holder, forfeited>>
  BY <1>1, <1>3, <1>4, GoOnEffect DEF GrantsInv
<1>5. CASE GoOn(c, "invalidate", caller[c].token) /\ forfeited' = TRUE /\ UNCHANGED holder
  BY <1>1, <1>3, <1>5, GoOnEffect DEF GrantsInv
<1>6. CASE caller' = [caller EXCEPT ![c] = [caller[c] EXCEPT !.pc = "renew", !.again = TRUE]]
           /\ UNCHANGED <<holder, forfeited>>
  BY <1>1, <1>3, <1>6 DEF CallerRecords
<1> QED
  BY <1>2, <1>4, <1>5, <1>6 DEF Validate

(* The outcome is written, and the call returns. *)
LEMMA StoreKeeps ==
  ASSUME GrantsInv, NEW c \in Callers, StoreGrant(c) \/ Invalidate(c)
  PROVE  GrantsInv'
<1> USE GrantsAssumption
<1>1. /\ caller' \in [Callers -> CallerRecords]
      /\ caller'[c] = NoCall
      /\ \A d \in Callers : d # c => caller'[d] = caller[d]
      /\ holder' \in Callers \union {NoCaller}
      /\ LockIsHeld'
  BY ReturnEffect DEF GrantsInv, StoreGrant, Invalidate
<1>2. caller[c].connected /\ caller[c].pc \in {"store", "invalidate"}
      /\ UNCHANGED <<suspended, issued, accepted, exchanged, forfeited>>
      /\ caller[c].token \in 1..issued /\ caller[c].token \in Tokens /\ caller[c].token \notin exchanged
  BY DEF StoreGrant, Invalidate, GrantsInv, PairsAreFresh, GrantsTypeOK
<1>3. grant' \in [token : Tokens, pending : Tokens, invalid : BOOLEAN]
      /\ grant'.pending = 0 /\ grant'.token \in {grant.token, caller[c].token}
      /\ issued \in Nat
  <2>1. grant \in [token : Tokens, pending : Tokens, invalid : BOOLEAN] /\ issued \in Nat /\ 0 \in Tokens
    BY DEF GrantsInv, GrantsTypeOK, Tokens
  <2>2. CASE StoreGrant(c)
    BY <1>2, <2>1, <2>2 DEF StoreGrant, UpsertOAuthGrant
  <2>3. CASE Invalidate(c)
    BY <1>2, <2>1, <2>3 DEF Invalidate
  <2> QED
    BY <2>2, <2>3
<1>4. GrantsTypeOK'
  BY <1>1, <1>2, <1>3 DEF GrantsInv, GrantsTypeOK, CallerRecords, Tokens
<1>5. PairsAreFresh'
  BY <1>1, <1>2, <1>3 DEF GrantsInv, PairsAreFresh, NoCall
<1>6. ASSUME ChainGoesOn PROVE ChainGoesOn'
  <2>1. StoreGrant(c) /\ caller[c].pc = "store" /\ caller[c].token = Latest /\ Latest \in accepted
    BY <1>2, <1>6 DEF ChainGoesOn, Acts, Invalidate, StoreGrant
  <2>2. grant' = [token |-> Latest, pending |-> 0, invalid |-> FALSE] /\ Latest' = Latest
    BY <2>1 DEF StoreGrant, UpsertOAuthGrant, Latest
  <2>3. \A d \in Callers : ~Acts(d)'
    BY <1>1, <1>2 DEF GrantsInv, LockIsHeld, Acts, NoCall
  <2> QED
    BY <1>2, <2>1, <2>2, <2>3 DEF ChainGoesOn
<1> QED
  BY <1>1, <1>2, <1>4, <1>5, <1>6 DEF GrantsInv

(* A call gives up, or its connection is lost and the lock with it. *)
LEMMA LossKeeps ==
  ASSUME GrantsInv, NEW c \in Callers, GiveUp(c) \/ DropConnection(c)
  PROVE  GrantsInv'
<1> USE GrantsAssumption
<1>1. CASE GiveUp(c)
  BY <1>1, ReturnKeeps DEF GiveUp, GrantsInv, GrantsTypeOK
<1>2. CASE DropConnection(c)
  <2>1. caller \in [Callers -> CallerRecords]
        /\ UNCHANGED <<grant, suspended, issued, accepted, exchanged>>
        /\ caller' = [caller EXCEPT ![c].connected = FALSE]
        /\ forfeited' = (forfeited \/ caller[c].pc = "save")
    BY <1>2 DEF DropConnection, GrantsInv, GrantsTypeOK, CallerRecords
  <2>2. /\ caller' \in [Callers -> CallerRecords]
        /\ caller'[c].pc = caller[c].pc /\ caller'[c].token = caller[c].token
        /\ ~caller'[c].connected
        /\ \A d \in Callers : d # c => caller'[d] = caller[d]
    BY <2>1 DEF CallerRecords
  <2>3. GrantsTypeOK'
    <3>1. forfeited' \in BOOLEAN
      BY <2>1
    <3>2. holder' \in Callers \union {NoCaller}
      BY <1>2 DEF DropConnection, GrantsInv, GrantsTypeOK
    <3> QED
      BY <2>1, <2>2, <3>1, <3>2 DEF GrantsInv, GrantsTypeOK, CallerRecords, Tokens
  <2>4. LockIsHeld' /\ PairsAreFresh'
    BY <1>2, <2>1, <2>2 DEF DropConnection, GrantsInv, LockIsHeld, Acts, PairsAreFresh
  <2>5. ASSUME ChainGoesOn, caller[c].pc # "save" PROVE ChainGoesOn'
    BY <2>1, <2>2, <2>5 DEF ChainGoesOn, Latest, InHand, Acts
  <2> QED
    BY <2>1, <2>3, <2>4, <2>5 DEF GrantsInv
<1> QED
  BY <1>1, <1>2

(* No call is under way at the start. *)
LEMMA GrantsInitInductive == GrantsInit => GrantsInv
<1> SUFFICES ASSUME GrantsInit PROVE GrantsInv
  OBVIOUS
<1> USE GrantsAssumption DEF GrantsInit, NoCall
<1>1. caller \in [Callers -> CallerRecords]
  BY DEF CallerRecords, Tokens
<1>2. grant \in [token : Tokens, pending : Tokens, invalid : BOOLEAN]
  BY DEF Tokens
<1>3. GrantsTypeOK
  BY <1>1, <1>2 DEF GrantsTypeOK, CallerRecords, Tokens
<1>4. LockIsHeld /\ PairsAreFresh /\ ChainGoesOn
  BY DEF LockIsHeld, PairsAreFresh, ChainGoesOn, Latest, Acts
<1> QED
  BY <1>3, <1>4 DEF GrantsInv

(* Each step of a call keeps the invariant. *)
LEMMA GrantsStepInductive == GrantsInv /\ [GrantsNext]_grantsVars => GrantsInv'
<1>1. ASSUME GrantsInv, GrantsNext
      PROVE  GrantsInv'
  BY <1>1, GrantsCases, OutsideKeeps, ReadKeeps, RefreshKeeps, RefreshFailsKeeps, SaveKeeps,
     ValidateKeeps, StoreKeeps, LossKeeps
<1>2. ASSUME GrantsInv, UNCHANGED grantsVars
      PROVE  GrantsInv'
  BY <1>2 DEF GrantsInv, GrantsTypeOK, LockIsHeld, Acts, PairsAreFresh, ChainGoesOn, Latest, InHand,
              grantsVars
<1> QED
  BY <1>1, <1>2

(* The inductive invariant: the lock of whoever acts, fresh pairs, and a chain of
   pairs that goes on as long as nothing was forfeited. *)
THEOREM GrantsInvariance == GrantsSpec => []GrantsInv
  BY GrantsInitInductive, GrantsStepInductive, PTL DEF GrantsSpec

(* Every reachable state of a grant and its callers is well typed. *)
THEOREM GrantsTypeCorrect == GrantsSpec => []GrantsTypeOK
<1>1. GrantsInv => GrantsTypeOK
  BY DEF GrantsInv
<1> QED
  BY <1>1, GrantsInvariance, PTL

(* A user is never asked to authorize again for nothing, for any number of calls
   that renew the grant, lose their answers or connections and die. *)
THEOREM ReauthorizationHasAReasonAlways == GrantsSpec => []ReauthorizationHasAReason
<1>1. GrantsInv => ReauthorizationHasAReason
  BY DEF GrantsInv, ChainGoesOn, ReauthorizationHasAReason
<1> QED
  BY <1>1, GrantsInvariance, PTL

-----------------------------------------------------------------------------
(* GitHubLink *)

\* The token of a flow that has ended: it cannot be received again.
Spent(f) == flow[f].state \in {"done", "gone"}

(* Flows under way were begun after the last disconnection. *)
FlowsAreCurrent == \A f \in Flows : flow[f].state \in {"open", "used"} => flow[f].era = era

(* Tokens that are stored or read from there are those of flows that have ended. *)
ReadTokensAreSpent ==
  /\ stored # NoFlow => Spent(stored)
  /\ \A c \in Checks : check[c].pc # "idle" =>
       /\ check[c].token \in Flows /\ Spent(check[c].token)
       /\ check[c].pc = "reject" => check[c].token \notin honoured

(* Under the lock the disconnection deletes the token it has revoked. *)
DeletesWhatItRevoked ==
  unlink.connected =>
    /\ unlink.pc = "revoke" => stored \in {unlink.token, NoFlow}
    /\ unlink.pc = "delete" => stored = NoFlow \/ stored \notin honoured

(* The bound of the model on disconnections holds until one is counted. *)
DisconnectCounted == unlink.pc # "idle" => era < MaxDisconnects

LinkInv == DisconnectCounted /\ LinkTypeOK /\ FlowsAreCurrent /\ ReadTokensAreSpent /\ DeletesWhatItRevoked

FlowRecords == [state : {"none", "open", "used", "done", "gone"}, era : 0..MaxDisconnects]

\* A step of one flow that ends in no stored token.
LEMMA FlowKeeps ==
  ASSUME LinkInv, NEW f \in Flows,
         Begin(f) \/ (\E state \in {"open", "used"} : ReceiveToken(f, state)) \/ FlowExpires(f)
           \/ CompleteFails(f) \/ Abandon(f) \/ Withdraw(f)
  PROVE  LinkInv'
<1> USE GitHubLinkAssumption DEF LinkInv, LinkTypeOK, DisconnectCounted
<1>1. flow' \in [Flows -> FlowRecords] /\ honoured' \subseteq Flows /\ tokenIn' \subseteq Flows
  BY DEF Begin, ReceiveToken, FlowExpires, CompleteFails, Abandon, Withdraw, FlowRecords
<1>2. LinkTypeOK'
  BY <1>1 DEF FlowRecords, Begin, ReceiveToken, FlowExpires, CompleteFails, Abandon, Withdraw
<1>3. \A g \in Flows : Spent(g) => Spent(g)'
  BY DEF Spent, Begin, ReceiveToken, FlowExpires, CompleteFails, Abandon, Withdraw
<1>4. \A g \in Flows : Spent(g) /\ g \notin honoured => g \notin honoured'
  BY DEF Spent, Begin, ReceiveToken, FlowExpires, CompleteFails, Abandon, Withdraw
<1>5. FlowsAreCurrent'
  BY DEF FlowsAreCurrent, Begin, ReceiveToken, FlowExpires, CompleteFails, Abandon, Withdraw
<1>6. UNCHANGED <<stored, unlink, check, era>>
  BY DEF Begin, ReceiveToken, FlowExpires, CompleteFails, Abandon, Withdraw
<1>7. ReadTokensAreSpent'
  BY <1>3, <1>4, <1>6 DEF ReadTokensAreSpent
<1>8. DeletesWhatItRevoked'
  BY <1>4, <1>6 DEF DeletesWhatItRevoked, ReadTokensAreSpent
<1> QED
  BY <1>2, <1>5, <1>6, <1>7, <1>8

\* CompleteGitHubWebFlow and CompleteGitHubDeviceFlow wait for the lock.
LEMMA CompleteKeeps ==
  ASSUME LinkInv, NEW f \in Flows, Complete(f)
  PROVE  LinkInv'
<1> USE GitHubLinkAssumption DEF LinkInv, LinkTypeOK, DisconnectCounted
<1>1. flow' \in [Flows -> FlowRecords] /\ LinkTypeOK'
  BY DEF Complete, FlowRecords
<1>2. \A g \in Flows : flow'[g] = IF g = f THEN [flow[f] EXCEPT !.state = "done"] ELSE flow[g]
  BY DEF Complete
<1>3. flow'[f].state = "done"
  BY <1>2
<1>4. \A g \in Flows : Spent(g) => Spent(g)'
  BY <1>2, <1>3 DEF Spent
<1>5. FlowsAreCurrent' /\ ReadTokensAreSpent'
  BY <1>2, <1>3, <1>4 DEF Complete, FlowsAreCurrent, ReadTokensAreSpent, Spent
<1>6. DeletesWhatItRevoked'
  BY DEF Complete, LinkFree, DeletesWhatItRevoked
<1>7. UNCHANGED <<unlink, era>>
  BY DEF Complete
<1> QED
  BY <1>1, <1>5, <1>6, <1>7

\* The steps of handleGitHubGrantDelete.
LEMMA UnlinkKeeps ==
  ASSUME LinkInv,
         BeginUnlink \/ RevokeStored \/ UnlinkFails \/ DropUnlinkConnection \/ DeleteGrant
  PROVE  LinkInv'
<1> USE GitHubLinkAssumption DEF LinkInv
<1>0. NoUnlink \in [pc : {"idle", "revoke", "delete"}, token : Flows \union {NoFlow},
                    connected : BOOLEAN]
  BY DEF NoUnlink
<1>1. CASE BeginUnlink
  <2>1. LinkTypeOK' /\ DisconnectCounted'
    BY <1>0, <1>1 DEF BeginUnlink, LinkTypeOK, DisconnectCounted
  <2>2. FlowsAreCurrent' /\ ReadTokensAreSpent' /\ DeletesWhatItRevoked'
    BY <1>1 DEF BeginUnlink, NoUnlink, FlowsAreCurrent, ReadTokensAreSpent, DeletesWhatItRevoked, Spent
  <2> QED
    BY <2>1, <2>2
<1>2. CASE RevokeStored
  <2>1. LinkTypeOK' /\ DisconnectCounted'
    BY <1>0, <1>2 DEF RevokeStored, LinkTypeOK, NoUnlink, DisconnectCounted
  <2>2. honoured' \subseteq honoured /\ unlink.token \notin honoured'
    BY <1>2 DEF RevokeStored
  <2>3. DeletesWhatItRevoked'
    BY <1>2, <2>2 DEF RevokeStored, NoUnlink, DeletesWhatItRevoked, LinkTypeOK
  <2>4. FlowsAreCurrent' /\ ReadTokensAreSpent'
    BY <1>2, <2>2 DEF RevokeStored, FlowsAreCurrent, ReadTokensAreSpent, Spent
  <2> QED
    BY <2>1, <2>3, <2>4
<1>3. CASE UnlinkFails \/ DropUnlinkConnection
  <2>1. LinkTypeOK' /\ DisconnectCounted'
    BY <1>0, <1>3 DEF UnlinkFails, DropUnlinkConnection, LinkTypeOK, NoUnlink, DisconnectCounted
  <2>2. FlowsAreCurrent' /\ ReadTokensAreSpent' /\ DeletesWhatItRevoked'
    BY <1>3 DEF UnlinkFails, DropUnlinkConnection, LinkTypeOK, NoUnlink, FlowsAreCurrent,
                ReadTokensAreSpent, DeletesWhatItRevoked, Spent
  <2> QED
    BY <2>1, <2>2
<1>4. CASE DeleteGrant
  <2>1. era \in Nat /\ era' = era + 1 /\ era < MaxDisconnects /\ era' \in 0..MaxDisconnects
    BY <1>4 DEF DeleteGrant, DisconnectCounted, LinkTypeOK
  <2>2. \A f \in Flows :
          /\ flow'[f].state = IF flow[f].state = "none" THEN "none" ELSE "gone"
          /\ flow'[f].era = flow[f].era
          /\ flow'[f] \in FlowRecords
    BY <1>4 DEF DeleteGrant, FlowsDeleted, FlowRecords, LinkTypeOK
  <2>3. flow' \in [Flows -> FlowRecords]
    BY <1>4, <2>2 DEF DeleteGrant, FlowsDeleted
  <2>4. LinkTypeOK' /\ DisconnectCounted'
    BY <1>0, <1>4, <2>1, <2>3 DEF DeleteGrant, LinkTypeOK, FlowRecords, NoUnlink, DisconnectCounted
  <2>5. FlowsAreCurrent' /\ ReadTokensAreSpent' /\ DeletesWhatItRevoked'
    BY <1>4, <2>2 DEF DeleteGrant, NoUnlink, FlowsAreCurrent, ReadTokensAreSpent, DeletesWhatItRevoked,
                      Spent
  <2> QED
    BY <2>4, <2>5
<1> QED
  BY <1>1, <1>2, <1>3, <1>4

\* Requests that use the stored token, and bans.
LEMMA CheckKeeps ==
  ASSUME LinkInv,
         (\E c \in Checks : ReadToken(c) \/ AskGitHubUser(c) \/ RejectToken(c)) \/ Bar
  PROVE  LinkInv'
<1> USE GitHubLinkAssumption DEF LinkInv
<1>0. NoCheck \in [pc : {"idle", "ask", "reject"}, token : Flows \union {NoFlow}]
  BY DEF NoCheck
<1>1. LinkTypeOK' /\ DisconnectCounted'
  <2> DEFINE Records == [pc : {"idle", "ask", "reject"}, token : Flows \union {NoFlow}]
  <2>1. check \in [Checks -> Records] /\ stored \in Flows \union {NoFlow}
    BY DEF LinkTypeOK
  <2>2. check' \in [Checks -> Records]
    BY <1>0, <2>1 DEF ReadToken, AskGitHubUser, RejectToken, Bar
  <2> QED
    BY <2>2 DEF ReadToken, AskGitHubUser, RejectToken, Bar, LinkTypeOK, DisconnectCounted
<1>2. UNCHANGED <<flow, honoured, unlink, era>> /\ stored' \in {stored, NoFlow}
  BY DEF ReadToken, AskGitHubUser, RejectToken, Bar
<1>3. FlowsAreCurrent' /\ DeletesWhatItRevoked'
  BY <1>2 DEF FlowsAreCurrent, DeletesWhatItRevoked
<1>4. ReadTokensAreSpent'
  <2>1. CASE Bar
    BY <1>2, <2>1 DEF Bar, ReadTokensAreSpent, Spent
  <2>2. ASSUME NEW c \in Checks, ReadToken(c) \/ AskGitHubUser(c) \/ RejectToken(c)
        PROVE  ReadTokensAreSpent'
    <3>1. \A d \in Checks : d # c => check'[d] = check[d]
      BY <2>2 DEF ReadToken, AskGitHubUser, RejectToken, LinkTypeOK
    <3>2. check'[c].pc # "idle" =>
            /\ check'[c].token \in Flows /\ Spent(check'[c].token)
            /\ check'[c].pc = "reject" => check'[c].token \notin honoured
      BY <2>2 DEF ReadToken, AskGitHubUser, RejectToken, LinkTypeOK, ReadTokensAreSpent, NoCheck
    <3> QED
      BY <1>2, <3>1, <3>2 DEF ReadTokensAreSpent, Spent
  <2> QED
    BY <2>1, <2>2
<1> QED
  BY <1>1, <1>3, <1>4

\* The inductive invariant of a GitHub authorization.
THEOREM LinkInvariance == LinkSpec => []LinkInv
<1>1. LinkInit => LinkInv
  <2> SUFFICES ASSUME LinkInit PROVE LinkInv
    OBVIOUS
  <2>1. LinkTypeOK
    <3>1. NoUnlink \in [pc : {"idle", "revoke", "delete"}, token : Flows \union {NoFlow},
                        connected : BOOLEAN]
      BY DEF NoUnlink
    <3>2. NoCheck \in [pc : {"idle", "ask", "reject"}, token : Flows \union {NoFlow}]
      BY DEF NoCheck
    <3>3. flow \in [Flows -> FlowRecords]
      BY GitHubLinkAssumption DEF LinkInit, FlowRecords
    <3>4. check \in [Checks -> [pc : {"idle", "ask", "reject"}, token : Flows \union {NoFlow}]]
      BY <3>2 DEF LinkInit
    <3>5. era \in 0..MaxDisconnects /\ tokenIn \subseteq Flows /\ honoured \subseteq Flows
          /\ stored \in Flows \union {NoFlow}
      BY GitHubLinkAssumption DEF LinkInit
    <3>6. barred \in BOOLEAN
      BY DEF LinkInit
    <3> QED
      BY <3>1, <3>3, <3>4, <3>5, <3>6 DEF LinkInit, LinkTypeOK, FlowRecords
  <2>2. DisconnectCounted /\ FlowsAreCurrent /\ ReadTokensAreSpent /\ DeletesWhatItRevoked
    BY DEF LinkInit, DisconnectCounted, FlowsAreCurrent, ReadTokensAreSpent, DeletesWhatItRevoked,
           NoUnlink, NoCheck
  <2> QED
    BY <2>1, <2>2 DEF LinkInv
<1>2. LinkInv /\ [LinkNext]_linkVars => LinkInv'
  <2>1. ASSUME LinkInv, LinkNext PROVE LinkInv'
    <3>1. CASE \E f \in Flows : \/ BeginWeb(f) \/ BeginDevice(f) \/ WebToken(f) \/ DeviceToken(f)
                                \/ FlowExpires(f) \/ CompleteFails(f) \/ Abandon(f) \/ Withdraw(f)
      BY <2>1, <3>1, FlowKeeps DEF BeginWeb, BeginDevice, WebToken, DeviceToken
    <3>2. CASE \E f \in Flows : Complete(f)
      BY <2>1, <3>2, CompleteKeeps
    <3> QED
      BY <2>1, <3>1, <3>2, UnlinkKeeps, CheckKeeps DEF LinkNext
  <2>2. ASSUME LinkInv, UNCHANGED linkVars PROVE LinkInv'
    BY <2>2 DEF linkVars, LinkInv, LinkTypeOK, DisconnectCounted, FlowsAreCurrent,
                ReadTokensAreSpent, DeletesWhatItRevoked, Spent
  <2> QED
    BY <2>1, <2>2
<1> QED
  BY <1>1, <1>2, PTL DEF LinkSpec

\* Every reachable state of a GitHub authorization is well typed.
THEOREM LinkTypeCorrect == LinkSpec => []LinkTypeOK
<1>1. LinkInv => LinkTypeOK
  BY DEF LinkInv
<1> QED
  BY <1>1, LinkInvariance, PTL

\* The stored token changes only as the user wants, for any number of flows,
\* requests and disconnections.
THEOREM LinkFollowsTheUserAlways == LinkSpec => LinkFollowsTheUser
<1> DEFINE Wanted == stored' # stored =>
                       IF stored' = NoFlow THEN stored \notin honoured
                       ELSE flow[stored'].era = era
<1>1. LinkInv /\ [LinkNext]_linkVars => [Wanted]_linkVars
  <2> SUFFICES ASSUME LinkInv, LinkNext, stored' # stored
               PROVE  IF stored' = NoFlow THEN stored \notin honoured
                      ELSE flow[stored'].era = era
    OBVIOUS
  <2>1. \/ \E f \in Flows : Complete(f)
        \/ DeleteGrant
        \/ \E c \in Checks : RejectToken(c)
    BY DEF LinkNext, BeginWeb, BeginDevice, Begin, WebToken, DeviceToken, ReceiveToken, FlowExpires,
           CompleteFails, Abandon, Withdraw, BeginUnlink, RevokeStored, UnlinkFails,
           DropUnlinkConnection, ReadToken, AskGitHubUser, Bar
  <2>2. CASE \E f \in Flows : Complete(f)
    BY <2>2, GitHubLinkAssumption DEF Complete, MayComplete, LinkInv, FlowsAreCurrent
  <2>3. CASE DeleteGrant
    BY <2>3 DEF DeleteGrant, LinkInv, DeletesWhatItRevoked
  <2>4. CASE \E c \in Checks : RejectToken(c)
    BY <2>4 DEF RejectToken, StillStored, LinkInv, ReadTokensAreSpent
  <2> QED
    BY <2>1, <2>2, <2>3, <2>4
<1> QED
  BY <1>1, LinkInvariance, PTL DEF LinkSpec, LinkFollowsTheUser
=============================================================================
