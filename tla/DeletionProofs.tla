---------------------------- MODULE DeletionProofs ----------------------------
(***************************************************************************)
(* Proofs about module Deletion, for every number of forum resources, pull *)
(* requests and workers.                                                   *)
(***************************************************************************)
EXTENDS Deletion, TLAPS

Closed == \A p \in Pulls : pull[p] # "open"

(* A worker at the platform of its step. *)
StepInHand ==
  \A w \in Workers :
    /\ worker[w].pc = "forum" => worker[w].step \in ForumIds
    /\ worker[w].pc \in {"pulls", "lookup", "opening", "status"} => worker[w].step = Item
    /\ worker[w].pc = "status" => worker[w].receipt # 0

(* Only a running step has a lease. *)
LeaseOfRunning == \A s \in Steps : row[s].state # "running" => row[s].lease = None

(* The item's requests are closed before the catalog is read, so before there is
   a removal request; closed ones stay closed. *)
ClosedFirst ==
  /\ removal # <<>> => Closed
  /\ \A w \in Workers : worker[w].pc \in {"lookup", "opening", "status"} => Closed

(* A removal that was accepted took the item out of the catalog, for good. *)
MergedIsGone == (\E r \in DOMAIN removal : removal[r] = "merged") => ~listed

Gone(s) == IF s = Item THEN ~listed /\ Closed ELSE s \notin forum

(* A worker that is about to report success reports the truth. *)
ReportIsTrue ==
  \A w \in Workers :
    worker[w].pc = "save" /\ worker[w].outcome = "completed" => Gone(worker[w].step)

RowIsTrue == \A s \in Steps : row[s].state = "completed" => Gone(s)

IInv ==
  /\ TypeOK /\ StepInHand /\ LeaseOfRunning
  /\ ClosedFirst /\ MergedIsGone /\ ReportIsTrue /\ RowIsTrue

(* The names of the actions, one case each. *)
LEMMA Cases ==
  ASSUME Next
  PROVE  \/ \E p \in Pulls : DecidePull(p)
         \/ \E r \in DOMAIN removal : DecideRemoval(r)
         \/ \E s \in Steps : LeaseExpires(s)
         \/ RetryDeletion
         \/ \E w \in Workers, s \in Steps : Claim(w, s)
         \/ \E w \in Workers, p \in Pulls : ClosePull(w, p)
         \/ \E w \in Workers : DeleteForum(w) \/ ReadCatalog(w) \/ FindRemoval(w)
         \/ \E w \in Workers : OpenRemoval(w) \/ AskStatus(w) \/ CallFails(w)
         \/ \E w \in Workers : Save(w) \/ Die(w)
  BY DEF Next

(* The platforms keep their types, and no removal request disappears. *)
LEMMA PlatformTypes ==
  ASSUME TypeOK, Next
  PROVE  PlatformsOK' /\ Len(removal) <= Len(removal)'
<1> USE DeletionAssumption DEF TypeOK, PlatformsOK, RequestStates, github
<1>1. CASE UNCHANGED <<forum, github>>
  BY <1>1
<1>2. CASE \E p \in Pulls : DecidePull(p)
  <2> PICK p \in Pulls : DecidePull(p)
    BY <1>2
  <2>1. pull' \in [Pulls -> RequestStates]
    BY DEF DecidePull
  <2>2. listed' \in BOOLEAN
    BY Zenon DEF DecidePull
  <2> QED
    BY <2>1, <2>2 DEF DecidePull
<1>3. CASE \E r \in DOMAIN removal : DecideRemoval(r)
  <2> PICK r \in DOMAIN removal : DecideRemoval(r)
    BY <1>3
  <2>1. removal' \in Seq(RequestStates) /\ Len(removal') = Len(removal)
    BY DEF DecideRemoval
  <2>2. listed' \in BOOLEAN
    BY Zenon DEF DecideRemoval
  <2> QED
    BY <2>1, <2>2 DEF DecideRemoval
<1>4. CASE \E w \in Workers, p \in Pulls : ClosePull(w, p)
  BY <1>4 DEF ClosePull
<1>5. CASE \E w \in Workers : DeleteForum(w)
  BY <1>5 DEF DeleteForum
<1>6. CASE \E w \in Workers : OpenRemoval(w)
  <2>1. removal' = Append(removal, "open") /\ Len(removal) < MaxRemovals
    BY <1>6 DEF OpenRemoval, CanOpen
  <2>2. removal' \in Seq(RequestStates) /\ Len(removal') = Len(removal) + 1
    BY <2>1
  <2>3. UNCHANGED <<forum, listed, pull>>
    BY <1>6 DEF OpenRemoval
  <2> QED
    BY <2>1, <2>2, <2>3
<1>7. CASE \E w \in Workers : CallFails(w)
  <2>1. \/ UNCHANGED <<forum, github>>
        \/ \E s : forum' = forum \ {s} /\ UNCHANGED github
        \/ /\ \E p \in Pulls : pull' = [pull EXCEPT ![p] = "closed"]
           /\ UNCHANGED <<forum, listed, removal>>
        \/ /\ removal' = Append(removal, "open") /\ Len(removal) < MaxRemovals
           /\ UNCHANGED <<forum, listed, pull>>
    BY <1>7 DEF CallFails, CanOpen, Closable
  <2>2. CASE removal' = Append(removal, "open") /\ Len(removal) < MaxRemovals
             /\ UNCHANGED <<forum, listed, pull>>
    <3>1. removal' \in Seq(RequestStates) /\ Len(removal') = Len(removal) + 1
      BY <2>2
    <3> QED
      BY <2>2, <3>1
  <2> QED
    BY <2>1, <2>2
<1> QED
  BY <1>1, <1>2, <1>3, <1>4, <1>5, <1>6, <1>7, Cases
     DEF LeaseExpires, RetryDeletion, Claim, ReadCatalog, FindRemoval, AskStatus, Save, Die

(* More removal requests make the types of rows and workers larger. *)
LEMMA TypesGrow ==
  ASSUME TypeOK, Next
  PROVE  StepRows \subseteq StepRows' /\ BusyWorkers \subseteq BusyWorkers'
<1>1. Len(removal) \in Nat /\ Len(removal)' \in Nat /\ Len(removal) <= Len(removal)'
  BY PlatformTypes DEF TypeOK, PlatformsOK
<1>2. 0..Len(removal) \subseteq 0..Len(removal)'
  BY <1>1
<1> QED
  BY <1>2 DEF StepRows, BusyWorkers

(* The rows keep their types. *)
LEMMA RowTypes ==
  ASSUME TypeOK, Next
  PROVE  row' \in [Steps -> StepRows']
<1> USE DeletionAssumption
<1>1. row \in [Steps -> StepRows]
  BY DEF TypeOK
<1>2. SUFFICES row' \in [Steps -> StepRows]
  BY TypesGrow
<1>3. CASE \E s \in Steps : LeaseExpires(s)
  <2> PICK s \in Steps : row' = [row EXCEPT ![s] = [row[s] EXCEPT !.live = FALSE]]
    BY <1>3 DEF LeaseExpires
  <2> QED
    BY <1>1 DEF StepRows
<1>4. CASE RetryDeletion
  <2>1. ASSUME NEW s \in Steps
        PROVE  [row[s] EXCEPT !.state = "pending", !.attempts = 0] \in StepRows
    <3>1. row[s] \in StepRows
      BY <1>1
    <3>2. 0 \in 0..MaxAttempts /\ "pending" \in StepStates
      BY DEF StepStates
    <3> QED
      BY <3>1, <3>2 DEF StepRows
  <2> QED
    BY <1>1, <1>4, <2>1 DEF RetryDeletion
<1>5. CASE \E w \in Workers, s \in Steps : Claim(w, s)
  <2> PICK w \in Workers, s \in Steps : Claim(w, s)
    BY <1>5
  <2> DEFINE attempt == IF row[s].attempts < MaxAttempts THEN row[s].attempts + 1
                        ELSE MaxAttempts
             new == [row[s] EXCEPT !.state = "running", !.lease = w, !.live = TRUE,
                                   !.attempts = attempt]
  <2>1. attempt \in 0..MaxAttempts
    BY <1>1 DEF StepRows
  <2>2. row' = [row EXCEPT ![s] = new]
    BY <1>1 DEF Claim
  <2>3. new \in StepRows
    <3> HIDE DEF attempt
    <3> QED
      BY <1>1, <2>1 DEF StepRows, StepStates
  <2> HIDE DEF new
  <2> QED
    BY <1>1, <2>2, <2>3
<1>6. CASE \E w \in Workers : Save(w)
  <2> PICK w \in Workers : Save(w)
    BY <1>6
  <2> DEFINE s == worker[w].step
             new == [row[s] EXCEPT !.state = Decided(w), !.receipt = ReceiptToSave(w),
                                   !.lease = None, !.live = FALSE]
  <2>1. worker[w] \in BusyWorkers
    BY DEF Save, TypeOK, Idle
  <2>2. s \in Steps /\ Decided(w) \in StepStates /\ ReceiptToSave(w) \in 0..Len(removal)
    BY <2>1 DEF BusyWorkers, Outcomes, StepStates, Decided, ReceiptToSave, TypeOK, PlatformsOK
  <2>3. row' = [row EXCEPT ![s] = new] \/ row' = row
    BY <1>1 DEF Save
  <2>4. new \in StepRows
    BY <1>1, <2>2 DEF StepRows
  <2> HIDE DEF new, s
  <2> QED
    BY <1>1, <2>2, <2>3, <2>4
<1>7. CASE UNCHANGED row
  BY <1>1, <1>7
<1> QED
  BY <1>3, <1>4, <1>5, <1>6, <1>7, Cases
     DEF DecidePull, DecideRemoval, ClosePull, DeleteForum, ReadCatalog, FindRemoval,
         OpenRemoval, AskStatus, CallFails, Die

(* The workers keep their types, and the step each of them claimed. *)
LEMMA WorkerTypes ==
  ASSUME TypeOK, StepInHand, Next
  PROVE  worker' \in [Workers -> BusyWorkers' \union {Idle}] /\ StepInHand'
<1> USE DeletionAssumption
<1>1. worker \in [Workers -> BusyWorkers \union {Idle}]
  BY DEF TypeOK
<1>2. Len(removal) \in Nat
  BY DEF TypeOK, PlatformsOK
<1> DEFINE Fits(x) == /\ x \in BusyWorkers' \union {Idle}
                      /\ x.pc = "forum" => x.step \in ForumIds
                      /\ x.pc \in {"pulls", "lookup", "opening", "status"} => x.step = Item
                      /\ x.pc = "status" => x.receipt # 0
<1>3. Fits(Idle)
  BY DEF Idle
<1>4. \A w \in Workers : Fits(worker[w])
  BY <1>1, TypesGrow DEF StepInHand
<1>5. SUFFICES \/ worker' = worker
              \/ \E w \in Workers : \E new : worker' = [worker EXCEPT ![w] = new] /\ Fits(new)
  BY <1>1, <1>4 DEF StepInHand
<1>6. ASSUME NEW w \in Workers, worker[w].pc # "idle"
      PROVE  worker[w] \in BusyWorkers'
  BY <1>1, <1>6, TypesGrow DEF Idle
<1>7. CASE \E w \in Workers, s \in Steps : Claim(w, s)
  <2> PICK w \in Workers, s \in Steps : Claim(w, s)
    BY <1>7
  <2> DEFINE attempt == IF row[s].attempts < MaxAttempts THEN row[s].attempts + 1
                        ELSE MaxAttempts
             at == IF s \in ForumIds THEN "forum"
                   ELSE IF row[s].receipt = 0 THEN "pulls" ELSE "status"
             new == [pc |-> at, step |-> s, attempt |-> attempt, receipt |-> row[s].receipt,
                     outcome |-> "completed"]
  <2>1. row[s] \in StepRows
    BY DEF TypeOK
  <2>2. attempt \in 1..MaxAttempts /\ row[s].receipt \in 0..Len(removal)
    BY <2>1 DEF StepRows
  <2>3. new \in BusyWorkers
    <3> HIDE DEF attempt
    <3> QED
      BY <2>2 DEF BusyWorkers, Outcomes, StepStates
  <2>4. Fits(new)
    BY <2>3, TypesGrow DEF Steps
  <2>5. worker' = [worker EXCEPT ![w] = new]
    BY DEF Claim
  <2> HIDE DEF new, Fits
  <2> QED
    BY <2>4, <2>5
<1>8. CASE \E w \in Workers : DeleteForum(w) \/ ReadCatalog(w) \/ AskStatus(w) \/ CallFails(w)
  <2> PICK w \in Workers : DeleteForum(w) \/ ReadCatalog(w) \/ AskStatus(w) \/ CallFails(w)
    BY <1>8
  <2>1. worker[w].pc # "idle"
    BY DEF DeleteForum, ReadCatalog, AskStatus, CallFails
  <2>2. PICK at \in {"save", "lookup"}, o \in Outcomes :
          /\ Goto(w, at, o)
          /\ at = "lookup" => worker[w].pc = "pulls"
    BY DEF DeleteForum, ReadCatalog, AskStatus, CallFails, Outcomes, StepStates
  <2> DEFINE new == [worker[w] EXCEPT !.pc = at, !.outcome = o]
  <2>3. new \in BusyWorkers'
    BY <1>6, <2>1 DEF BusyWorkers
  <2>4. Fits(new)
    BY <1>6, <2>1, <2>2, <2>3 DEF StepInHand, BusyWorkers
  <2>5. worker' = [worker EXCEPT ![w] = new]
    BY <1>1, <2>2 DEF Goto
  <2> HIDE DEF new, Fits
  <2> QED
    BY <2>4, <2>5
<1>9. CASE \E w \in Workers : FindRemoval(w) \/ OpenRemoval(w)
  <2> PICK w \in Workers : FindRemoval(w) \/ OpenRemoval(w)
    BY <1>9
  <2>1. worker[w].pc \in {"lookup", "opening"}
    BY DEF FindRemoval, OpenRemoval
  <2>2. \/ worker' = [worker EXCEPT ![w] = [worker[w] EXCEPT !.pc = "opening"]]
        \/ \E r \in (1..Len(removal))' :
             worker' = [worker EXCEPT ![w] = [worker[w] EXCEPT !.pc = "status", !.receipt = r]]
    <3>1. CASE FindRemoval(w)
      <4>1. DOMAIN removal = (1..Len(removal))'
        BY <3>1 DEF FindRemoval, github, TypeOK, PlatformsOK
      <4>2. CASE OpenRemovals = {}
        BY <1>1, <3>1, <4>2 DEF FindRemoval
      <4>3. CASE OpenRemovals # {}
        <5> PICK r \in OpenRemovals :
                   worker' = [worker EXCEPT ![w].pc = "status", ![w].receipt = r]
          BY <3>1, <4>3 DEF FindRemoval
        <5>1. r \in (1..Len(removal))'
          BY <4>1 DEF OpenRemovals
        <5>2. worker' = [worker EXCEPT ![w] = [worker[w] EXCEPT !.pc = "status", !.receipt = r]]
          BY <1>1
        <5> QED
          BY <5>1, <5>2
      <4> QED
        BY <4>2, <4>3
    <3>2. CASE OpenRemoval(w)
      <4>1. removal' = Append(removal, "open")
        BY <3>2 DEF OpenRemoval
      <4>2. Len(removal') = Len(removal) + 1
        BY <4>1 DEF TypeOK, PlatformsOK
      <4> DEFINE r == Len(removal) + 1
      <4>3. r \in (1..Len(removal))'
        BY <1>2, <4>2
      <4>4. worker' = [worker EXCEPT ![w] = [worker[w] EXCEPT !.pc = "status", !.receipt = r]]
        BY <1>1, <3>2 DEF OpenRemoval
      <4> HIDE DEF r
      <4> QED
        BY <4>3, <4>4
    <3> QED
      BY <3>1, <3>2
  <2>3. worker[w] \in BusyWorkers' /\ worker[w].step = Item
    BY <1>6, <2>1 DEF StepInHand
  <2>4. Fits([worker[w] EXCEPT !.pc = "opening"])
    BY <2>3 DEF BusyWorkers
  <2>5. ASSUME NEW r \in (1..Len(removal))'
        PROVE  Fits([worker[w] EXCEPT !.pc = "status", !.receipt = r])
    <3> DEFINE new == [worker[w] EXCEPT !.pc = "status", !.receipt = r]
    <3>1. r \in (0..Len(removal))' /\ r # 0
      BY PlatformTypes DEF PlatformsOK
    <3>2. new \in BusyWorkers' /\ new.pc = "status" /\ new.receipt = r /\ new.step = Item
      BY <2>3, <3>1 DEF BusyWorkers
    <3> HIDE DEF new
    <3>3. Fits(new)
      BY <3>1, <3>2
    <3> QED
      BY <3>3 DEF new
  <2> HIDE DEF Fits
  <2> QED
    BY <2>2, <2>4, <2>5
<1>10. CASE \E w \in Workers : Save(w) \/ Die(w)
  BY <1>3, <1>10 DEF Save, Die
<1>11. CASE worker' = worker
  BY <1>11
<1> QED
  BY <1>7, <1>8, <1>9, <1>10, <1>11, Cases
     DEF DecidePull, DecideRemoval, LeaseExpires, RetryDeletion, ClosePull

(* Closed requests stay closed. *)
LEMMA ClosedKept ==
  ASSUME TypeOK, Next, Closed
  PROVE  Closed'
<1>1. Closable = {} /\ \A p \in Pulls : pull[p] # "open"
  BY DEF Closable, Closed
<1>2. UNCHANGED pull
  BY <1>1, Cases
     DEF DecidePull, DecideRemoval, LeaseExpires, RetryDeletion, Claim, ClosePull, DeleteForum,
         ReadCatalog, FindRemoval, OpenRemoval, AskStatus, CallFails, Save, Die, github
<1> QED
  BY <1>2 DEF Closed

(* What is gone stays gone. *)
LEMMA GoneKept ==
  ASSUME TypeOK, Next, NEW s \in Steps, Gone(s)
  PROVE  Gone(s)'
<1>1. forum' \subseteq forum
  BY Cases
     DEF DecidePull, DecideRemoval, LeaseExpires, RetryDeletion, Claim, ClosePull, DeleteForum,
         ReadCatalog, FindRemoval, OpenRemoval, AskStatus, CallFails, Save, Die, github
<1>2. ASSUME Closed, ~listed
      PROVE  ~listed'
  <2>1. CASE \E r \in DOMAIN removal : DecideRemoval(r)
    BY <1>2, <2>1, Zenon DEF DecideRemoval
  <2>2. CASE UNCHANGED listed
    BY <1>2, <2>2, Zenon
  <2>3. CASE \E p \in Pulls : DecidePull(p)
    BY <1>2, <2>3 DEF DecidePull, Closed
  <2> QED
    BY <2>1, <2>2, <2>3, Cases
       DEF LeaseExpires, RetryDeletion, Claim, ClosePull, DeleteForum,
           ReadCatalog, FindRemoval, OpenRemoval, AskStatus, CallFails, Save, Die, github
<1>3. CASE s = Item
  BY <1>2, <1>3, ClosedKept DEF Gone
<1>4. CASE s # Item
  BY <1>1, <1>4 DEF Gone
<1> QED
  BY <1>3, <1>4

(* A lease is given with the claim and taken with the outcome. *)
LEMMA LeaseKept ==
  ASSUME TypeOK, LeaseOfRunning, Next
  PROVE  LeaseOfRunning'
<1>1. row \in [Steps -> StepRows]
  BY DEF TypeOK
<1>2. SUFFICES ASSUME NEW s \in Steps, row'[s].state # "running"
               PROVE  row'[s].lease = None
  BY DEF LeaseOfRunning
<1>3. row[s] \in StepRows
  BY <1>1
<1>4. CASE \E t \in Steps : LeaseExpires(t)
  BY <1>1, <1>2, <1>3, <1>4 DEF LeaseExpires, LeaseOfRunning, StepRows
<1>5. CASE RetryDeletion
  BY <1>1, <1>2, <1>3, <1>5 DEF RetryDeletion, LeaseOfRunning, StepRows
<1>6. CASE \E w \in Workers, t \in Steps : Claim(w, t)
  BY <1>1, <1>2, <1>3, <1>6 DEF Claim, LeaseOfRunning, StepRows
<1>7. CASE \E w \in Workers : Save(w)
  BY <1>1, <1>2, <1>3, <1>7 DEF Save, LeaseOfRunning, StepRows
<1>8. CASE UNCHANGED row
  BY <1>2, <1>8 DEF LeaseOfRunning
<1> QED
  BY <1>4, <1>5, <1>6, <1>7, <1>8, Cases
     DEF DecidePull, DecideRemoval, ClosePull, DeleteForum, ReadCatalog, FindRemoval,
         OpenRemoval, AskStatus, CallFails, Die

(* A completed step has no lease, so nobody can write its row. *)
LEMMA CompletedKept ==
  ASSUME TypeOK, LeaseOfRunning, Next, NEW s \in Steps, row[s].state = "completed"
  PROVE  row'[s].state = "completed"
<1>1. row \in [Steps -> StepRows] /\ row[s].lease = None
  BY DEF TypeOK, LeaseOfRunning
<1>2. row[s] \in StepRows
  BY <1>1
<1>3. CASE \E t \in Steps : LeaseExpires(t)
  BY <1>1, <1>2, <1>3 DEF LeaseExpires, StepRows
<1>4. CASE RetryDeletion
  BY <1>1, <1>2, <1>4 DEF RetryDeletion
<1>5. CASE \E w \in Workers, t \in Steps : Claim(w, t)
  BY <1>1, <1>2, <1>5 DEF Claim, Due, StepRows
<1>6. CASE \E w \in Workers : Save(w)
  <2> PICK w \in Workers : Save(w)
    BY <1>6
  <2>1. ~OwnsLease(w, s)
    BY <1>1, DeletionAssumption DEF OwnsLease
  <2> QED
    BY <1>1, <2>1 DEF Save
<1>7. CASE UNCHANGED row
  BY <1>7
<1> QED
  BY <1>3, <1>4, <1>5, <1>6, <1>7, Cases
     DEF DecidePull, DecideRemoval, ClosePull, DeleteForum, ReadCatalog, FindRemoval,
         OpenRemoval, AskStatus, CallFails, Die

(* What Goto does to the record of its worker. *)
LEMMA GotoEffect ==
  ASSUME TypeOK, NEW w \in Workers, worker[w].pc # "idle", NEW at, NEW o, Goto(w, at, o)
  PROVE  /\ worker'[w].pc = at /\ worker'[w].outcome = o /\ worker'[w].step = worker[w].step
         /\ \A u \in Workers : u # w => worker'[u] = worker[u]
<1>1. worker \in [Workers -> BusyWorkers \union {Idle}]
  BY DEF TypeOK
<1>2. worker[w] \in BusyWorkers
  BY <1>1 DEF Idle
<1> QED
  BY <1>1, <1>2 DEF Goto, BusyWorkers

(* Nothing asks for a removal before the requests are closed. *)
LEMMA ClosedFirstKept ==
  ASSUME TypeOK, StepInHand, ClosedFirst, Next
  PROVE  ClosedFirst'
<1>1. worker \in [Workers -> BusyWorkers \union {Idle}]
  BY DEF TypeOK
<1>2. CASE Closed
  BY <1>2, ClosedKept DEF ClosedFirst
<1>3. CASE ~Closed
  <2>1. removal = <<>>
    BY <1>3 DEF ClosedFirst
  <2>2. \A w \in Workers : worker[w].pc \notin {"lookup", "opening", "status"}
    BY <1>3 DEF ClosedFirst
  <2>3. UNCHANGED removal
    <3>1. ~\E r \in DOMAIN removal : DecideRemoval(r)
      BY <2>1
    <3>2. ~\E w \in Workers : OpenRemoval(w)
      BY <2>2 DEF OpenRemoval
    <3>3. \A w \in Workers : CallFails(w) => UNCHANGED removal
      BY <2>2 DEF CallFails, github
    <3> QED
      BY <3>1, <3>2, <3>3, Cases
         DEF DecidePull, LeaseExpires, RetryDeletion, Claim, ClosePull, DeleteForum,
             ReadCatalog, FindRemoval, AskStatus, Save, Die, github
  <2>4. \A w \in Workers : worker'[w].pc \notin {"lookup", "opening", "status"}
    <3>1. CASE \E w \in Workers, s \in Steps : Claim(w, s)
      <4> PICK w \in Workers, s \in Steps : Claim(w, s)
        BY <3>1
      <4>1. row[s] \in StepRows /\ Len(removal) = 0
        BY <2>1 DEF TypeOK
      <4>2. row[s].receipt = 0
        BY <4>1 DEF StepRows
      <4> QED
        BY <1>1, <2>2, <4>2 DEF Claim
    <3>2. CASE \E w \in Workers : DeleteForum(w) \/ CallFails(w)
      <4> PICK w \in Workers : DeleteForum(w) \/ CallFails(w)
        BY <3>2
      <4>1. worker[w].pc # "idle" /\ \E o : Goto(w, "save", o)
        BY DEF DeleteForum, CallFails
      <4> QED
        BY <2>2, <4>1, GotoEffect
    <3>3. CASE \E w \in Workers : ReadCatalog(w)
      BY <1>3, <3>3 DEF ReadCatalog, Closable, Closed
    <3>4. CASE \E w \in Workers : FindRemoval(w) \/ OpenRemoval(w) \/ AskStatus(w)
      BY <2>2, <3>4 DEF FindRemoval, OpenRemoval, AskStatus
    <3>5. CASE \E w \in Workers : Save(w) \/ Die(w)
      BY <1>1, <2>2, <3>5 DEF Save, Die, Idle
    <3>6. CASE UNCHANGED worker
      BY <2>2, <3>6
    <3> QED
      BY <3>1, <3>2, <3>3, <3>4, <3>5, <3>6, Cases
         DEF DecidePull, DecideRemoval, LeaseExpires, RetryDeletion, ClosePull
  <2> QED
    BY <2>1, <2>3, <2>4 DEF ClosedFirst
<1> QED
  BY <1>2, <1>3

(* After an accepted removal nothing lists the item again. *)
LEMMA MergedKept ==
  ASSUME TypeOK, ClosedFirst, MergedIsGone, Next
  PROVE  MergedIsGone'
<1>1. SUFFICES ASSUME NEW r \in DOMAIN removal', removal'[r] = "merged"
               PROVE  ~listed'
  BY DEF MergedIsGone
<1>2. removal \in Seq(RequestStates)
  BY DEF TypeOK, PlatformsOK
<1>3. CASE \E q \in DOMAIN removal : removal[q] = "merged"
  <2>1. Closed /\ ~listed
    BY <1>2, <1>3 DEF ClosedFirst, MergedIsGone
  <2>2. Gone(Item) /\ Item \in Steps
    BY <2>1 DEF Gone, Steps
  <2>3. Gone(Item)'
    BY <2>2, GoneKept
  <2> QED
    BY <2>3 DEF Gone
<1>4. CASE ~\E q \in DOMAIN removal : removal[q] = "merged"
  <2>1. CASE \E q \in DOMAIN removal : DecideRemoval(q)
    <3> PICK q \in DOMAIN removal : DecideRemoval(q)
      BY <2>1
    <3>1. CASE removal' = [removal EXCEPT ![q] = "merged"] /\ listed' = FALSE
      BY <3>1, Zenon
    <3>2. CASE removal' = [removal EXCEPT ![q] = "closed"]
      BY <1>1, <1>2, <1>4, <3>2
    <3> QED
      BY <3>1, <3>2, Zenon DEF DecideRemoval
  <2>2. CASE removal' = Append(removal, "open")
    BY <1>1, <1>2, <1>4, <2>2
  <2>3. CASE UNCHANGED removal
    BY <1>1, <1>4, <2>3
  <2> QED
    BY <2>1, <2>2, <2>3, Cases
       DEF DecidePull, LeaseExpires, RetryDeletion, Claim, ClosePull, DeleteForum,
           ReadCatalog, FindRemoval, OpenRemoval, AskStatus, CallFails, Save, Die, github
<1> QED
  BY <1>3, <1>4

(* A worker reports success only of what is gone. *)
LEMMA ReportKept ==
  ASSUME TypeOK, StepInHand, ClosedFirst, MergedIsGone, ReportIsTrue, Next,
         NEW w \in Workers, worker'[w].pc = "save", worker'[w].outcome = "completed",
         NEW s \in Steps, worker'[w].step = s
  PROVE  Gone(s)'
<1> USE DeletionAssumption
<1>1. worker \in [Workers -> BusyWorkers \union {Idle}]
  BY DEF TypeOK
<1>2. CASE worker'[w] = worker[w]
  <2>1. Gone(s)
    BY <1>2 DEF ReportIsTrue
  <2> QED
    BY <2>1, GoneKept
<1>3. CASE DeleteForum(w)
  <2>1. worker[w].step \in ForumIds /\ forum' = forum \ {worker[w].step}
    BY <1>3 DEF DeleteForum, StepInHand
  <2>2. s = worker[w].step
    BY <1>3, GotoEffect DEF DeleteForum
  <2>3. s # Item /\ s \notin forum'
    BY <2>1, <2>2
  <2> QED
    BY <2>3 DEF Gone
<1>4. CASE ReadCatalog(w)
  <2>1. worker[w].pc = "pulls" /\ worker[w].step = Item
    BY <1>4 DEF ReadCatalog, StepInHand
  <2>2. ~Goto(w, "lookup", "completed")
    BY <2>1, GotoEffect
  <2>3. ~listed /\ Goto(w, "save", "completed")
    BY <1>4, <2>2 DEF ReadCatalog
  <2>4. s = Item
    BY <2>1, <2>3, GotoEffect
  <2>5. Closed
    BY <1>4 DEF ReadCatalog, Closable, Closed
  <2>6. Gone(Item) /\ Item \in Steps
    BY <2>3, <2>5 DEF Gone, Steps
  <2> QED
    BY <2>4, <2>6, GoneKept
<1>5. CASE AskStatus(w)
  <2>1. worker[w].pc = "status" /\ worker[w].step = Item /\ worker[w].receipt # 0
    BY <1>5 DEF AskStatus, StepInHand
  <2>2. worker[w] \in BusyWorkers
    BY <1>1, <2>1 DEF Idle
  <2>3. worker[w].receipt \in DOMAIN removal
    BY <2>1, <2>2 DEF BusyWorkers, TypeOK, PlatformsOK
  <2> DEFINE o == CASE removal[worker[w].receipt] = "merged" -> "completed"
                    [] removal[worker[w].receipt] = "closed" -> "closed_unmerged"
                    [] OTHER -> "awaiting_external"
  <2>4. Goto(w, "save", o)
    BY <1>5 DEF AskStatus
  <2>5. removal[worker[w].receipt] = "merged" /\ s = Item
    BY <2>1, <2>4, GotoEffect
  <2>6. Closed /\ ~listed
    BY <2>1, <2>3, <2>5 DEF ClosedFirst, MergedIsGone
  <2>7. Gone(Item) /\ Item \in Steps
    BY <2>6 DEF Gone, Steps
  <2> QED
    BY <2>5, <2>7, GoneKept
<1>6. CASE CallFails(w)
  <2>1. worker[w].pc # "idle" /\ Goto(w, "save", "error")
    BY <1>6 DEF CallFails
  <2> QED
    BY <2>1, GotoEffect
<1>7. CASE Save(w) \/ Die(w)
  BY <1>1, <1>7 DEF Save, Die, Idle
<1>8. CASE \E t \in Steps : Claim(w, t)
  <2>1. worker'[w].pc # "save"
    BY <1>1, <1>8 DEF Claim
  <2> QED
    BY <2>1
<1>9. CASE FindRemoval(w) \/ OpenRemoval(w)
  <2>1. worker[w].pc # "idle"
    BY <1>9 DEF FindRemoval, OpenRemoval
  <2>2. worker[w] \in BusyWorkers
    BY <1>1, <2>1 DEF Idle
  <2>3. worker'[w].pc # "save"
    BY <1>1, <1>9, <2>2 DEF FindRemoval, OpenRemoval, BusyWorkers
  <2> QED
    BY <2>3
<1>10. ASSUME NEW u \in Workers, u # w,
              \/ DeleteForum(u) \/ ReadCatalog(u) \/ FindRemoval(u) \/ OpenRemoval(u)
              \/ AskStatus(u) \/ CallFails(u) \/ Save(u) \/ Die(u)
              \/ \E t \in Steps : Claim(u, t)
       PROVE  worker'[w] = worker[w]
  BY <1>1, <1>10
     DEF DeleteForum, ReadCatalog, FindRemoval, OpenRemoval, AskStatus, CallFails, Save, Die,
         Claim, Goto
<1>11. CASE UNCHANGED worker
  BY <1>2, <1>11
<1> QED
  BY <1>2, <1>3, <1>4, <1>5, <1>6, <1>7, <1>8, <1>9, <1>10, <1>11, Cases
     DEF DecidePull, DecideRemoval, LeaseExpires, RetryDeletion, ClosePull

(* A row says "completed" only of what is gone. *)
LEMMA RowKept ==
  ASSUME IInv, Next
  PROVE  RowIsTrue'
<1>1. row \in [Steps -> StepRows] /\ worker \in [Workers -> BusyWorkers \union {Idle}]
  BY DEF IInv, TypeOK
<1>2. SUFFICES ASSUME NEW s \in Steps, row'[s].state = "completed"
               PROVE  Gone(s)
  BY GoneKept DEF IInv, RowIsTrue
<1>3. CASE row[s].state = "completed"
  BY <1>3 DEF IInv, RowIsTrue
<1>4. CASE row[s].state # "completed"
  <2>1. row[s] \in StepRows
    BY <1>1
  <2>2. CASE \E t \in Steps : LeaseExpires(t)
    BY <1>1, <1>2, <1>4, <2>1, <2>2 DEF LeaseExpires, StepRows
  <2>3. CASE RetryDeletion
    BY <1>1, <1>2, <1>4, <2>1, <2>3 DEF RetryDeletion, StepRows
  <2>4. CASE \E w \in Workers, t \in Steps : Claim(w, t)
    BY <1>1, <1>2, <1>4, <2>1, <2>4 DEF Claim, StepRows
  <2>5. CASE \E w \in Workers : Save(w)
    <3> PICK w \in Workers : Save(w)
      BY <2>5
    <3>1. worker[w] \in BusyWorkers /\ worker[w].pc = "save"
      BY <1>1 DEF Save, Idle
    <3>2. worker[w].step = s
      BY <1>1, <1>2, <1>4, <2>1 DEF Save
    <3>3. Decided(w) = "completed"
      BY <1>1, <1>2, <1>4, <2>1, <3>2 DEF Save, StepRows
    <3>4. worker[w].outcome = "completed"
      BY <3>3 DEF Decided
    <3> QED
      BY <3>1, <3>2, <3>4 DEF IInv, ReportIsTrue
  <2>6. CASE UNCHANGED row
    BY <1>2, <1>4, <2>6
  <2> QED
    BY <2>2, <2>3, <2>4, <2>5, <2>6, Cases
       DEF DecidePull, DecideRemoval, ClosePull, DeleteForum, ReadCatalog, FindRemoval,
           OpenRemoval, AskStatus, CallFails, Die
<1> QED
  BY <1>3, <1>4

LEMMA InitIsInductive ==
  ASSUME Init
  PROVE  IInv
<1> USE DeletionAssumption DEF Init, Idle
<1>1. PlatformsOK
  BY DEF PlatformsOK, RequestStates
<1>2. row \in [Steps -> StepRows] /\ worker \in [Workers -> BusyWorkers \union {Idle}]
  BY DEF StepRows, StepStates
<1>3. StepInHand /\ LeaseOfRunning /\ ClosedFirst /\ MergedIsGone /\ ReportIsTrue /\ RowIsTrue
  BY DEF StepInHand, LeaseOfRunning, ClosedFirst, MergedIsGone, ReportIsTrue, RowIsTrue
<1> QED
  BY <1>1, <1>2, <1>3 DEF IInv, TypeOK

LEMMA StepIsInductive ==
  ASSUME IInv, [Next]_vars
  PROVE  IInv'
<1>1. CASE Next
  <2>1. TypeOK' /\ StepInHand'
    BY <1>1, PlatformTypes, RowTypes, WorkerTypes DEF IInv, TypeOK
  <2>2. LeaseOfRunning' /\ ClosedFirst' /\ MergedIsGone' /\ RowIsTrue'
    BY <1>1, LeaseKept, ClosedFirstKept, MergedKept, RowKept DEF IInv
  <2>3. ReportIsTrue'
    <3> SUFFICES ASSUME NEW w \in Workers, worker'[w].pc = "save",
                        worker'[w].outcome = "completed"
                 PROVE  Gone(worker[w].step)'
      BY DEF ReportIsTrue
    <3>1. worker'[w].step \in Steps
      BY <2>1 DEF TypeOK, BusyWorkers, Idle
    <3>2. \A s \in Steps : worker'[w].step = s => Gone(s)'
      BY <1>1, ReportKept DEF IInv
    <3> QED
      BY <3>1, <3>2 DEF Gone, Closed
  <2> QED
    BY <2>1, <2>2, <2>3 DEF IInv
<1>2. CASE UNCHANGED vars
  <2>1. TypeOK'
    BY <1>2 DEF IInv, TypeOK, PlatformsOK, StepRows, BusyWorkers, vars, github
  <2>2. StepInHand' /\ LeaseOfRunning' /\ ClosedFirst' /\ MergedIsGone'
    BY <1>2 DEF IInv, StepInHand, LeaseOfRunning, ClosedFirst, MergedIsGone, Closed, vars, github
  <2>3. ReportIsTrue' /\ RowIsTrue'
    BY <1>2 DEF IInv, ReportIsTrue, RowIsTrue, Gone, Closed, vars, github
  <2> QED
    BY <2>1, <2>2, <2>3 DEF IInv
<1> QED
  BY <1>1, <1>2

(* The inductive invariant of the deletion: types, leases, and that nobody says
   "completed" of what is still there. *)
THEOREM DeletionInvariance == Spec => []IInv
  BY InitIsInductive, StepIsInductive, PTL DEF Spec

(* Every reachable state of a deletion is well typed. *)
THEOREM DeletionTypeCorrect == Spec => []TypeOK
<1>1. IInv => TypeOK
  BY DEF IInv
<1> QED
  BY <1>1, DeletionInvariance, PTL

(* Of a completed step the forum resource is gone; the AstroBox item is out of
   the catalog with no request open that could bring it back. *)
THEOREM CompletedIsGoneAlways == Spec => []CompletedIsGone
<1>1. IInv => CompletedIsGone
  BY DeletionAssumption DEF IInv, RowIsTrue, Gone, Closed, CompletedIsGone, Steps
<1> QED
  BY <1>1, DeletionInvariance, PTL

(* What is present is what is not gone. *)
LEMMA PresentIsNotGone ==
  ASSUME TypeOK, NEW s \in Steps
  PROVE  s \in Present <=> ~Gone(s)
<1>1. forum \subseteq ForumIds
  BY DEF TypeOK, PlatformsOK
<1> QED
  BY <1>1, DeletionAssumption DEF Present, Gone, Closed, Steps

(* One step takes away one thing at most, and none comes back. *)
LEMMA OneVanishes ==
  ASSUME TypeOK, Next
  PROVE  /\ Present' \subseteq Present
         /\ \E t \in Steps : Present \ {t} \subseteq Present'
<1>1. PlatformsOK'
  BY PlatformTypes
<1>2. Present' \subseteq Steps
  BY <1>1 DEF PlatformsOK, Present, Steps
<1>3. \A s \in Steps : s \in Present' => s \in Present
  <2> SUFFICES ASSUME NEW s \in Steps, Gone(s)
               PROVE  s \notin Present'
    BY PresentIsNotGone
  <2>1. Gone(s)'
    BY GoneKept
  <2>2. forum' \subseteq ForumIds
    BY <1>1 DEF PlatformsOK
  <2> QED
    BY <2>1, <2>2, DeletionAssumption DEF Gone, Closed, Present, Steps
<1>4. ASSUME UNCHANGED forum
      PROVE  \E t \in Steps : Present \ {t} \subseteq Present'
  <2>1. Present \ {Item} \subseteq Present'
    BY <1>4 DEF Present
  <2> QED
    BY <2>1 DEF Steps
<1>5. ASSUME NEW w \in Workers, worker[w].pc = "forum",
             forum' = forum \ {worker[w].step}, UNCHANGED github
      PROVE  \E t \in Steps : Present \ {t} \subseteq Present'
  <2>1. worker[w].step \in Steps
    BY <1>5 DEF TypeOK, BusyWorkers, Idle
  <2>2. Present \ {worker[w].step} \subseteq Present'
    BY <1>5 DEF Present, github
  <2> QED
    BY <2>1, <2>2
<1>6. \E t \in Steps : Present \ {t} \subseteq Present'
  BY <1>4, <1>5, Cases
     DEF DecidePull, DecideRemoval, LeaseExpires, RetryDeletion, Claim, ClosePull, DeleteForum,
         ReadCatalog, FindRemoval, OpenRemoval, AskStatus, CallFails, Save, Die, github
<1> QED
  BY <1>2, <1>3, <1>6

(* Only an outcome that is saved adds to what is reported. *)
LEMMA OneReported ==
  ASSUME TypeOK, Next
  PROVE  \/ Completed' \subseteq Completed
         \/ UNCHANGED Present /\ \E t \in Steps : Completed' \subseteq Completed \union {t}
<1>1. row \in [Steps -> StepRows]
  BY DEF TypeOK
<1>2. CASE \E w \in Workers : Save(w)
  <2> PICK w \in Workers : Save(w)
    BY <1>2
  <2>1. worker[w].step \in Steps
    BY DEF TypeOK, BusyWorkers, Idle, Save
  <2>2. \A s \in Steps : s # worker[w].step => row'[s] = row[s]
    BY <1>1 DEF Save
  <2>3. UNCHANGED Present
    BY DEF Save, Present, github
  <2>4. Completed' \subseteq Completed \union {worker[w].step}
    BY <2>2 DEF Completed
  <2> QED
    BY <2>1, <2>3, <2>4
<1>3. ASSUME \/ \E t \in Steps : LeaseExpires(t)
             \/ RetryDeletion
             \/ \E w \in Workers, t \in Steps : Claim(w, t)
      PROVE  Completed' \subseteq Completed
  <2> SUFFICES ASSUME NEW s \in Steps, row'[s].state = "completed"
               PROVE  row[s].state = "completed"
    BY DEF Completed
  <2>1. row[s] \in StepRows
    BY <1>1
  <2>2. CASE \E t \in Steps : LeaseExpires(t)
    BY <1>1, <2>1, <2>2 DEF LeaseExpires, StepRows
  <2>3. CASE RetryDeletion
    BY <1>1, <2>1, <2>3 DEF RetryDeletion, StepRows
  <2>4. CASE \E w \in Workers, t \in Steps : Claim(w, t)
    BY <1>1, <2>1, <2>4 DEF Claim, StepRows
  <2> QED
    BY <1>3, <2>2, <2>3, <2>4
<1>4. CASE UNCHANGED row
  BY <1>4 DEF Completed
<1> QED
  BY <1>2, <1>3, <1>4, Cases
     DEF DecidePull, DecideRemoval, ClosePull, DeleteForum, ReadCatalog, FindRemoval,
         OpenRemoval, AskStatus, CallFails, Die

(* A step of the deletion is a step of the removal, or none. *)
LEMMA StepKeepsPromise ==
  ASSUME IInv, [Next]_vars
  PROVE  [Promise!Next]_<<Present, Completed>>
<1>1. CASE UNCHANGED vars
  BY <1>1 DEF vars, github, Present, Completed
<1>2. CASE Next
  <2>1. PICK t \in Steps : Present' \subseteq Present /\ Present \ {t} \subseteq Present'
    BY <1>2, OneVanishes DEF IInv
  <2>2. Completed \subseteq Completed'
    BY <1>2, CompletedKept DEF IInv, Completed
  <2>3. CASE Completed' \subseteq Completed
    <3>1. Completed' = Completed
      BY <2>2, <2>3
    <3>2. CASE t \in Present'
      BY <2>1, <3>1, <3>2
    <3>3. CASE t \notin Present' /\ t \in Present
      <4>1. Present' = Present \ {t}
        BY <2>1, <3>3
      <4> QED
        BY <3>1, <3>3, <4>1 DEF Promise!Next, Promise!Vanish
    <3>4. CASE t \notin Present
      BY <2>1, <3>1, <3>4
    <3> QED
      BY <3>2, <3>3, <3>4
  <2>4. ASSUME UNCHANGED Present, NEW s \in Steps, Completed' \subseteq Completed \union {s},
               Completed' # Completed
        PROVE  Promise!Report(s)
    <3>1. Completed' = Completed \union {s} /\ s \in Completed'
      BY <2>2, <2>4
    <3>2. row'[s].state = "completed"
      BY <3>1 DEF Completed
    <3>3. RowIsTrue' /\ TypeOK'
      BY StepIsInductive DEF IInv
    <3>4. Gone(s)'
      BY <3>2, <3>3 DEF RowIsTrue, Gone, Closed
    <3>5. forum' \subseteq ForumIds
      BY <3>3 DEF TypeOK, PlatformsOK
    <3>6. s \notin Present'
      BY <3>4, <3>5, DeletionAssumption DEF Gone, Closed, Present, Steps
    <3> QED
      BY <2>4, <3>1, <3>6 DEF Promise!Report
  <2> QED
    BY <1>2, <2>3, <2>4, OneReported DEF IInv, Promise!Next
<1> QED
  BY <1>1, <1>2

(* The deletion implements the removal: nothing that is gone comes back, nothing
   is reported that is there, and no report is taken back. *)
THEOREM DeletionKeepsPromise == Spec => RemovesForGood
<1>1. Init => Promise!Init
  <2> SUFFICES ASSUME Init PROVE Promise!Init
    OBVIOUS
  <2>1. Present \subseteq Steps
    BY DEF Init, Present, Steps
  <2>2. Completed = {}
    BY DEF Init, Completed
  <2> QED
    BY <2>1, <2>2 DEF Promise!Init
<1>2. IInv /\ [Next]_vars => [Promise!Next]_<<Present, Completed>>
  BY StepKeepsPromise
<1> QED
  BY <1>1, <1>2, DeletionInvariance, PTL DEF Spec, RemovesForGood, Promise!Spec
=============================================================================
