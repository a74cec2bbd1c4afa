--------------------------------- MODULE Home ---------------------------------
(***************************************************************************)
(* The layout of the home page: banners, sections and the cards of a        *)
(* section, each list ordered by position.  A transaction reads committed   *)
(* rows and takes the advisory lock of its list before it reads a position; *)
(* what it wrote is seen when it commits.                                   *)
(***************************************************************************)
EXTENDS Integers, FiniteSets, FiniteSetsExt

CONSTANTS
  Requests,      \* requests of administrators
  Banners, Sections, Cards,
  NoList,       \* of an item that is not there
  MaxPosition   \* bound of the model on positions

\* The rows of the three tables have ids of their own, the two lists names.
ASSUME HomeAssumption ==
  /\ MaxPosition \in Nat
  /\ Banners \intersect Sections = {} /\ (Banners \union Sections) \intersect Cards = {}
  /\ {NoList, "banners", "sections"} \intersect (Banners \union Sections \union Cards) = {}
  /\ NoList \notin {"banners", "sections"}

VARIABLES
  placed,     \* per item: the list it is in and its position
  edit     \* per editor: the step, the list it locked, what it wrote

homeVars == <<placed, edit>>

Items == Banners \union Sections \union Cards
Lists == {"banners", "sections"} \union Sections
NoRow == [list |-> NoList, position |-> 0]
NoEdit == [step |-> "idle", op |-> "none", item |-> NoList, list |-> NoList, wrote |-> <<>>]

HomeInit ==
  /\ placed = [i \in Items |-> NoRow]
  /\ edit = [e \in Requests |-> NoEdit]

Rows(list) == {i \in Items : placed[i].list = list}
There(i) == placed[i].list # NoList

-----------------------------------------------------------------------------
(* A transaction *)

\* Mutant: the lock is not taken.
NoLock(list) == TRUE

\* pg_advisory_xact_lock(hashtext('oronbox:' ...)), held until the commit
LockFree(list) == \A e \in Requests : edit[e].list # list

BeginEdit(e, op, i, list) ==
  /\ edit[e].step = "idle" /\ LockFree(list)
  /\ edit' = [edit EXCEPT ![e] = [NoEdit EXCEPT !.step = "locked", !.op = op, !.item = i, !.list = list]]
  /\ UNCHANGED placed

\* Row locks until the commit, by foreign key or FOR UPDATE: whoever wrote to a
\* list holds off the deletion of its section, and that deletion whoever would.
WrittenIn(list) == \E e \in Requests : edit[e].step = "written" /\ edit[e].list = list
Deleting(s) == \E e \in Requests :
  edit[e].step = "written" /\ edit[e].op = "delete" /\ edit[e].item = s

Wrote(e, rows) == edit' = [edit EXCEPT ![e].step = "written", ![e].wrote = rows]

\* COALESCE((SELECT max(position)+1 ...),0)
NextPosition(list) == IF Rows(list) = {} THEN 0 ELSE Max({placed[i].position : i \in Rows(list)}) + 1

InsertRow(e) ==
  LET i == edit[e].item
      list == edit[e].list IN
  /\ edit[e].step = "locked" /\ edit[e].op = "create"
  /\ NextPosition(list) <= MaxPosition
  /\ list \in Sections => There(list)
  /\ ~Deleting(list)
  /\ Wrote(e, [j \in {i} |-> [list |-> list, position |-> NextPosition(list)]])
  /\ UNCHANGED placed

\* Rows of other editors' lists go with the section: home_section_cards cascades.
DeleteRow(e) ==
  LET i == edit[e].item IN
  /\ edit[e].step = "locked" /\ edit[e].op = "delete"
  /\ ~WrittenIn(i) /\ ~Deleting(edit[e].list)
  /\ Wrote(e, [j \in {i} \union Rows(i) |-> NoRow])
  /\ UNCHANGED placed

\* The row nearest in the direction of the move; rows at the same position are
\* passed over.
Neighbours(i, delta) ==
  LET beyond == {j \in Rows(placed[i].list) :
        (placed[j].position - placed[i].position) * delta > 0}
  IN {j \in beyond : \A k \in beyond :
        (placed[k].position - placed[j].position) * delta >= 0}

\* moveHomeRow: the two rows exchange their positions; at the end of the list
\* nothing happens, and a row that is gone is an error.
MoveRow(e, delta) ==
  LET i == edit[e].item IN
  /\ edit[e].step = "locked" /\ edit[e].op = "move"
  /\ There(i) /\ placed[i].list = edit[e].list
  /\ ~Deleting(edit[e].list)
  /\ \E j \in Neighbours(i, delta) :
       Wrote(e, [k \in {i, j} |->
         [placed[k] EXCEPT !.position = IF k = i THEN placed[j].position ELSE placed[i].position]])
  /\ UNCHANGED placed

\* A row somebody deleted meanwhile is not written.
CommitEdit(e) ==
  /\ edit[e].step = "written"
  /\ placed' = [i \in Items |->
       IF i \in DOMAIN edit[e].wrote /\ (There(i) \/ edit[e].op = "create") THEN edit[e].wrote[i] ELSE placed[i]]
  /\ edit' = [edit EXCEPT ![e] = NoEdit]

\* An error, or nothing to do.
RollbackEdit(e) ==
  /\ edit[e].step # "idle"
  /\ edit' = [edit EXCEPT ![e] = NoEdit]
  /\ UNCHANGED placed

-----------------------------------------------------------------------------
(* The handlers of the console *)

Fresh(i) == ~There(i) /\ \A e \in Requests : edit[e].item # i

CreateHomeBanner(e, b) == Fresh(b) /\ BeginEdit(e, "create", b, "banners")
CreateHomeSection(e, s) == Fresh(s) /\ BeginEdit(e, "create", s, "sections")
CreateHomeSectionCard(e, c, s) == Fresh(c) /\ BeginEdit(e, "create", c, s)
DeleteHomeBanner(e, b) == There(b) /\ BeginEdit(e, "delete", b, "banners")
DeleteHomeSection(e, s) == There(s) /\ BeginEdit(e, "delete", s, "sections")

\* The section of the card is read before its list is locked.
DeleteHomeSectionCard(e, c) == There(c) /\ BeginEdit(e, "delete", c, placed[c].list)

\* HandleAdminAPIHomeMove; the section of a card is a parameter of the request.
MoveHomeBanner(e, b) == BeginEdit(e, "move", b, "banners")
MoveHomeSection(e, s) == BeginEdit(e, "move", s, "sections")
MoveHomeSectionCard(e, c, s) == BeginEdit(e, "move", c, s)

HomeNext ==
  \/ \E e \in Requests :
       \/ \E b \in Banners : CreateHomeBanner(e, b) \/ DeleteHomeBanner(e, b) \/ MoveHomeBanner(e, b)
       \/ \E s \in Sections :
            \/ CreateHomeSection(e, s) \/ DeleteHomeSection(e, s) \/ MoveHomeSection(e, s)
            \/ \E c \in Cards : CreateHomeSectionCard(e, c, s) \/ MoveHomeSectionCard(e, c, s)
       \/ \E c \in Cards : DeleteHomeSectionCard(e, c)
       \/ InsertRow(e) \/ DeleteRow(e) \/ CommitEdit(e) \/ RollbackEdit(e)
       \/ \E delta \in {-1, 1} : MoveRow(e, delta)

HomeSpec == HomeInit /\ [][HomeNext]_homeVars
-----------------------------------------------------------------------------
(* Properties *)

HomeTypeOK ==
  /\ placed \in [Items -> [list : Lists \union {NoList}, position : 0..MaxPosition]]
  /\ \A e \in Requests :
       /\ edit[e].step \in {"idle", "locked", "written"}
       /\ edit[e].op \in {"none", "create", "delete", "move"}
       /\ edit[e].item \in Items \union {NoList} /\ edit[e].list \in Lists \union {NoList}
       /\ DOMAIN edit[e].wrote \subseteq Items

\* However the requests of administrators overlap, no two items of a list have
\* the same position (a move passes over such a pair for ever), and every card
\* is in a section that is there.
ListsAreOrdered ==
  /\ \A i, j \in Items : i # j /\ There(i) /\ placed[i].list = placed[j].list => placed[i].position # placed[j].position
  /\ \A c \in Cards : There(c) => There(placed[c].list)
=============================================================================
