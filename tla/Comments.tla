------------------------------- MODULE Comments -------------------------------
(***************************************************************************)
(* The comments of one resource: they are posted after a verdict of the     *)
(* automatic moderation, hidden and approved by people in batches, deleted   *)
(* by their authors or administrators, and announced to the owner of the     *)
(* resource and to those they answer by triggers of the database.  A         *)
(* transaction that posts a reply holds a share lock on the comment it       *)
(* answers, but none on the root above it nor on the resource.               *)
(***************************************************************************)
EXTENDS Naturals, FiniteSets

CONSTANTS
  Commenters,     \* users who comment
  ResourceOwner,  \* the owner of the resource, a reader like everybody
  Verdicts,       \* answers of the moderation; none: it is off
  MaxComments     \* bound of the model on the comments ever made

ASSUME CommentsAssumption ==
  /\ ResourceOwner \notin Commenters /\ MaxComments \in Nat
  /\ Verdicts \subseteq {"none", "pass", "review", "block"}

VARIABLES
  comment,   \* the comments in the order they were asked for; see Comment
  sent,      \* per comment: how often its readers were told of it
  warned,    \* comments whose author was told that it was hidden
  approved,  \* comments a person ever approved
  open       \* the resource is visible and has a current revision

commentsVars == <<comment, sent, warned, approved, open>>

Readers == Commenters \union {ResourceOwner}
Ids == 1..MaxComments
Made == DOMAIN comment

\* reply is reply_to_id and root parent_id (0: none); judged says that
\* comment_moderation has a row, verdict is its action, reviewed its
\* human_reviewed_at; told is notified_at.
Comment ==
  [stage : {"judged", "posting", "posted", "failed"}, author : Commenters,
   reply : {0} \union Ids, root : {0} \union Ids, verdict : Verdicts,
   visible : BOOLEAN, deleted : BOOLEAN, reviewed : BOOLEAN, told : BOOLEAN]

CommentsInit ==
  /\ comment = [c \in {} |-> 0] /\ sent = [c \in {} |-> 0]
  /\ warned = {} /\ approved = {} /\ open = TRUE

Posted == {c \in Made : comment[c].stage = "posted"}

-----------------------------------------------------------------------------
(* What is shown *)

\* Mutant: a comment that waits for a person is shown.
PendingShown(c, v) ==
  comment[c].visible \/ (comment[c].verdict = "review" /\ ~comment[c].reviewed)

\* commentVisibility
Visible(c, v) ==
  \/ comment[c].visible
  \/ comment[c].author = v /\ comment[c].verdict = "review" /\ ~comment[c].reviewed

\* COALESCE(parent_id, id)
RootOf(c) == IF comment[c].root = 0 THEN c ELSE comment[c].root

\* CommentRoots lists c to v: also a deleted root that still has replies, empty.
Listed(c, v) ==
  /\ comment[c].root = 0 /\ Visible(c, v)
  /\ comment[c].deleted =>
       \E r \in Posted : comment[r].root = c /\ Visible(r, v) /\ ~comment[r].deleted

\* The replies below a root, in CommentRoots and CommentThread
Replies(root, v) ==
  {r \in Posted : comment[r].root = root /\ Visible(r, v) /\ ~comment[r].deleted}

\* The comments CommentThread shows with id c; none is an error.
Thread(c, v) ==
  IF Visible(c, v) /\ Visible(RootOf(c), v) /\ ~(comment[c].deleted /\ comment[c].root # 0)
  THEN {RootOf(c)} \union Replies(RootOf(c), v) ELSE {}

\* v is shown the text of c; that of a deleted comment is left out.
Seen(c, v) ==
  /\ open /\ ~comment[c].deleted
  /\ \/ Listed(c, v)
     \/ \E root \in Posted : Listed(root, v) /\ c \in Replies(root, v)
     \/ \E t \in Posted : c \in Thread(t, v)

-----------------------------------------------------------------------------
(* Posting *)

\* handleCreateComment until the verdict is there: none when moderation is off;
\* without an answer of a moderator the request fails and leaves nothing.
Judge(author, reply, verdict) ==
  /\ Cardinality(Made) < MaxComments
  /\ reply \in {0} \union Posted
  /\ LET c == Cardinality(Made) + 1 IN
       /\ comment' = [d \in Made \union {c} |->
            IF d \in Made THEN comment[d]
            ELSE [stage |-> "judged", author |-> author, reply |-> reply, root |-> 0,
                  verdict |-> verdict, visible |-> verdict \in {"none", "pass"},
                  deleted |-> FALSE, reviewed |-> FALSE, told |-> FALSE]]
       /\ sent' = [d \in Made \union {c} |-> IF d \in Made THEN sent[d] ELSE 0]
  /\ UNCHANGED <<warned, approved, open>>

\* The comment that is answered, as its author sees it.
Answerable(reply, v) ==
  /\ Visible(reply, v) /\ ~comment[reply].deleted
  /\ comment[reply].root # 0 =>
       Visible(comment[reply].root, v) /\ ~comment[comment[reply].root].deleted

\* CreateModeratedComment up to the lock on the comment that is answered; the
\* posts of one author follow each other.
Admit(c) ==
  /\ comment[c].stage = "judged" /\ open
  /\ \A d \in Made : comment[d].stage = "posting" => comment[d].author # comment[c].author
  /\ LET reply == comment[c].reply IN
       /\ reply # 0 => Answerable(reply, comment[c].author)
       /\ comment' = [comment EXCEPT ![c].stage = "posting",
                        ![c].root = IF reply = 0 THEN 0 ELSE RootOf(reply)]
  /\ UNCHANGED <<sent, warned, approved, open>>

\* Too fast, no such target, or the transaction fails.
Fail(c) ==
  /\ comment[c].stage \in {"judged", "posting"}
  /\ comment' = [comment EXCEPT ![c].stage = "failed"]
  /\ UNCHANGED <<sent, warned, approved, open>>

\* The condition of the trigger notify_comment_reply, on the rows row.
Due(row, c) ==
  /\ row[c].visible /\ ~row[c].deleted /\ ~row[c].told /\ open
  /\ row[c].root # 0 => row[row[c].root].visible /\ ~row[row[c].root].deleted

\* The rows are written and the triggers of the comments cs run.
Write(row, cs) ==
  LET due == {c \in cs : Due(row, c)} IN
  /\ comment' = [c \in Made |-> [row[c] EXCEPT !.told = @ \/ c \in due]]
  /\ sent' = [c \in Made |-> sent[c] + (IF c \in due THEN 1 ELSE 0)]

\* The insert and its trigger.
Post(c) ==
  /\ comment[c].stage = "posting"
  /\ Write([comment EXCEPT ![c].stage = "posted"], {c})
  /\ UNCHANGED <<warned, approved, open>>

-----------------------------------------------------------------------------
(* Afterwards *)

\* No transaction holds a share lock on c.
Unlocked(c) == \A d \in Made : comment[d].stage = "posting" => comment[d].reply # c

\* moderateComments: all of the comments or none.
Moderate(cs, visible) ==
  /\ cs # {} /\ \A c \in cs : Unlocked(c)
  /\ Write([c \in Made |-> IF c \in cs
              THEN [comment[c] EXCEPT !.visible = visible,
                      !.reviewed = @ \/ comment[c].verdict # "none"]
              ELSE comment[c]],
           {c \in cs : visible /\ ~comment[c].visible})
  /\ warned' = warned \union {c \in cs : ~visible /\ comment[c].visible}
  /\ approved' = IF visible THEN approved \union cs ELSE approved
  /\ UNCHANGED open

\* SoftDeleteComment by the author, AdminDeleteComment by an administrator
Delete(c) ==
  /\ ~comment[c].deleted /\ Unlocked(c)
  /\ comment' = [comment EXCEPT ![c].deleted = TRUE]
  /\ UNCHANGED <<sent, warned, approved, open>>

\* The moderation of the resource, see Catalog.
SetOpen ==
  /\ open' = ~open
  /\ UNCHANGED <<comment, sent, warned, approved>>

CommentsNext ==
  \/ SetOpen
  \/ \E author \in Commenters, reply \in {0} \union Posted, verdict \in Verdicts :
       Judge(author, reply, verdict)
  \/ \E c \in Made : Admit(c) \/ Fail(c) \/ Post(c)
  \/ \E c \in Posted : Delete(c)
  \/ \E cs \in SUBSET Posted, visible \in BOOLEAN : Moderate(cs, visible)

CommentsSpec == CommentsInit /\ [][CommentsNext]_commentsVars
-----------------------------------------------------------------------------
(* Properties *)

CommentsTypeOK ==
  /\ Made \subseteq Ids /\ \A c \in Made : comment[c] \in Comment
  /\ DOMAIN sent = Made /\ \A c \in Made : sent[c] \in Nat
  /\ warned \subseteq Made /\ approved \subseteq Made /\ open \in BOOLEAN

\* A comment the moderator held back and no person approved is seen by nobody
\* else, announced to nobody and answered by nobody else; one it blocked is not
\* even seen by its author; and whatever is hidden, approved, deleted or posted
\* meanwhile, no comment is announced twice.
HeldBackIsUnseen ==
  \A c \in Posted :
    LET held == comment[c].verdict \in {"review", "block"} /\ c \notin approved IN
    /\ sent[c] <= 1
    /\ held => sent[c] = 0
    /\ held => \A v \in Readers :
         Seen(c, v) => v = comment[c].author /\ comment[c].verdict = "review"
    /\ held => \A d \in Posted : comment[d].reply = c => comment[d].author = comment[c].author
=============================================================================
