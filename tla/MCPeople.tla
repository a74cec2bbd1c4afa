------------------------------ MODULE MCPeople ------------------------------
(* The modules about people: their accounts, and what they exchange and put      *)
(* together, for TLC, in one run.  They share no state: which of them moves is    *)
(* chosen at the start, and the others stay where they began.                     *)
EXTENDS Sessions, ConsoleSessions, Grants, GitHubLink,
        Coins, Comments, Feedback, Collections

VARIABLE focus

vars == <<focus, sessionsVars, consoleVars, grantsVars, linkVars, coinsVars,
     commentsVars, feedbackVars, collectionsVars>>

Init ==
  /\ focus \in {"sessions", "console", "grants", "link", "coins", "comments",
     "feedback", "collections"}
  /\ SessionsInit /\ ConsoleInit /\ GrantsInit /\ LinkInit /\ CoinsInit
     /\ CommentsInit /\ FeedbackInit /\ CollectionsInit

Next ==
  /\ UNCHANGED focus
  /\ \/ /\ focus = "sessions" /\ SessionsNext
        /\ UNCHANGED <<consoleVars, grantsVars, linkVars, coinsVars, commentsVars,
             feedbackVars, collectionsVars>>
     \/ /\ focus = "console" /\ ConsoleNext
        /\ UNCHANGED <<sessionsVars, grantsVars, linkVars, coinsVars, commentsVars,
             feedbackVars, collectionsVars>>
     \/ /\ focus = "grants" /\ GrantsNext
        /\ UNCHANGED <<sessionsVars, consoleVars, linkVars, coinsVars, commentsVars,
             feedbackVars, collectionsVars>>
     \/ /\ focus = "link" /\ LinkNext
        /\ UNCHANGED <<sessionsVars, consoleVars, grantsVars, coinsVars,
             commentsVars, feedbackVars, collectionsVars>>
     \/ /\ focus = "coins" /\ CoinsNext
        /\ UNCHANGED <<sessionsVars, consoleVars, grantsVars, linkVars, commentsVars,
             feedbackVars, collectionsVars>>
     \/ /\ focus = "comments" /\ CommentsNext
        /\ UNCHANGED <<sessionsVars, consoleVars, grantsVars, linkVars, coinsVars,
             feedbackVars, collectionsVars>>
     \/ /\ focus = "feedback" /\ FeedbackNext
        /\ UNCHANGED <<sessionsVars, consoleVars, grantsVars, linkVars, coinsVars,
             commentsVars, collectionsVars>>
     \/ /\ focus = "collections" /\ CollectionsNext
        /\ UNCHANGED <<sessionsVars, consoleVars, grantsVars, linkVars, coinsVars,
             commentsVars, feedbackVars>>

Spec == Init /\ [][Next]_vars

\* Every variable of the eight modules has its type.
TypeOK ==
  /\ SessionsTypeOK /\ ConsoleTypeOK /\ GrantsTypeOK /\ LinkTypeOK /\ CoinsTypeOK
     /\ CommentsTypeOK /\ FeedbackTypeOK /\ CollectionsTypeOK
=============================================================================
