------------------------------- MODULE Feedback -------------------------------
(***************************************************************************)
(* Feedback and report tickets: the reporter answers, administrators answer *)
(* and decide.  UpdateFeedback locks the row and is one step; the handler   *)
(* of the reporter's answer reads the ticket in a step before it.           *)
(***************************************************************************)
EXTENDS Naturals, Sequences, SequencesExt

CONSTANTS
  Tickets,
  NoStatus,    \* no answer of the reporter is under way
  MaxChanges   \* bound of the model on the changes of a ticket's status

ASSUME FeedbackAssumption == NoStatus \notin STRING /\ MaxChanges \in Nat

VARIABLES
  ticket,     \* per ticket: kind (none before it is made), status, whether
              \* closed_at is set, and whether its target existed
  history,    \* feedback_status_history: per ticket, its rows
  reported,   \* report.updated messages made so far, per ticket, by status
  answering   \* per ticket: the status the reporter's answer read

feedbackVars == <<ticket, history, reported, answering>>

Statuses == {"open", "investigating", "replied", "resolved", "dismissed", "closed"}
Closed == {"resolved", "dismissed", "closed"}
ReportKinds == {"resource_report", "comment_report"}

FeedbackInit ==
  /\ ticket = [t \in Tickets |-> [kind |-> "none", status |-> "open", closed |-> FALSE]]
  /\ history = [t \in Tickets |-> <<>>]
  /\ reported = [t \in Tickets |-> <<>>]
  /\ answering = [t \in Tickets |-> NoStatus]

\* handleCreateFeedback: a report names a target FeedbackTargetExists finds, or
\* one of another platform; the ticket begins open.
CreateFeedback(t, kind, targetExists) ==
  /\ ticket[t].kind = "none"
  /\ kind \in ReportKinds => targetExists
  /\ ticket' = [ticket EXCEPT ![t].kind = kind]
  /\ history' = [history EXCEPT ![t] = <<[from |-> "", to |-> "open"]>>]
  /\ UNCHANGED <<reported, answering>>

\* Mutant: the status the handler read before is taken for the present one.
StatusRead(t) == IF answering[t] = NoStatus THEN ticket[t].status ELSE answering[t]

\* SELECT status ... FOR UPDATE
CurrentStatus(t) == ticket[t].status

\* UpdateFeedback: the row, a row of history when the status changes, and by the
\* trigger notify_report_result a message when it is a report.
UpdateFeedback(t, status) ==
  /\ Len(history[t]) < MaxChanges
  /\ ticket' = [ticket EXCEPT ![t].status = status, ![t].closed = status \in Closed]
  /\ history' = IF CurrentStatus(t) = status THEN history
                ELSE [history EXCEPT ![t] = Append(@, [from |-> CurrentStatus(t), to |-> status])]
  /\ reported' = IF ticket[t].kind \in ReportKinds /\ ticket[t].status # status
                 THEN [reported EXCEPT ![t] = Append(@, status)] ELSE reported

\* HandleAdminAPITicketAction; ReplyFeedback is the same with replied or closed.
TicketAction(t, status) ==
  /\ ticket[t].kind # "none"
  /\ UpdateFeedback(t, status)
  /\ UNCHANGED answering

\* handleFeedbackReply: the ticket is read; a dismissed one is left alone.
BeginAnswer(t) ==
  /\ ticket[t].kind # "none" /\ answering[t] = NoStatus
  /\ ticket[t].status # "dismissed"
  /\ answering' = [answering EXCEPT ![t] = ticket[t].status]
  /\ UNCHANGED <<ticket, history, reported>>

\* The answer is stored and the ticket open again, whatever it is by now.
FinishAnswer(t) ==
  /\ answering[t] # NoStatus
  /\ UpdateFeedback(t, "open")
  /\ answering' = [answering EXCEPT ![t] = NoStatus]

\* The request is cancelled or the transaction fails.
DropAnswer(t) ==
  /\ answering[t] # NoStatus
  /\ answering' = [answering EXCEPT ![t] = NoStatus]
  /\ UNCHANGED <<ticket, history, reported>>

FeedbackNext ==
  \E t \in Tickets :
    \/ \E kind \in ReportKinds \union {"feedback"}, exists \in BOOLEAN : CreateFeedback(t, kind, exists)
    \/ \E status \in Statuses : TicketAction(t, status)
    \/ BeginAnswer(t) \/ FinishAnswer(t) \/ DropAnswer(t)

FeedbackSpec == FeedbackInit /\ [][FeedbackNext]_feedbackVars
-----------------------------------------------------------------------------
(* Properties *)

FeedbackTypeOK ==
  /\ ticket \in [Tickets -> [kind : ReportKinds \union {"none", "feedback"},
                             status : Statuses, closed : BOOLEAN]]
  /\ \A t \in Tickets :
       /\ history[t] \in Seq([from : Statuses \union {""}, to : Statuses])
       /\ reported[t] \in Seq(Statuses)
       /\ answering[t] \in Statuses \union {NoStatus}

\* The history of a ticket is a chain that ends in its status, the date of
\* closing is there exactly when that status is final, and the author of a
\* report was told of every change and of nothing else, however the reporter's
\* answers and the decisions of administrators overlap.
HistoryIsTold ==
  \A t \in Tickets : ticket[t].kind # "none" =>
    /\ Last(history[t]).to = ticket[t].status
    /\ \A i \in 2..Len(history[t]) : history[t][i].from = history[t][i - 1].to
    /\ ticket[t].closed <=> ticket[t].status \in Closed
    /\ ticket[t].kind \in ReportKinds =>
         reported[t] = [i \in 1..(Len(history[t]) - 1) |-> history[t][i + 1].to]
=============================================================================
