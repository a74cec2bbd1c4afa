------------------------------- MODULE MCPublish -------------------------------
(* The clients of the two platforms for TLC, in one run.  They share no state:   *)
(* which of them moves is chosen at the start, and the other stays where it      *)
(* began.                                                                        *)
EXTENDS BandBBSDispatch, Submission

VARIABLE focus

MCPlan(name, version, file, overwrite) ==
  [name |-> name, version |-> version, file |-> file, overwrite |-> overwrite, notes |-> "n"]

\* Two of the same plan look alike; the other name, file and way to overwrite
\* under the same version make the rest.
MCPlans == {MCPlan("a", "1", "x", FALSE), MCPlan("b", "1", "y", TRUE)}

MCInit == focus \in {"bandbbs", "astrobox"} /\ Init /\ SubmissionInit

MCNext ==
  /\ UNCHANGED focus
  /\ \/ focus = "bandbbs" /\ Next /\ UNCHANGED submissionVars
     \/ focus = "astrobox" /\ SubmissionNext /\ UNCHANGED vars

MCSpec == MCInit /\ [][MCNext]_<<focus, vars, submissionVars>>

\* Every variable of the two modules has its type.
MCTypeOK == TypeOK /\ SubmissionTypeOK
=============================================================================
