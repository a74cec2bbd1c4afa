-------------------------------- MODULE Removal --------------------------------
(***************************************************************************)
(* What the deletion of a resource promises of the things it left on the   *)
(* platforms, whoever removes them and however often it is tried: a thing  *)
(* that is gone never comes back, a thing is reported as removed only when *)
(* it is gone, and no report is taken back.                                *)
(***************************************************************************)
CONSTANT Things   \* forum resources and catalog items the resource was bound to

VARIABLES
  present,    \* those that exist, or that may still come into being
  reported    \* those whose removal was reported as completed

Init == present \subseteq Things /\ reported = {}

Vanish(t) ==
  /\ t \in present
  /\ present' = present \ {t}
  /\ UNCHANGED reported

Report(t) ==
  /\ t \notin present
  /\ reported' = reported \union {t}
  /\ UNCHANGED present

Next == \E t \in Things : Vanish(t) \/ Report(t)

Spec == Init /\ [][Next]_<<present, reported>>
=============================================================================
