---------------------------- MODULE MCCoordinator ----------------------------
(* Instances of module Coordinator for TLC. *)
EXTENDS Coordinator, TLC

Symmetric == Permutations(Workers)
=============================================================================
