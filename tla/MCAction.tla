------------------------------ MODULE MCAction ------------------------------
(* Bounds for TLC: Action with its constants given in the configurations. *)
EXTENDS Action
=============================================================================
