---------------------------- MODULE MCInstanceState ----------------------------
(***************************************************************************)
(* Small instances of InstanceState.                                       *)
(***************************************************************************)
EXTENDS InstanceState

AllClasses  == DOMAIN Shape
=============================================================================
