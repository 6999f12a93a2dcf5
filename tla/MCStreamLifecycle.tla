-------------------------- MODULE MCStreamLifecycle --------------------------
(***************************************************************************)
(* StreamLifecycle for TLC: the .cfg gives the bounds.                     *)
(***************************************************************************)
EXTENDS StreamLifecycle
=============================================================================
