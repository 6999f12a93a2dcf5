-------------------------- MODULE MCWatchConnection --------------------------
(***************************************************************************)
(* WatchConnection for TLC, with two targets.                              *)
(***************************************************************************)
EXTENDS WatchConnection

CONSTANTS t1, t2
=============================================================================
