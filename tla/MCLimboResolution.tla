------------------------ MODULE MCLimboResolution ------------------------
(***************************************************************************)
(* LimboResolution for TLC.                                                *)
(***************************************************************************)
EXTENDS LimboResolution

CONSTANTS q, r
=============================================================================
