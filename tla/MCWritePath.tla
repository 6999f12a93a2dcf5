---------------------------- MODULE MCWritePath ----------------------------
(***************************************************************************)
(* WritePath for TLC: the .cfg files give the constants small values.      *)
(***************************************************************************)
EXTENDS WritePath

CONSTANTS alice, bob
=============================================================================
