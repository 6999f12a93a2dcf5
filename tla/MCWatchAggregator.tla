------------------------- MODULE MCWatchAggregator -------------------------
(***************************************************************************)
(* WatchAggregator for TLC.                                                *)
(***************************************************************************)
EXTENDS WatchAggregator

CONSTANTS t1, k1, k2
=============================================================================
