--------------------------- MODULE MCListenRegistry ---------------------------
(***************************************************************************)
(* ListenRegistry for TLC.  q1 and q2 share target t1, as a limit-to-first *)
(* and a limit-to-last query do; q3 has target t2.                         *)
(***************************************************************************)
EXTENDS ListenRegistry, TLC

CONSTANTS q1, q2, q3, t1, t2, a, b, c, d

MCTargetOf == (q1 :> t1) @@ (q2 :> t1) @@ (q3 :> t2)

\* Two listeners on one query, one on its mirror image, one on another.
UniformQueryOf == (a :> q1) @@ (b :> q1) @@ (c :> q2) @@ (d :> q3)

\* Two listeners on each of two queries of one target.
MixedQueryOf == (a :> q1) @@ (b :> q1) @@ (c :> q2) @@ (d :> q2)

MirrorTargetOf == (q1 :> t1) @@ (q2 :> t1)

\* One listener on each of two queries of one target.
MirrorQueryOf == (a :> q1) @@ (b :> q2)
=============================================================================
