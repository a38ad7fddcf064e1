----------------------------- MODULE MCExplorer -----------------------------
(***************************************************************************)
(* Explorer over graphs of four functions: a root that calls any of the    *)
(* others, which call each other in any way and may call the root back.    *)
(***************************************************************************)
EXTENDS Explorer, TLC

CONSTANTS f0, f1, f2, f3, n0, n1, n2, n3

MCFns     == {f0, f1, f2, f3}
MCNames   == {n0, n1, n2, n3}
MCGraphs  == SUBSET {<<f0, f1>>, <<f0, f2>>, <<f1, f3>>, <<f2, f3>>, <<f3, f1>>, <<f3, f0>>}
MCNamings == {f0 :> n0 @@ f1 :> n1 @@ f2 :> n2 @@ f3 :> n3,
              f0 :> n0 @@ f1 :> n1 @@ f2 :> n1 @@ f3 :> n3}
MCDepths  == {1, 2}
MCLimits  == {-1, 0, 2}
=============================================================================
