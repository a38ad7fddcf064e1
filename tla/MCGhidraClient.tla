--------------------------- MODULE MCGhidraClient ---------------------------
(***************************************************************************)
(* GhidraClient with two writes, a read and a probe.  The writes are       *)
(* interchangeable, but symmetry is not sound for the liveness property.   *)
(***************************************************************************)
EXTENDS GhidraClient

CONSTANTS p1, p2, g1, b1

MCPost     == {p1, p2}
MCProbe    == {b1}
MCRequests == {p1, p2, g1, b1}
=============================================================================
