--------------------------- MODULE MCIndexQueries ---------------------------
(***************************************************************************)
(* IndexQueries with two programs and two entries, 0 and 1, which are      *)
(* functions of their own; there are no other addresses.                   *)
(***************************************************************************)
EXTENDS IndexQueries, TLC

CONSTANTS P, Q, f, g

MCPrograms == {P, Q}
MCEntries  == {0, 1}
MCNames    == {f, g}
MCGroup    == [e \in MCEntries |-> e]
MCCalls    == P :> {<<0, 1>>, <<1, 1>>, <<1, 0>>} @@ Q :> {<<1, 0>>}
MCMapped   == P :> {0, 1} @@ Q :> {0}
Plain      == [like |-> {f, g}, region |-> "all", most |-> 9, least |-> 0,
               sort |-> FALSE, counted |-> FALSE, limit |-> 9]
MCQueries  ==
    {[Plain EXCEPT !.like = {f}, !.region = "block"],
     [Plain EXCEPT !.counted = TRUE, !.most = 0],
     [Plain EXCEPT !.counted = TRUE, !.least = 1, !.sort = TRUE, !.limit = 1]}
=============================================================================
