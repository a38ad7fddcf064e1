-------------------------- MODULE MCFunctionIndex ---------------------------
(***************************************************************************)
(* FunctionIndex with two programs and three entries: 1 and 2 are a thunk  *)
(* and its implementation, 3 is another function.                          *)
(***************************************************************************)
EXTENDS FunctionIndex, TLC

CONSTANTS P, Q, f, g

MCPrograms == {P, Q}
MCEntries  == 1..3
MCNames    == {f, g}
MCGroup    == [e \in MCEntries |-> IF e = 3 THEN 3 ELSE 1]
Renamings  == Permutations(MCPrograms) \union Permutations(MCNames)
=============================================================================
