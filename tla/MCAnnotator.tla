---------------------------- MODULE MCAnnotator -----------------------------
(***************************************************************************)
(* Annotator with two programs, two functions, a global and a comment; the *)
(* rename by name is the one endpoint without a program selector.          *)
(***************************************************************************)
EXTENDS Annotator

CONSTANTS P, Q, f1, f2, d, c, v, w

MCPrograms  == {P, Q}
MCFnNames   == {f1, f2}
MCDataNames == {d}
MCNotes     == {c}
MCValues    == {v, w}
MCScoped    == Endpoints \ {"rename_function"}

Write(p, x) == [place |-> p, value |-> x]
MCPasses == {<<Write(f1, v), Write(f2, w)>>, <<Write(f1, v), Write(f2, v)>>,
             <<Write(f1, v), Write(d, v)>>, <<Write(c, v)>>, <<>>}
=============================================================================
