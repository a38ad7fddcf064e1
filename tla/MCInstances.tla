----------------------------- MODULE MCInstances ----------------------------
(***************************************************************************)
(* Instances with three processes: A and B have sockets, C has none and    *)
(* the process id that A had; B and C have one project.                    *)
(***************************************************************************)
EXTENDS Instances, TLC

CONSTANTS A, B, C, fw, boot, i, a1, a2, b1

MCProcs    == {A, B, C}
MCPid      == A :> 1 @@ B :> 2 @@ C :> 1
MCProject  == A :> fw @@ B :> boot @@ C :> boot
MCSockets  == {A, B}
MCTells    == {A, C}
MCPaths    == A :> {a1, a2} @@ B :> {b1} @@ C :> {C}
MCFirst    == A :> a1 @@ B :> b1 @@ C :> C
MCPrograms == {i}
=============================================================================
