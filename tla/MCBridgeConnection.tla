------------------------- MODULE MCBridgeConnection -------------------------
(***************************************************************************)
(* BridgeConnection with a Ghidra, a second one whose project name         *)
(* contains the name of the first, and a stranger; two addresses that are  *)
(* scanned and one that is configured, where the second Ghidra may be.     *)
(***************************************************************************)
EXTENDS BridgeConnection

CONSTANTS u1, u2, u3, fw, fwOld, a, b, s, help, sec, extra

MCUrls      == {u1, u2, u3}
MCScanned   == {u1, u2}
MCInstances == {a, b, s}
MCStrangers == {s}
MCHomes     == [i \in MCInstances |-> CASE i = a -> {u1, u2} [] i = b -> {u1, u2, u3} [] i = s -> {u2}]
MCProjects  == {fw, fwOld}
MCProjectOf == [i \in MCInstances |-> CASE i = a -> fw [] i = b -> fwOld [] i = s -> None]
MCLike      == {<<fw, fw>>, <<fwOld, fwOld>>, <<fw, fwOld>>}
MCStatic    == {help}
MCToolsOf   == [i \in MCInstances |-> CASE i = a -> {sec} [] i = b -> {sec, extra} [] i = s -> {}]
=============================================================================
