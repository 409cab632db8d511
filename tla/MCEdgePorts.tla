------------------------------ MODULE MCEdgePorts ------------------------------
(***************************************************************************)
(* EdgePorts with two connections: the device of one opens shared ports it *)
(* may only write to, the device of the other private ports it may only    *)
(* read from.                                                              *)
(***************************************************************************)
EXTENDS EdgePorts

CONSTANTS c1, c2

MCRights == [c \in Conns |-> IF c = c1 THEN {{"w", "s"}} ELSE {{"r"}}]

==============================================================================
