--------------------------- MODULE MCRouteControl ---------------------------
(***************************************************************************)
(* Small tables for RouteControl.                                          *)
(***************************************************************************)
EXTENDS RouteControl

\* Nodes 1 and 2 lie in one subnet, the others in a subnet of their own.
SharedSubnet == [i \in 1 .. MAX_NODE_NUM |-> IF i = 2 THEN 1 ELSE i]
=============================================================================
