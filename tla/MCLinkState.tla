---------------------------- MODULE MCLinkState ----------------------------
(***************************************************************************)
(* A small network for LinkState.                                          *)
(***************************************************************************)
EXTENDS LinkState

CONSTANTS a, b, h

\* a -- b -- h : two routers, a host behind b (configs/partition_headless).
PairNode == {a, b, h}
PairRouter == {a, b}
PairNbr == [x \in PairNode |-> IF x = b THEN {a, h} ELSE {b}]
PairHears == [r \in PairRouter |-> IF r = a THEN {b} ELSE {h}]
=============================================================================
