-------------------------- MODULE MCLinkStateFifo --------------------------
(***************************************************************************)
(* Small networks for LinkStateFifo.                                       *)
(***************************************************************************)
EXTENDS LinkStateFifo

CONSTANTS a, b, c

Nodes == {a, b, c}

\* a -- b -- c, where b carries everything a and c know of each other.
LineNbr == [x \in Nodes |-> IF x = b THEN {a, c} ELSE {b}]

\* The link a-b comes and goes, at both ends.
AB == {{a, b}}
=============================================================================
