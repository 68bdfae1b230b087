----------------------------- MODULE MCCapture -----------------------------
(***************************************************************************)
(* Small nodes for Capture: interfaces i1 and i2 (and i3), destinations    *)
(* p and q.                                                                *)
(***************************************************************************)
EXTENDS Capture

CONSTANTS i1, i2, i3, p, q

TwoIfaces == {i1, i2}
ThreeIfaces == {i1, i2, i3}
=============================================================================
