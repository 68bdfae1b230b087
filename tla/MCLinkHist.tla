----------------------------- MODULE MCLinkHist -----------------------------
(***************************************************************************)
(* A short history and two weights for LinkHist.                           *)
(***************************************************************************)
EXTENDS LinkHist

Flat == [t \in 0 .. MaxClock |-> t]          \* ts_average_uptime
Steep == [t \in 0 .. MaxClock |-> 2 ^ t]     \* falloff = 1 / ln 2

Weights == {Flat, Steep}
=============================================================================
