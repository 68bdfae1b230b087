----------------------------- MODULE MCRouting -----------------------------
(***************************************************************************)
(* Routing on the routers of configs/box_headless, with the host h at d:   *)
(* two ways around from everywhere but d.  The link a-d has been cut or    *)
(* mended.                                                                 *)
(***************************************************************************)
EXTENDS Routing

CONSTANTS a, b, c, d, h

Box == [x \in {a, b, c, d, h} |->
          CASE x \in {a, c} -> {b, d} [] x = b -> {a, c}
            [] x = d -> {a, c, h} [] x = h -> {d}]
AD == {{a, d}}
=============================================================================
