---------------------------- MODULE RouteControl ----------------------------
(***************************************************************************)
(* route_control.c: how the paths found by pathfind become routes of the   *)
(* kernel.  update_routing_table runs on every iteration of the loop,      *)
(* before the handler, with the paths of the iteration before.  It adds    *)
(* every wanted route, notes it in curr_routes, and only then removes the  *)
(* noted routes that are no longer wanted, freeing their slots.            *)
(*                                                                         *)
(* curr_routes is modelled as the set of routes it holds: which slot holds *)
(* a route never matters, how many slots there are does.                   *)
(***************************************************************************)
EXTENDS Naturals, FiniteSets

CONSTANTS
  MAX_NODE_NUM,  \* length of next_hops and of curr_routes
  Neighbour,     \* the neighbours, each the gateway to what lies behind it
  Subnet,        \* Subnet[i]: the subnet of the path to node i
  Metric,        \* metrics of paths
  MaxPaths,      \* bound: nodes that have a path at any time
  Restarts       \* TRUE: the daemon may be killed and started again

Slot == 1 .. MAX_NODE_NUM

NoHop == [next_hop |-> "none"]      \* next_hop = -1
ZeroHop == [next_hop |-> "zero"]    \* what memset leaves before the first pathfind
Hop == [next_hop : Neighbour, dest_ip : {Subnet[i] : i \in Slot}, metric : Metric]
Route == [dst : {Subnet[i] : i \in Slot}, gateway : Neighbour, metric : Metric]
ZeroRoute == [dst |-> "zero"]       \* the rtentry of a ZeroHop: all zeros

ASSUME RouteAssumption ==
  /\ MAX_NODE_NUM \in Nat /\ MaxPaths \in Nat
  /\ NoHop \notin Hop /\ ZeroHop \notin Hop /\ ZeroRoute \notin Route
  /\ Restarts \in BOOLEAN

VARIABLES
  next_hops,    \* the paths of the last pathfind
  curr_routes,  \* the routes noted, at most MAX_NODE_NUM
  kernel        \* the routes in the kernel that a daemon of this node added

vars == <<next_hops, curr_routes, kernel>>

\* pathfind: nodes with and without a path; paths to node i end in Subnet[i].
Paths ==
  UNION {{[i \in Slot |-> IF i \in have
                          THEN [next_hop |-> via[i].n, dest_ip |-> Subnet[i], metric |-> via[i].m]
                          ELSE NoHop]
          : via \in [have -> [n : Neighbour, m : Metric]]}
         : have \in {s \in SUBSET Slot : Cardinality(s) <= MaxPaths}}

Init ==
  /\ next_hops = [i \in Slot |-> ZeroHop]
  /\ curr_routes = {}
  /\ kernel = {}

(***************************************************************************)
(* filter_next_hops: a path with the neighbour and subnet of an earlier    *)
(* one is dropped.                                                         *)
(***************************************************************************)
SameTarget(h, k) ==
  \/ h = ZeroHop /\ k = ZeroHop
  \/ h \in Hop /\ k \in Hop /\ h.next_hop = k.next_hop /\ h.dest_ip = k.dest_ip

Kept(hops) ==
  {i \in Slot : hops[i] # NoHop /\ \A j \in Slot : j < i => ~SameTarget(hops[i], hops[j])}

\* derive_rtentries: no neighbour has the id 0, so a ZeroHop gives zeros.
RouteOf(h) ==
  IF h = ZeroHop THEN ZeroRoute
  ELSE [dst |-> h.dest_ip, gateway |-> h.next_hop, metric |-> h.metric]

Wanted(hops) == {RouteOf(hops[i]) : i \in Kept(hops)}

\* The kernel refuses an rtentry without an address family.
\* (mutant: a ZeroHop gets addresses too)
AddRoutesZero(hops) == kernel \cup Wanted(hops)

AddRoutes(hops) == kernel \cup (Wanted(hops) \ {ZeroRoute})

(***************************************************************************)
(* mark_route_seen, for one wanted route after the other: one that is not  *)
(* in curr_routes takes a free slot.  Slots of unwanted routes are still   *)
(* taken then, and when there is none the route is not noted.              *)
(***************************************************************************)
Unnoted(hops) == {i \in Kept(hops) : RouteOf(hops[i]) \notin curr_routes}

Noted(hops) ==
  {RouteOf(hops[i]) : i \in {j \in Unnoted(hops) :
     Cardinality({k \in Unnoted(hops) : k <= j}) + Cardinality(curr_routes) <= MAX_NODE_NUM}}

\* (mutant: nothing is removed)
UpdateRoutingTableKeeping(hops) ==
  /\ kernel' = AddRoutes(hops)
  /\ curr_routes' = (curr_routes \cap Wanted(hops)) \cup Noted(hops)

\* (mutant: a route noted before is not marked seen again)
UpdateRoutingTableUnseen(hops) ==
  /\ kernel' = AddRoutes(hops) \ curr_routes
  /\ curr_routes' = Noted(hops)

(***************************************************************************)
(* (mutant: a changed metric makes the noted route unwanted by destination *)
(* and gateway, as simple_rt_addr_eq would, and removes the new one too)   *)
(***************************************************************************)
UpdateRoutingTableByAddr(hops) ==
  LET unwanted == (curr_routes \ Wanted(hops)) \ {ZeroRoute}
  IN  /\ kernel' = {r \in AddRoutes(hops) :
                      ~\E u \in unwanted : u.dst = r.dst /\ u.gateway = r.gateway}
      /\ curr_routes' = (curr_routes \cap Wanted(hops)) \cup Noted(hops)

\* update_routing_table.
UpdateRoutingTable(hops) ==
  /\ kernel' = AddRoutes(hops) \ (curr_routes \ Wanted(hops))
  /\ curr_routes' = (curr_routes \cap Wanted(hops)) \cup Noted(hops)

\* An iteration whose handler leaves the paths alone.
Idle ==
  /\ UpdateRoutingTable(next_hops)
  /\ UNCHANGED next_hops

\* An iteration that ends in pathfind.
Recompute ==
  /\ UpdateRoutingTable(next_hops)
  /\ next_hops' \in Paths

\* The daemon is killed and started again; the kernel keeps its routes.
Restart ==
  /\ Restarts
  /\ next_hops' = [i \in Slot |-> ZeroHop]
  /\ curr_routes' = {}
  /\ UNCHANGED kernel

Iterate == Idle \/ Recompute
Next == Iterate \/ Restart

Spec == Init /\ [][Next]_vars

-----------------------------------------------------------------------------
\* Type invariant.
TypeOK ==
  /\ next_hops \in [Slot -> Hop \cup {NoHop, ZeroHop}]
  /\ curr_routes \subseteq Route \cup {ZeroRoute}
  /\ Cardinality(curr_routes) <= MAX_NODE_NUM
  /\ kernel \subseteq Route

(***************************************************************************)
(* Adding first and removing afterwards never takes away a route that is   *)
(* wanted: after an iteration the kernel has every path, whatever was      *)
(* there before, a full table and a restart included.                      *)
(***************************************************************************)
PathsInstalled ==
  [][Iterate => Wanted(next_hops) \ {ZeroRoute} \subseteq kernel']_vars

(***************************************************************************)
(* As long as curr_routes has room for the new routes beside the old, the  *)
(* kernel holds exactly the paths and nothing of an earlier topology, and  *)
(* goes on agreeing with curr_routes.  It is the agreement, lost when the  *)
(* table overflows or the daemon is restarted, that this rests on.         *)
(***************************************************************************)
Agree == kernel = curr_routes \ {ZeroRoute}
Fits == Cardinality(curr_routes) + Cardinality(Unnoted(next_hops)) <= MAX_NODE_NUM

ExactWhileItFits ==
  [][Iterate /\ Agree /\ Fits
       => kernel' = Wanted(next_hops) \ {ZeroRoute} /\ Agree']_vars

(***************************************************************************)
(* curr_routes is never lied to: what it notes is in the kernel, so that a *)
(* later removal removes something.                                        *)
(***************************************************************************)
NotedAreInstalled == curr_routes \ {ZeroRoute} \subseteq kernel

(***************************************************************************)
(* A table that overflowed recovers as soon as an iteration finds no route *)
(* to remove: then everything wanted is noted.                             *)
(***************************************************************************)
NotedOnceSettled ==
  [][Iterate /\ curr_routes \subseteq Wanted(next_hops)
       => curr_routes' = Wanted(next_hops)]_vars
=============================================================================
