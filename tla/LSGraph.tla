------------------------------ MODULE LSGraph ------------------------------
(***************************************************************************)
(* The link-state graph every router keeps: one slot per node, holding the *)
(* node's last accepted advertisement, and the three ways the program      *)
(* writes it (update_global_this, merge_in_graph and merge_in_node).       *)
(* Everything here is a constant operator; LinkState and LinkStateFifo     *)
(* call these operators from their actions.                                *)
(*                                                                         *)
(* A slot keeps the fields the merges read: state, timestamp, and the      *)
(* link_statuses/link_metrics arrays as one function over the node's       *)
(* neighbours.  neighbour_ids, neighbour_ips and source_ips come from the  *)
(* configuration file, never change, and are the constant Nbr.             *)
(***************************************************************************)
EXTENDS Naturals

CONSTANTS
  Node,           \* every node of the configuration: routers and hosts
  Router,         \* the nodes that run lsr or dtlsr
  Nbr,            \* the neighbours each configuration file lists
  DelayTolerant,  \* TRUE for the dtlsr binary, FALSE for lsr
  DownMetrics     \* values ts_compute_metric can give a DOWN link

ASSUME TopologyAssumption ==
  /\ Router \subseteq Node
  /\ Nbr \in [Node -> SUBSET Node]
  /\ \A x \in Node : x \notin Nbr[x]

ASSUME MetricAssumption ==
  /\ DelayTolerant \in BOOLEAN
  /\ DownMetrics \subseteq Nat

LinkStatus == {"UP", "DOWN"}
UpMetric == 1
Metric == {UpMetric} \cup DownMetrics
Link == [status : LinkStatus, metric : Metric]

(***************************************************************************)
(* local_node_update_metrics: lsr charges one per hop; dtlsr charges 1.0   *)
(* for an UP link and a value that moves with the link's history and the   *)
(* time for a DOWN one, here any member of DownMetrics.                    *)
(***************************************************************************)
MetricOf(s) == IF DelayTolerant /\ s = "DOWN" THEN DownMetrics ELSE {UpMetric}

\* What node x can advertise while its links have the statuses st.
Adverts(x, st) ==
  {l \in [Nbr[x] -> Link] :
     \A n \in Nbr[x] : l[n].status = st[n] /\ l[n].metric \in MetricOf(st[n])}

(***************************************************************************)
(* Slots.  Arrays of a slot that is not SEEN are uninitialised memory that *)
(* no code path reads; they are left empty.                                *)
(***************************************************************************)
Unseen == [state |-> "UNSEEN", ts |-> 0, links |-> <<>>]
Opaque == [state |-> "OPAQUE", ts |-> 0, links |-> <<>>]
Seen(t, l) == [state |-> "SEEN", ts |-> t, links |-> l]

SeenSlot(x) == [state : {"SEEN"}, ts : Nat, links : [Nbr[x] -> Link]]
Slot(x) == {Unseen, Opaque} \cup SeenSlot(x)
IsGraph(g) == DOMAIN g = Node /\ \A x \in Node : g[x] \in Slot(x)

\* graph_init: no node has been encountered.
EmptyGraph == [x \in Node |-> Unseen]

\* nodes_eq: same state and same links; the timestamp is not compared.
NodesEq(a, b) == a.state = b.state /\ a.links = b.links

(***************************************************************************)
(* The three conditions under which a merge copies the other slot over     *)
(* this one, in the order the code tests them.                             *)
(***************************************************************************)
\* (mutant: the timestamp is not looked at)
SupersedesAny(other, this) ==
  \/ this.state = "UNSEEN" /\ other.state # "UNSEEN"
  \/ this.state # "UNSEEN" /\ other.state = "SEEN" /\ ~NodesEq(this, other)

Supersedes(other, this) ==
  \/ this.state = "UNSEEN" /\ other.state # "UNSEEN"
  \/ this.state = "OPAQUE" /\ other.state = "SEEN"
  \/ /\ this.state = "SEEN" /\ other.state = "SEEN"
     /\ other.ts > this.ts
     /\ ~NodesEq(this, other)

MergeSlot(this, other) == IF Supersedes(other, this) THEN other ELSE this

\* Nodes that are only known as somebody's neighbour become OPAQUE.
\* (mutant: they become SEEN, with nothing to see)
MarkOpaqueSeen(this) == IF this.state = "UNSEEN" THEN Seen(0, <<>>) ELSE this

MarkOpaque(this) == IF this.state = "UNSEEN" THEN Opaque ELSE this

\* update_global_this: router r copies its own node into its slot.
UpdateGlobalThis(g, r, own) ==
  [x \in Node |-> IF x = r THEN own
                  ELSE IF x \in Nbr[r] THEN MarkOpaque(g[x]) ELSE g[x]]

\* merge_in_graph: a whole graph received from a neighbour.
MergeInGraph(g, other) == [x \in Node |-> MergeSlot(g[x], other[x])]

\* merge_in_node: one advertisement of node x.  The neighbours it names are
\* marked whether or not the advertisement is accepted.
\* (mutant: neighbours are not marked)
MergeInNodeOnly(g, x, other) ==
  [y \in Node |-> IF y = x THEN MergeSlot(g[x], other) ELSE g[y]]

MergeInNode(g, x, other) ==
  [y \in Node |-> IF y = x THEN MergeSlot(g[x], other)
                  ELSE IF y \in Nbr[x] THEN MarkOpaque(g[y]) ELSE g[y]]
=============================================================================
