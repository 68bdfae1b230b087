------------------------------ MODULE Pathfind ------------------------------
(***************************************************************************)
(* pathfind.c: from the graph to the next hop of every node, by Dijkstra's *)
(* algorithm over the heap of MinHeap.  One action is one round of the     *)
(* while loop of dijkstra(): pop a node and relax its links.               *)
(*                                                                         *)
(* Nodes have ids 1 .. MAX_NODE_NUM.  graph[x] holds the links of a SEEN   *)
(* node in the order of its arrays, with metrics in whole numbers.         *)
(***************************************************************************)
EXTENDS MinHeap, Integers, SequencesExt, FiniteSetsExt

CONSTANTS
  MAX_NODE_NUM,
  Graphs(_),      \* the graphs to find paths in, of dtlsr (TRUE) and lsr (FALSE)
  Builds,         \* the binaries: TRUE for dtlsr, FALSE for lsr
  Source          \* the id of the node the program runs on

Id == 1 .. MAX_NODE_NUM
Infinity == 65565 * 16000     \* 65565.0 * 65565.0 in the source, beyond TLC's integers
NoNode == -1

\* A node has no two links to the same neighbour, and the program's own node
\* is SEEN: update_global_this comes before pathfind.
IsGraph(g) ==
  /\ g \in [Id -> [state : {"SEEN", "OPAQUE", "UNSEEN"},
                    links : Seq([to : Id, status : {"UP", "DOWN"}, metric : Nat])]]
  /\ g[Source].state = "SEEN"
  /\ \A x \in Id : /\ Len(g[x].links) <= MAX_NODE_NUM
                    /\ \A i, j \in DOMAIN g[x].links : g[x].links[i].to = g[x].links[j].to => i = j

ASSUME PathAssumption ==
  /\ MAX_NODE_NUM \in Nat
  /\ Source \in Id /\ Builds \subseteq BOOLEAN
  /\ \A b \in Builds : \A g \in Graphs(b) : IsGraph(g)

VARIABLES
  delay_tolerant,       \* the binary that runs
  graph,
  tent_dist, prev_id,   \* of each DijkstraNode
  heap

vars == <<delay_tolerant, graph, tent_dist, prev_id, heap>>

IsSeen(x) == graph[x].state = "SEEN"
Links(x) == IF IsSeen(x) THEN graph[x].links ELSE <<>>

\* heap_init: every SEEN node, in the order of the ids.
\* (mutant: OPAQUE and UNSEEN nodes as well)
HeapInitAll ==
  LET inserted[x \in 0 .. MAX_NODE_NUM] ==
        IF x = 0 THEN <<>> ELSE Insert(inserted[x - 1], tent_dist, x)
  IN  inserted[MAX_NODE_NUM]

HeapInit ==
  LET inserted[x \in 0 .. MAX_NODE_NUM] ==
        IF x = 0 THEN <<>>
        ELSE IF IsSeen(x) THEN Insert(inserted[x - 1], tent_dist, x) ELSE inserted[x - 1]
  IN  inserted[MAX_NODE_NUM]

\* dijkstra_init and heap_init.
Init ==
  /\ delay_tolerant \in Builds
  /\ graph \in Graphs(delay_tolerant)
  /\ tent_dist = [x \in Id |-> IF x = Source /\ IsSeen(x) THEN 0 ELSE Infinity]
  /\ prev_id = [x \in Id |-> NoNode]
  /\ heap = HeapInit

(***************************************************************************)
(* The for loop of dijkstra over the links of node x.  A lowered distance  *)
(* rebuilds the heap, whether the neighbour is still in it or not.  s is   *)
(* the state of the loop: [d, prev, heap].                                 *)
(***************************************************************************)
\* lsr leaves DOWN links out.
Usable(l) == delay_tolerant \/ l.status = "UP"

\* (mutant: the heap is not rebuilt)
RelaxLinkUnbuilt(x, l, s) ==
  LET alt == s.d[x] + l.metric
  IN  IF Usable(l) /\ alt < s.d[l.to]
      THEN [s EXCEPT !.d[l.to] = alt, !.prev[l.to] = x] ELSE s

RelaxLink(x, l, s) ==
  LET alt == s.d[x] + l.metric
      d == [s.d EXCEPT ![l.to] = alt]
  IN  IF Usable(l) /\ alt < s.d[l.to]
      THEN [d |-> d, prev |-> [s.prev EXCEPT ![l.to] = x], heap |-> BuildHeap(s.heap, d)]
      ELSE s

Relax(x, s) ==
  LET relaxed[k \in 0 .. Len(Links(x))] ==
        IF k = 0 THEN s ELSE RelaxLink(x, Links(x)[k], relaxed[k - 1])
  IN  relaxed[Len(Links(x))]

PopAndRelax ==
  /\ heap # <<>>
  /\ LET s == Relax(Head(heap), [d |-> tent_dist, prev |-> prev_id, heap |-> Popped(heap, tent_dist)])
     IN  tent_dist' = s.d /\ prev_id' = s.prev /\ heap' = s.heap
  /\ UNCHANGED <<delay_tolerant, graph>>

Next == PopAndRelax
Spec == Init /\ [][Next]_vars

Done == heap = <<>>

-----------------------------------------------------------------------------
(***************************************************************************)
(* get_next_hops.                                                          *)
(***************************************************************************)
Short(x) == ((x + 32768) % 65536) - 32768      \* conversion to short
UINT16_MAX == 65535

\* s_d_safe_add; the comparison of the short s with UINT16_MAX never holds.
SafeAdd(s, d) ==
  IF d >= UINT16_MAX THEN Short(UINT16_MAX)
  ELSE LET res == Short(Short(d) + s)
       IN  IF res < s THEN Short(UINT16_MAX) ELSE res

LinkTo(x, y) == Links(x)[CHOOSE k \in DOMAIN Links(x) : Links(x)[k].to = y]

\* One round of the loop of get_next_hop, at the node b.this.
BackStep(b) ==
  LET p == prev_id[b.this]  l == LinkTo(p, b.this)
  IN  IF p = NoNode THEN b
      ELSE [this |-> p, next |-> b.this, metric |-> SafeAdd(b.metric, l.metric), state |-> l.status]

\* get_next_hop, which ends after at most as many rounds as there are nodes.
\* (mutant: the source itself is returned)
BacktraceShort(x) ==
  LET back[k \in 0 .. MAX_NODE_NUM] ==
        IF k = 0 THEN [this |-> x, next |-> x, metric |-> 1, state |-> "DOWN"] ELSE BackStep(back[k - 1])
      b == back[MAX_NODE_NUM]
  IN  [next_hop |-> b.this, metric |-> b.metric, state |-> b.state]

Backtrace(x) ==
  LET back[k \in 0 .. MAX_NODE_NUM] ==
        IF k = 0 THEN [this |-> x, next |-> x, metric |-> 1, state |-> "DOWN"] ELSE BackStep(back[k - 1])
      b == back[MAX_NODE_NUM]
  IN  [next_hop |-> IF b.this = x THEN NoNode ELSE b.next, metric |-> b.metric, state |-> b.state]

NoHop == [next_hop |-> NoNode, metric |-> 0, state |-> "DOWN"]

NextHop(x) ==
  IF graph[x].state # "UNSEEN" /\ prev_id[x] # NoNode THEN Backtrace(x) ELSE NoHop

-----------------------------------------------------------------------------
(***************************************************************************)
(* Reference: the least cost of reaching y from x over at most k links.    *)
(***************************************************************************)
Nearer(a, b) == IF a < b THEN a ELSE b

\* The links in use that lead to y: link a[2] of node a[1].
LinksTo(y) ==
  {a \in Id \X (1 .. MAX_NODE_NUM) :
     /\ a[2] \in DOMAIN Links(a[1])
     /\ Usable(Links(a[1])[a[2]]) /\ Links(a[1])[a[2]].to = y}

Costs(x) ==
  LET cost[k \in 0 .. MAX_NODE_NUM] ==
        IF k = 0 THEN [y \in Id |-> IF y = x THEN 0 ELSE Infinity]
        ELSE [y \in Id |->
               Min({cost[k - 1][y]} \cup
                   {Nearer(cost[k - 1][a[1]] + Links(a[1])[a[2]].metric, Infinity) : a \in LinksTo(y)})]
  IN  cost

LeastCost(x) == Costs(x)[MAX_NODE_NUM]

-----------------------------------------------------------------------------
\* Type invariant.
TypeOK ==
  /\ tent_dist \in [Id -> 0 .. Infinity]
  /\ prev_id \in [Id -> Id \cup {NoNode}]
  /\ \A i \in DOMAIN heap : IsSeen(heap[i])
  /\ Cardinality(ToSet(heap)) = Len(heap)

(***************************************************************************)
(* Dijkstra's invariant.  The heap is in order and no node is in it twice; *)
(* a node out of the heap is no farther than the nodes in it and its links *)
(* are relaxed; a distance is the length of a path of no more links than   *)
(* nodes have been popped, or no less than that.                           *)
(***************************************************************************)
Settled(d, prev, h) ==
  /\ d \in [Id -> 0 .. Infinity] /\ d[Source] = 0
  /\ prev \in [Id -> Id \cup {NoNode}]
  /\ \A x \in Id \ {Source} : prev[x] = NoNode <=> d[x] = Infinity
  /\ h \in Seq(Id) /\ IsInjective(h) /\ Len(h) <= MAX_NODE_NUM
  /\ \A i \in DOMAIN h : IsSeen(h[i])
  /\ IsHeap(h, d, Len(h))
  /\ \A x \in Id \ ToSet(h) : IsSeen(x) =>
       /\ \A i \in DOMAIN h : d[x] <= d[h[i]]
       /\ \A k \in DOMAIN Links(x) : Usable(Links(x)[k]) => d[Links(x)[k].to] <= d[x] + Links(x)[k].metric
  /\ LET cost == Costs(Source)[MAX_NODE_NUM - Len(h)] IN \A x \in Id : cost[x] <= d[x]

(***************************************************************************)
(* A predecessor has been popped, and the distance is its distance and the *)
(* metric of its link.  No set of nodes has all its predecessors inside:   *)
(* get_next_hop, which follows them without counting, comes to an end.     *)
(***************************************************************************)
Tree(d, prev, h) ==
  /\ prev[Source] = NoNode
  /\ \A x \in Id : prev[x] # NoNode =>
       /\ prev[x] \notin ToSet(h)
       /\ \E k \in DOMAIN Links(prev[x]) :
            LET l == Links(prev[x])[k]
            IN  Usable(l) /\ l.to = x /\ d[x] = d[prev[x]] + l.metric
  /\ \A S \in SUBSET Id : S # {} => \E x \in S : prev[x] \notin S

Inductive ==
  /\ delay_tolerant \in BOOLEAN /\ IsGraph(graph)
  /\ Settled(tent_dist, prev_id, heap)
  /\ Tree(tent_dist, prev_id, heap)

(***************************************************************************)
(* dijkstra gives every node, OPAQUE ones included, its least cost, and    *)
(* leaves the unreachable ones without a predecessor.                      *)
(***************************************************************************)
ShortestPaths ==
  Done => LET best == LeastCost(Source)
          IN  /\ tent_dist = best
              /\ \A x \in Id \ {Source} : prev_id[x] = NoNode <=> best[x] = Infinity

(***************************************************************************)
(* A node that has been popped has its final distance: its links are       *)
(* relaxed only once, so minheap_pop must always yield the nearest node,   *)
(* although distances are lowered behind the heap's back (pathfind.c:148)  *)
(* and the heap is only put in order again by minheap_build_heap.          *)
(***************************************************************************)
PoppedAreFinal ==
  [][\A x \in Id \ ToSet(heap) : IsSeen(x) => tent_dist'[x] = tent_dist[x]]_vars

(***************************************************************************)
(* The next hop of x is a neighbour of the source that lies on a shortest  *)
(* path to x, reached over a link with the status reported, and the metric *)
(* is one more than the length of the path, if a short can hold that: the  *)
(* sum starts at 1 (pathfind.c:71).  check_pathfind.c:279-281 expects the  *)
(* length itself, 30, 88 and 98, where the code gives 31, 89 and 99.       *)
(***************************************************************************)
NextHopsLeadThere ==
  Done => LET best == LeastCost(Source)
          IN  \A x \in Id : NextHop(x) # NoHop =>
                LET h == NextHop(x)
                IN  /\ \E k \in DOMAIN Links(Source) : Links(Source)[k].to = h.next_hop
                    /\ LET l == LinkTo(Source, h.next_hop)
                       IN  /\ l.metric + LeastCost(h.next_hop)[x] = best[x]
                           /\ h.state = l.status
                    /\ 1 + best[x] <= 32767 => h.metric = 1 + best[x]

(***************************************************************************)
(* "Add short and double without risk of overflowing short"                *)
(* (pathfind.c:56), and check_pathfind.c:282 expects INT16_MAX: a metric   *)
(* that does not fit is the greatest short.  The leading 1 is as in        *)
(* NextHopsLeadThere.                                                      *)
(***************************************************************************)
MetricSaturates ==
  Done => \A x \in Id : NextHop(x) # NoHop =>
            NextHop(x).metric = Nearer(1 + tent_dist[x], 32767)
=============================================================================
