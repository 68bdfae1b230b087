------------------------ MODULE LinkStateFifo_proofs ------------------------
(***************************************************************************)
(* LinkStateFifo implements LinkState: in-order links that are cut and     *)
(* mended are a special case of a network that delays, reorders,           *)
(* duplicates and loses.  Proved for every topology and every value of the bounds.  The   *)
(* last part is about Routing, which extends LinkStateFifo.                *)
(***************************************************************************)
EXTENDS Routing, Extrema, FiniteSetTheorems, TLAPS

USE TopologyAssumption, MetricAssumption

-----------------------------------------------------------------------------
(***************************************************************************)
(* Lemmas about queues.                                                    *)
(***************************************************************************)
\* A queue that nothing was put into holds nothing.
LEMMA EmptyQueue == ToSet(<<>>) = {} /\ IsQueue(<<>>)
BY DEF ToSet, IsQueue

\* Every sequence is a queue.
LEMMA SequencesAreQueues ==
  ASSUME NEW S, NEW q \in Seq(S)
  PROVE  IsQueue(q)
<1>1. Len(q) \in Nat /\ DOMAIN q = 1 .. Len(q) /\ q \in [1 .. Len(q) -> S]
  OBVIOUS
<1>2. q \in [1 .. Len(q) -> ToSet(q)]
  BY <1>1 DEF ToSet
<1>3. q \in Seq(ToSet(q))
  BY <1>1, <1>2
<1> QED
  BY <1>3 DEF IsQueue

\* Append adds one datagram.
LEMMA QueueAppend ==
  ASSUME NEW q, IsQueue(q), NEW d
  PROVE  /\ ToSet(Append(q, d)) = ToSet(q) \cup {d}
         /\ IsQueue(Append(q, d))
<1> DEFINE S == ToSet(q) \cup {d}
<1>1. q \in Seq(S)
  BY DEF IsQueue, ToSet
<1>2. /\ Append(q, d) \in Seq(S) /\ DOMAIN Append(q, d) = 1 .. Len(q) + 1
      /\ \A i \in 1 .. Len(q) : Append(q, d)[i] = q[i]
      /\ Append(q, d)[Len(q) + 1] = d
      /\ Len(q) \in Nat /\ DOMAIN q = 1 .. Len(q)
  BY <1>1
<1>3. ToSet(Append(q, d)) = S
  BY <1>2 DEF ToSet
<1> QED
  BY <1>2, <1>3 DEF IsQueue

\* Tail removes nothing but, perhaps, the head.
LEMMA QueuePop ==
  ASSUME NEW q, IsQueue(q), q # <<>>
  PROVE  /\ Head(q) \in ToSet(q)
         /\ ToSet(q) = ToSet(Tail(q)) \cup {Head(q)}
         /\ IsQueue(Tail(q))
<1> DEFINE S == ToSet(q)
<1>1. q \in Seq(S) /\ Len(q) \in Nat \ {0}
  BY DEF IsQueue
<1>2. /\ Tail(q) \in Seq(S) /\ DOMAIN Tail(q) = 1 .. Len(q) - 1
      /\ \A i \in 1 .. Len(q) - 1 : Tail(q)[i] = q[i + 1]
      /\ Head(q) = q[1] /\ DOMAIN q = 1 .. Len(q)
  BY <1>1
<1>3. Head(q) \in ToSet(q)
  BY <1>1, <1>2 DEF ToSet
<1>4. ToSet(Tail(q)) \subseteq ToSet(q)
  BY <1>1, <1>2 DEF ToSet
<1>5. ASSUME NEW x \in ToSet(q) PROVE x \in ToSet(Tail(q)) \cup {Head(q)}
  <2>1. PICK i \in 1 .. Len(q) : x = q[i]
    BY <1>2 DEF ToSet
  <2>2. CASE i = 1
    BY <1>2, <2>1, <2>2
  <2>3. CASE i # 1
    <3>1. i - 1 \in 1 .. Len(q) - 1 /\ Tail(q)[i - 1] = q[i]
      BY <1>1, <1>2, <2>1, <2>3
    <3> QED
      BY <1>2, <2>1, <3>1 DEF ToSet
  <2> QED
    BY <2>2, <2>3
<1>6. ToSet(q) = ToSet(Tail(q)) \cup {Head(q)}
  BY <1>3, <1>4, <1>5
<1>7. IsQueue(Tail(q))
  BY <1>2, SequencesAreQueues
<1> QED
  BY <1>3, <1>6, <1>7

\* sendto() on some links: what each queue holds afterwards.
LEMMA PostQueues ==
  ASSUME NEW q, DOMAIN q = Edge, \A e \in Edge : IsQueue(q[e]), NEW links, NEW d
  PROVE  /\ DOMAIN Post(q, links, d) = Edge
         /\ \A e \in Edge : /\ IsQueue(Post(q, links, d)[e])
                            /\ ToSet(Post(q, links, d)[e]) =
                                 ToSet(q[e]) \cup (IF e \in links THEN {d} ELSE {})
BY QueueAppend DEF Post

\* recvfrom() on one link: what each queue holds afterwards.
LEMMA PopQueues ==
  ASSUME NEW q, DOMAIN q = Edge, \A e \in Edge : IsQueue(q[e]),
         NEW l \in Edge, q[l] # <<>>
  PROVE  /\ DOMAIN Pop(q, l) = Edge
         /\ Head(q[l]) \in ToSet(q[l])
         /\ \A e \in Edge : /\ IsQueue(Pop(q, l)[e])
                            /\ ToSet(Pop(q, l)[e]) \subseteq ToSet(q[e])
                            /\ e # l => Pop(q, l)[e] = q[e]
         /\ ToSet(q[l]) = ToSet(Pop(q, l)[l]) \cup {Head(q[l])}
BY QueuePop DEF Pop

\* A link of the network joins a router and a neighbour of it that is a router.
LEMMA Edges ==
  ASSUME NEW e \in Edge
  PROVE  e[1] \in Router /\ e[2] \in Router /\ e[2] \in Nbr[e[1]] /\ e = <<e[1], e[2]>>
BY DEF Edge
-----------------------------------------------------------------------------
(***************************************************************************)
(* Lemmas about the operators of LSGraph.                                  *)
(***************************************************************************)
\* An advertisement made now fits into the slot of its router.
LEMMA OwnSlots ==
  ASSUME clock \in Nat, NEW r \in Router, NEW st, NEW own \in Own(r, st)
  PROVE  own \in SeenSlot(r)
BY DEF Own, Adverts, Seen, SeenSlot

\* update_global_this, merge_in_node and merge_in_graph turn graphs into graphs.
LEMMA GraphsStayGraphs ==
  ASSUME NEW g, IsGraph(g)
  PROVE  /\ \A r \in Node : \A own \in SeenSlot(r) : IsGraph(UpdateGlobalThis(g, r, own))
         /\ \A x \in Node : \A slot \in SeenSlot(x) : IsGraph(MergeInNode(g, x, slot))
         /\ \A h : IsGraph(h) => IsGraph(MergeInGraph(g, h))
<1>1. \A r \in Node : \A own \in SeenSlot(r) : IsGraph(UpdateGlobalThis(g, r, own))
  BY DEF UpdateGlobalThis, MarkOpaque, IsGraph, Slot, Unseen
<1>2. \A x \in Node : \A slot \in SeenSlot(x) : IsGraph(MergeInNode(g, x, slot))
  BY DEF MergeInNode, MergeSlot, MarkOpaque, IsGraph, Slot, Unseen
<1>3. \A h : IsGraph(h) => IsGraph(MergeInGraph(g, h))
  BY DEF MergeInGraph, MergeSlot, IsGraph
<1> QED
  BY <1>1, <1>2, <1>3

\* The empty graph is a graph.
LEMMA EmptyGraphIsGraph == IsGraph(EmptyGraph)
BY DEF EmptyGraph, IsGraph, Slot

-----------------------------------------------------------------------------
(***************************************************************************)
(* The type invariant.                                                     *)
(***************************************************************************)
\* An empty link carries nothing ill-typed.
LEMMA TypeInit == Init => TypeOK
<1> SUFFICES ASSUME Init PROVE TypeOK
  OBVIOUS
<1>1. \A e \in Edge : lsaQ[e] = <<>> /\ netQ[e] = <<>> /\ reqQ[e] = <<>>
  BY DEF Init
<1>2. DOMAIN lsaQ = Edge /\ DOMAIN netQ = Edge /\ DOMAIN reqQ = Edge
  BY DEF Init
<1>3. \A r \in Router : status[r] \in [Nbr[r] -> LinkStatus]
  BY DEF Init, AllDown, LinkStatus
<1> QED
  BY <1>1, <1>2, <1>3, EmptyQueue, EmptyGraphIsGraph DEF Init, TypeOK

\* Flooding a well-formed slot leaves well-formed queues.
LEMMA FloodTypes ==
  ASSUME NEW q, DOMAIN q = Edge, \A e \in Edge : IsQueue(q[e]),
         \A e \in Edge : \A m \in ToSet(q[e]) : m.origin \in Router /\ m.slot \in SeenSlot(m.origin),
         NEW r, NEW x \in Router, NEW slot \in SeenSlot(x), NEW except,
         Flood(q, r, x, slot, except)
  PROVE  /\ DOMAIN lsaQ' = Edge
         /\ \A e \in Edge :
              /\ IsQueue(lsaQ'[e])
              /\ \A m \in ToSet(lsaQ'[e]) : m.origin \in Router /\ m.slot \in SeenSlot(m.origin)
<1> DEFINE d == [origin |-> x, slot |-> slot]
<1>1. PICK links : lsaQ' = Post(q, links, d)
  BY DEF Flood
<1>2. d.origin = x /\ d.slot = slot
  OBVIOUS
<1> HIDE DEF d
<1> QED
  BY <1>1, <1>2, PostQueues

\* A change of a link sends and stores well-formed slots.
LEMMA LinkChangeTypes ==
  ASSUME TypeOK, NEW r \in Router, NEW n \in Nbr[r], NEW s \in LinkStatus,
         LinkChange(r, n, s), r \in alive,
         armed' \in [Router -> SUBSET Node], \A q \in Router \ {r} : armed'[q] = armed[q]
  PROVE  TypeOK'
<1> DEFINE st == [status[r] EXCEPT ![n] = s]
<1>1. clock \in Nat /\ st \in [Nbr[r] -> LinkStatus] /\ r \in Node
  BY DEF TypeOK, TopologyAssumption
<1>2. /\ status' \in [Router -> UNION {[Nbr[q] -> LinkStatus] : q \in Router}]
      /\ \A q \in Router : status'[q] \in [Nbr[q] -> LinkStatus]
      /\ \A q \in Router \ {r} : status'[q] = status[q]
  BY <1>1 DEF TypeOK, LinkChange
<1>3. PICK sent \in Own(r, st) : Flood(lsaQ, r, r, sent, {})
  BY DEF LinkChange
<1>4. PICK own \in Own(r, st) : graph' = [graph EXCEPT ![r] = UpdateGlobalThis(graph[r], r, own)]
  BY DEF LinkChange
<1> HIDE DEF st
<1>5. sent \in SeenSlot(r) /\ own \in SeenSlot(r)
  BY <1>1, <1>3, <1>4, OwnSlots
<1>6. DOMAIN graph' = Router /\ \A q \in Router : IsGraph(graph'[q])
  BY <1>1, <1>4, <1>5, GraphsStayGraphs DEF TypeOK
<1>7. /\ DOMAIN lsaQ' = Edge
      /\ \A e \in Edge :
           /\ IsQueue(lsaQ'[e])
           /\ \A m \in ToSet(lsaQ'[e]) : m.origin \in Router /\ m.slot \in SeenSlot(m.origin)
  BY <1>3, <1>5, FloodTypes DEF TypeOK
<1>8. /\ UNCHANGED <<clock, alive, netQ, reqQ, cut>>
      /\ \A q \in Router \ alive : q # r
  BY DEF LinkChange
<1> QED
  BY <1>2, <1>6, <1>7, <1>8 DEF TypeOK, AllDown

\* Every action keeps every variable in its type.
LEMMA TypeNext == TypeOK /\ [Next]_vars => TypeOK'
<1> SUFFICES ASSUME TypeOK, [Next]_vars PROVE TypeOK'
  OBVIOUS
<1>0. /\ DOMAIN lsaQ = Edge /\ DOMAIN netQ = Edge /\ DOMAIN reqQ = Edge
      /\ \A l \in Edge : IsQueue(lsaQ[l]) /\ IsQueue(netQ[l]) /\ IsQueue(reqQ[l])
      /\ \A l \in Edge : ToSet(reqQ[l]) \subseteq {"request"}
  BY DEF TypeOK
<1>1. CASE UNCHANGED vars
  BY <1>1 DEF vars, TypeOK, AllDown
<1>2. CASE Tick
  BY <1>2 DEF Tick, queues, TypeOK, AllDown
<1>3. ASSUME NEW r \in Router, Boot(r) PROVE TypeOK'
  <2>1. r \in Node /\ clock \in Nat
    BY DEF TypeOK, TopologyAssumption
  <2>2. PICK own \in Own(r, AllDown(r)) :
          graph' = [graph EXCEPT ![r] = UpdateGlobalThis(EmptyGraph, r, own)]
    BY <1>3 DEF Boot
  <2>3. DOMAIN graph' = Router /\ \A q \in Router : IsGraph(graph'[q])
    BY <2>1, <2>2, OwnSlots, EmptyGraphIsGraph, GraphsStayGraphs DEF TypeOK
  <2>4. /\ DOMAIN reqQ' = Edge
        /\ \A e \in Edge : IsQueue(reqQ'[e]) /\ ToSet(reqQ'[e]) \subseteq {"request"}
    <3>1. reqQ' = Post(reqQ, Links(r, {}), "request")
      BY <1>3 DEF Boot
    <3> QED
      BY <1>0, <3>1, PostQueues
  <2> QED
    BY <1>3, <2>3, <2>4 DEF Boot, TypeOK, AllDown
<1>4. ASSUME NEW r \in Router, NEW n \in Nbr[r], ReceiveHeartbeat(r, n) PROVE TypeOK'
  <2>1. n \in Node /\ r \in Node
    BY DEF TopologyAssumption
  <2>2. /\ armed' \in [Router -> SUBSET Node] /\ \A q \in Router \ {r} : armed'[q] = armed[q]
        /\ LinkChange(r, n, "UP") /\ r \in alive
    BY <1>4, <2>1 DEF ReceiveHeartbeat, TypeOK
  <2> QED
    BY <2>2, LinkChangeTypes DEF LinkStatus
<1>5. ASSUME NEW r \in Router, NEW n \in Nbr[r], HeartbeatTimeout(r, n) PROVE TypeOK'
  <2>1. /\ armed' \in [Router -> SUBSET Node] /\ \A q \in Router \ {r} : armed'[q] = armed[q]
        /\ LinkChange(r, n, "DOWN") /\ r \in alive
    BY <1>5 DEF HeartbeatTimeout, TypeOK
  <2> QED
    BY <2>1, LinkChangeTypes DEF LinkStatus
<1>6. ASSUME NEW r \in Router, LsaTimer(r) PROVE TypeOK'
  <2>1. PICK own \in Own(r, status[r]) : Flood(lsaQ, r, r, own, {})
    BY <1>6 DEF LsaTimer
  <2>2. own \in SeenSlot(r)
    BY <2>1, OwnSlots DEF TypeOK
  <2>3. /\ DOMAIN lsaQ' = Edge
        /\ \A e \in Edge :
             /\ IsQueue(lsaQ'[e])
             /\ \A m \in ToSet(lsaQ'[e]) : m.origin \in Router /\ m.slot \in SeenSlot(m.origin)
    BY <2>1, <2>2, FloodTypes DEF TypeOK
  <2> QED
    BY <1>6, <2>3 DEF LsaTimer, TypeOK, AllDown
<1>7. ASSUME NEW e \in Edge, ReceiveRouterLSA(e) PROVE TypeOK'
  <2> DEFINE r == e[2]  m == Head(lsaQ[e])  q == Pop(lsaQ, e)
  <2>1. /\ DOMAIN q = Edge /\ m \in ToSet(lsaQ[e])
        /\ \A l \in Edge : IsQueue(q[l]) /\ ToSet(q[l]) \subseteq ToSet(lsaQ[l])
    BY <1>7, PopQueues DEF ReceiveRouterLSA, TypeOK
  <2>2. m.origin \in Router /\ m.origin \in Node /\ m.slot \in SeenSlot(m.origin) /\ r \in Router
    BY <2>1, Edges DEF TypeOK, TopologyAssumption
  <2>3. \A l \in Edge : \A k \in ToSet(q[l]) : k.origin \in Router /\ k.slot \in SeenSlot(k.origin)
    BY <2>1 DEF TypeOK
  <2>4. /\ r \in alive /\ graph' = [graph EXCEPT ![r] = MergeInNode(graph[r], m.origin, m.slot)]
        /\ \/ Flood(q, r, m.origin, m.slot, {e[1]})
           \/ lsaQ' = q
        /\ UNCHANGED <<clock, alive, status, armed, netQ, reqQ, cut>>
    BY <1>7 DEF ReceiveRouterLSA
  <2> HIDE DEF r, m, q
  <2>5. DOMAIN graph' = Router /\ \A k \in Router : IsGraph(graph'[k])
    BY <2>2, <2>4, GraphsStayGraphs DEF TypeOK
  <2>6. /\ DOMAIN lsaQ' = Edge
        /\ \A l \in Edge :
             /\ IsQueue(lsaQ'[l])
             /\ \A k \in ToSet(lsaQ'[l]) : k.origin \in Router /\ k.slot \in SeenSlot(k.origin)
    <3>1. CASE lsaQ' = q
      BY <2>1, <2>3, <3>1
    <3>2. CASE Flood(q, r, m.origin, m.slot, {e[1]})
      BY <2>1, <2>2, <2>3, <3>2, FloodTypes
    <3> QED
      BY <2>4, <3>1, <3>2
  <2> QED
    BY <2>4, <2>5, <2>6 DEF TypeOK, AllDown
<1>8. ASSUME NEW e \in Edge, ReceiveNetworkLSA(e) PROVE TypeOK'
  <2>1. /\ DOMAIN netQ' = Edge /\ Head(netQ[e]) \in ToSet(netQ[e])
        /\ \A l \in Edge : IsQueue(netQ'[l]) /\ ToSet(netQ'[l]) \subseteq ToSet(netQ[l])
    BY <1>8, PopQueues DEF ReceiveNetworkLSA, TypeOK
  <2>2. graph' = [graph EXCEPT ![e[2]] = MergeInGraph(graph[e[2]], Head(netQ[e]))]
    BY <1>8 DEF ReceiveNetworkLSA
  <2>3. IsGraph(Head(netQ[e])) /\ e[2] \in Router
    BY <2>1, Edges DEF TypeOK
  <2>4. DOMAIN graph' = Router /\ \A k \in Router : IsGraph(graph'[k])
    BY <2>2, <2>3, GraphsStayGraphs DEF TypeOK
  <2> QED
    BY <1>8, <2>1, <2>4 DEF ReceiveNetworkLSA, TypeOK, AllDown
<1>9. ASSUME NEW e \in Edge, ReceiveRequest(e) PROVE TypeOK'
  <2>1. /\ DOMAIN reqQ' = Edge
        /\ \A l \in Edge : IsQueue(reqQ'[l]) /\ ToSet(reqQ'[l]) \subseteq ToSet(reqQ[l])
    BY <1>9, PopQueues DEF ReceiveRequest, TypeOK
  <2>2. /\ DOMAIN netQ' = Edge
        /\ \A l \in Edge : /\ IsQueue(netQ'[l])
                           /\ ToSet(netQ'[l]) \subseteq ToSet(netQ[l]) \cup {graph[e[2]]}
    <3>1. \E links : netQ' = Post(netQ, links, graph[e[2]])
      BY <1>9 DEF ReceiveRequest
    <3> QED
      BY <1>0, <3>1, PostQueues
  <2>3. IsGraph(graph[e[2]])
    BY Edges DEF TypeOK
  <2>4. UNCHANGED <<clock, alive, status, armed, graph, lsaQ, cut>>
    BY <1>9 DEF ReceiveRequest
  <2> QED
    BY <2>1, <2>2, <2>3, <2>4 DEF TypeOK, AllDown
<1>10. ASSUME NEW e \in Edge, PortClosed(e) PROVE TypeOK'
  <2>1. \/ /\ DOMAIN lsaQ' = Edge /\ UNCHANGED <<netQ, reqQ>>
           /\ \A l \in Edge : IsQueue(lsaQ'[l]) /\ ToSet(lsaQ'[l]) \subseteq ToSet(lsaQ[l])
        \/ /\ DOMAIN reqQ' = Edge /\ UNCHANGED <<netQ, lsaQ>>
           /\ \A l \in Edge : IsQueue(reqQ'[l]) /\ ToSet(reqQ'[l]) \subseteq ToSet(reqQ[l])
    <3>1. \/ lsaQ[e] # <<>> /\ lsaQ' = Pop(lsaQ, e) /\ UNCHANGED <<netQ, reqQ>>
          \/ reqQ[e] # <<>> /\ reqQ' = Pop(reqQ, e) /\ UNCHANGED <<netQ, lsaQ>>
      BY <1>10 DEF PortClosed
    <3>2. CASE lsaQ[e] # <<>> /\ lsaQ' = Pop(lsaQ, e) /\ UNCHANGED <<netQ, reqQ>>
      BY <1>0, <3>2, PopQueues
    <3>3. CASE reqQ[e] # <<>> /\ reqQ' = Pop(reqQ, e) /\ UNCHANGED <<netQ, lsaQ>>
      BY <1>0, <3>3, PopQueues
    <3> QED
      BY <3>1, <3>2, <3>3
  <2>2. UNCHANGED <<clock, alive, status, armed, graph, cut>>
    BY <1>10 DEF PortClosed
  <2> QED
    BY <2>1, <2>2 DEF TypeOK, AllDown
<1>11. ASSUME NEW l \in Fragile, UpdateLink(l) PROVE TypeOK'
  BY <1>11 DEF UpdateLink, queues, TypeOK, AllDown
<1> QED
  BY <1>1, <1>2, <1>3, <1>4, <1>5, <1>6, <1>7, <1>8, <1>9, <1>10, <1>11 DEF Next, Change, Deliver

-----------------------------------------------------------------------------
(***************************************************************************)
(* The datagrams in flight: what LinkState's sets hold under the           *)
(* refinement mapping, before and after a step.                            *)
(***************************************************************************)
OnWire(e, d) == [src |-> e[1], dst |-> e[2], origin |-> d.origin, slot |-> d.slot]
Carried(e, g) == [dst |-> e[2], graph |-> g]
Asked(e) == [src |-> e[1], dst |-> e[2]]

\* A datagram is in flight exactly when it is in the queue of its link.
LEMMA InFlightWhere ==
  /\ \A m : m \in InFlight <=> \E e \in Edge : \E d \in ToSet(lsaQ[e]) : m = OnWire(e, d)
  /\ \A m : m \in Graphs <=> \E e \in Edge : \E g \in ToSet(netQ[e]) : m = Carried(e, g)
  /\ \A m : m \in Requests <=> \E e \in Edge : reqQ[e] # <<>> /\ m = Asked(e)
BY DEF InFlight, Graphs, Requests, OnWire, Carried, Asked

\* The same after a step.
LEMMA InFlightWhereNext ==
  /\ \A m : m \in InFlight' <=> \E e \in Edge : \E d \in ToSet(lsaQ'[e]) : m = OnWire(e, d)
  /\ \A m : m \in Graphs' <=> \E e \in Edge : \E g \in ToSet(netQ'[e]) : m = Carried(e, g)
  /\ \A m : m \in Requests' <=> \E e \in Edge : reqQ'[e] # <<>> /\ m = Asked(e)
BY DEF InFlight, Graphs, Requests, OnWire, Carried, Asked

\* What is in flight does not change with anything but its queues.
LEMMA QueuesUnchanged ==
  /\ UNCHANGED lsaQ => UNCHANGED InFlight
  /\ UNCHANGED netQ => UNCHANGED Graphs
  /\ UNCHANGED reqQ => UNCHANGED Requests
BY DEF InFlight, Graphs, Requests

\* LinkState's copies of a slot are those a flood puts on the links.
LEMMA CopiesOnLinks ==
  ASSUME NEW r \in Router, NEW x, NEW slot, NEW except, NEW e \in Links(r, except)
  PROVE  OnWire(e, [origin |-> x, slot |-> slot]) \in LS!Copies(r, x, slot, except)
<1>1. e[1] = r /\ e[2] \in (Nbr[r] \cap Router) \ except
  BY DEF Links, Edge
<1> QED
  BY <1>1 DEF OnWire, LS!Copies, LS!RouterLSA

\* send_router_lsa_except sends what LinkState's says, and what is lost is not sent.
LEMMA FloodEmits ==
  ASSUME DOMAIN lsaQ = Edge, \A e \in Edge : IsQueue(lsaQ[e]),
         NEW q, DOMAIN q = Edge,
         \A e \in Edge : IsQueue(q[e]) /\ ToSet(q[e]) \subseteq ToSet(lsaQ[e]),
         NEW r \in Router, NEW x, NEW slot, NEW except, Flood(q, r, x, slot, except)
  PROVE  InFlight' \in LS!Emit(InFlight, LS!Copies(r, x, slot, except), 0)
<1> DEFINE d == [origin |-> x, slot |-> slot]
<1>1. PICK links \in SUBSET Links(r, except) : lsaQ' = Post(q, links, d)
  BY DEF Flood
<1>2. ASSUME NEW m \in InFlight'
      PROVE  m \in InFlight \cup LS!Copies(r, x, slot, except)
  <2>0. PICK e \in Edge : \E k \in ToSet(lsaQ'[e]) : m = OnWire(e, k)
    BY InFlightWhereNext
  <2>1. PICK k \in ToSet(lsaQ'[e]) : m = OnWire(e, k)
    BY <2>0
  <2>2. k \in ToSet(q[e]) \/ (e \in links /\ k = d)
    <3> HIDE DEF d
    <3> QED
      BY <1>1, <2>1, PostQueues
  <2>3. CASE k \in ToSet(q[e])
    BY <2>1, <2>3, InFlightWhere
  <2>4. CASE e \in links /\ k = d
    BY <1>1, <2>1, <2>4, CopiesOnLinks
  <2> QED
    BY <2>2, <2>3, <2>4
<1> QED
  BY <1>2 DEF LS!Emit

\* A datagram taken off a queue is one in flight, and nothing is added.
LEMMA PopDelivers ==
  ASSUME TypeOK, NEW e \in Edge
  PROVE  /\ lsaQ[e] # <<>> =>
              /\ OnWire(e, Head(lsaQ[e])) \in InFlight
              /\ lsaQ' = Pop(lsaQ, e) => InFlight' \in LS!Emit(InFlight, {}, 0)
         /\ netQ[e] # <<>> =>
              /\ Carried(e, Head(netQ[e])) \in Graphs
              /\ netQ' = Pop(netQ, e) => Graphs' \in LS!Emit(Graphs, {}, 0)
         /\ reqQ[e] # <<>> =>
              /\ Asked(e) \in Requests
              /\ reqQ' = Pop(reqQ, e) => Requests' \in LS!Emit(Requests, {}, 0)
<1>0. /\ DOMAIN lsaQ = Edge /\ DOMAIN netQ = Edge /\ DOMAIN reqQ = Edge
      /\ \A l \in Edge : IsQueue(lsaQ[l]) /\ IsQueue(netQ[l]) /\ IsQueue(reqQ[l])
  BY DEF TypeOK
<1>1. ASSUME lsaQ[e] # <<>>
      PROVE  /\ OnWire(e, Head(lsaQ[e])) \in InFlight
             /\ lsaQ' = Pop(lsaQ, e) => InFlight' \in LS!Emit(InFlight, {}, 0)
  <2>1. /\ Head(lsaQ[e]) \in ToSet(lsaQ[e])
        /\ \A l \in Edge : ToSet(Pop(lsaQ, e)[l]) \subseteq ToSet(lsaQ[l])
    BY <1>0, <1>1, PopQueues
  <2> QED
    BY <2>1, InFlightWhere, InFlightWhereNext DEF LS!Emit
<1>2. ASSUME netQ[e] # <<>>
      PROVE  /\ Carried(e, Head(netQ[e])) \in Graphs
             /\ netQ' = Pop(netQ, e) => Graphs' \in LS!Emit(Graphs, {}, 0)
  <2>1. /\ Head(netQ[e]) \in ToSet(netQ[e])
        /\ \A l \in Edge : ToSet(Pop(netQ, e)[l]) \subseteq ToSet(netQ[l])
    BY <1>0, <1>2, PopQueues
  <2> QED
    BY <2>1, InFlightWhere, InFlightWhereNext DEF LS!Emit
<1>3. ASSUME reqQ[e] # <<>>
      PROVE  /\ Asked(e) \in Requests
             /\ reqQ' = Pop(reqQ, e) => Requests' \in LS!Emit(Requests, {}, 0)
  <2>1. \A l \in Edge : l # e => Pop(reqQ, e)[l] = reqQ[l]
    BY <1>0, <1>3, PopQueues
  <2> QED
    BY <1>3, <2>1, InFlightWhere, InFlightWhereNext DEF LS!Emit
<1> QED
  BY <1>1, <1>2, <1>3

-----------------------------------------------------------------------------
(***************************************************************************)
(* Step simulation.                                                        *)
(***************************************************************************)
\* LinkState says the same of slots and graphs as LinkStateFifo does.
LEMMA SameOperators ==
  /\ \A r, st : LS!Adverts(r, st) = Adverts(r, st)
  /\ \A t, l : LS!Seen(t, l) = Seen(t, l)
  /\ \A r : LS!AllDown(r) = AllDown(r)
  /\ LS!EmptyGraph = EmptyGraph
  /\ \A this, other : LS!Supersedes(other, this) <=> Supersedes(other, this)
  /\ \A g, r, own : LS!UpdateGlobalThis(g, r, own) = UpdateGlobalThis(g, r, own)
  /\ \A g, x, other : LS!MergeInNode(g, x, other) = MergeInNode(g, x, other)
  /\ \A g, other : LS!MergeInGraph(g, other) = MergeInGraph(g, other)
<1>1. \A r, st : LS!Adverts(r, st) = Adverts(r, st)
  BY DEF LS!Adverts, Adverts, LS!Link, Link, LS!LinkStatus, LinkStatus, LS!Metric, Metric,
         LS!UpMetric, UpMetric, LS!MetricOf, MetricOf
<1>2. \A t, l : LS!Seen(t, l) = Seen(t, l)
  BY DEF LS!Seen, Seen
<1>3. \A r : LS!AllDown(r) = AllDown(r)
  BY DEF LS!AllDown, AllDown
<1>4. LS!EmptyGraph = EmptyGraph
  BY DEF LS!EmptyGraph, EmptyGraph, LS!Unseen, Unseen
<1>5. \A this, other : LS!Supersedes(other, this) <=> Supersedes(other, this)
  BY DEF LS!Supersedes, Supersedes, LS!NodesEq, NodesEq
<1>6. \A this : LS!MarkOpaque(this) = MarkOpaque(this)
  BY DEF LS!MarkOpaque, MarkOpaque, LS!Opaque, Opaque
<1>7. \A this, other : LS!MergeSlot(this, other) = MergeSlot(this, other)
  BY <1>5 DEF LS!MergeSlot, MergeSlot
<1>8. \A g, r, own : LS!UpdateGlobalThis(g, r, own) = UpdateGlobalThis(g, r, own)
  BY <1>6 DEF LS!UpdateGlobalThis, UpdateGlobalThis
<1>9. \A g, x, other : LS!MergeInNode(g, x, other) = MergeInNode(g, x, other)
  BY <1>6, <1>7 DEF LS!MergeInNode, MergeInNode
<1>10. \A g, other : LS!MergeInGraph(g, other) = MergeInGraph(g, other)
  BY <1>7 DEF LS!MergeInGraph, MergeInGraph
<1> QED
  BY <1>1, <1>2, <1>3, <1>4, <1>5, <1>8, <1>9, <1>10

\* What a router says of itself now is what LinkState's would.
LEMMA OwnAdverts ==
  ASSUME NEW r, NEW st, NEW own \in Own(r, st)
  PROVE  \E l \in LS!Adverts(r, st) : own = LS!Seen(clock, l)
BY SameOperators DEF Own

\* Sending the own node is LinkState's Advertise.
LEMMA AdvertiseSimulated ==
  ASSUME TypeOK, NEW r \in Router, NEW st,
         \E own \in Own(r, st) : Flood(lsaQ, r, r, own, {})
  PROVE  LS!Advertise(r, st)
<1>1. PICK own \in Own(r, st) : Flood(lsaQ, r, r, own, {})
  OBVIOUS
<1>2. InFlight' \in LS!Emit(InFlight, LS!Copies(r, r, own, {}), 0)
  BY <1>1, FloodEmits DEF TypeOK
<1>3. PICK l \in LS!Adverts(r, st) : own = LS!Seen(clock, l)
  BY OwnAdverts
<1> QED
  BY <1>2, <1>3 DEF LS!Advertise

\* Sending and storing what a changed link makes of the own node is LinkState's.
LEMMA LinkChangeSimulated ==
  ASSUME TypeOK, NEW r \in Router, NEW n, NEW s, LinkChange(r, n, s)
  PROVE  LS!LinkChange(r, n, s)
<1> DEFINE st == [status[r] EXCEPT ![n] = s]
<1>1. /\ status' = [status EXCEPT ![r] = st]
      /\ \E own \in Own(r, st) : Flood(lsaQ, r, r, own, {})
      /\ \E own \in Own(r, st) : graph' = [graph EXCEPT ![r] = UpdateGlobalThis(graph[r], r, own)]
  BY DEF LinkChange
<1> HIDE DEF st
<1>2. LS!Advertise(r, st)
  BY <1>1, AdvertiseSimulated
<1>3. LS!Restamp(r, st)
  <2>1. PICK own \in Own(r, st) : graph' = [graph EXCEPT ![r] = UpdateGlobalThis(graph[r], r, own)]
    BY <1>1
  <2>2. PICK l \in LS!Adverts(r, st) : own = LS!Seen(clock, l)
    BY OwnAdverts
  <2>3. UpdateGlobalThis(graph[r], r, own) = LS!UpdateGlobalThis(graph[r], r, LS!Seen(clock, l))
    BY <2>2, SameOperators
  <2> QED
    BY <2>1, <2>3 DEF LS!Restamp
<1> QED
  BY <1>1, <1>2, <1>3 DEF LS!LinkChange, st

\* Empty links carry no datagrams.
LEMMA InitSimulated == Init => LS!Init
<1> SUFFICES ASSUME Init PROVE LS!Init
  OBVIOUS
<1>1. \A e \in Edge : lsaQ[e] = <<>> /\ netQ[e] = <<>> /\ reqQ[e] = <<>>
  BY DEF Init
<1>2. InFlight = {} /\ Graphs = {} /\ Requests = {}
  BY <1>1, EmptyQueue, InFlightWhere
<1> QED
  BY <1>2, SameOperators DEF Init, LS!Init

\* Every step is a step of LinkState, or changes nothing LinkState sees.
LEMMA NextSimulated == TypeOK /\ [Next]_vars => [LS!Next]_(LS!vars)
<1> SUFFICES ASSUME TypeOK, [Next]_vars PROVE LS!Next \/ UNCHANGED LS!vars
  OBVIOUS
<1>1. CASE UNCHANGED vars
  BY <1>1, QueuesUnchanged DEF vars, LS!vars
<1>2. CASE Tick
  <2>1. LS!Tick
    BY <1>2, QueuesUnchanged DEF Tick, queues, LS!Tick, LS!memory, LS!network
  <2> QED
    BY <2>1 DEF LS!Next
<1>3. ASSUME NEW r \in Router, Boot(r) PROVE LS!Next
  <2>1. status' = [status EXCEPT ![r] = LS!AllDown(r)] /\ armed' = [armed EXCEPT ![r] = {}]
    <3>1. status[r] = AllDown(r) /\ armed[r] = {} /\ UNCHANGED <<status, armed>>
      BY <1>3 DEF Boot, TypeOK
    <3>2. status = [status EXCEPT ![r] = status[r]] /\ armed = [armed EXCEPT ![r] = armed[r]]
      BY DEF TypeOK
    <3>3. LS!AllDown(r) = AllDown(r)
      BY SameOperators
    <3> QED
      BY <3>1, <3>2, <3>3
  <2>2. \E l \in LS!Adverts(r, LS!AllDown(r)) :
          graph' = [graph EXCEPT ![r] = LS!UpdateGlobalThis(LS!EmptyGraph, r, LS!Seen(clock, l))]
    <3>1. PICK own \in Own(r, AllDown(r)) :
            graph' = [graph EXCEPT ![r] = UpdateGlobalThis(EmptyGraph, r, own)]
      BY <1>3 DEF Boot
    <3>2. PICK l \in LS!Adverts(r, AllDown(r)) : own = LS!Seen(clock, l)
      BY OwnAdverts
    <3>3. UpdateGlobalThis(EmptyGraph, r, own) =
            LS!UpdateGlobalThis(LS!EmptyGraph, r, LS!Seen(clock, l))
      BY <3>2, SameOperators
    <3>4. LS!AllDown(r) = AllDown(r)
      BY SameOperators
    <3> QED
      BY <3>1, <3>2, <3>3, <3>4
  <2>3. Requests' \in LS!Emit(Requests, {LS!Request(r, d) : d \in Nbr[r] \cap Router}, 0)
    <3>1. reqQ' = Post(reqQ, Links(r, {}), "request")
      BY <1>3 DEF Boot
    <3>2. ASSUME NEW m \in Requests'
          PROVE  m \in Requests \cup {LS!Request(r, d) : d \in Nbr[r] \cap Router}
      <4>1. PICK e \in Edge : reqQ'[e] # <<>> /\ m = Asked(e)
        BY InFlightWhereNext
      <4>2. reqQ[e] # <<>> \/ e \in Links(r, {})
        BY <3>1, <4>1 DEF Post
      <4>3. CASE reqQ[e] # <<>>
        BY <4>1, <4>3, InFlightWhere
      <4>4. CASE e \in Links(r, {})
        <5>1. e[1] = r /\ e[2] \in Nbr[r] \cap Router
          BY <4>4 DEF Links, Edge
        <5> QED
          BY <4>1, <5>1 DEF Asked, LS!Request
      <4> QED
        BY <4>2, <4>3, <4>4
    <3> QED
      BY <3>2 DEF LS!Emit
  <2>4. LS!Boot(r)
    BY <1>3, <2>1, <2>2, <2>3, QueuesUnchanged DEF Boot, LS!Boot
  <2> QED
    BY <2>4 DEF LS!Next
<1>4. ASSUME NEW r \in Router, NEW n \in Nbr[r], ReceiveHeartbeat(r, n) PROVE LS!Next
  <2>1. LS!LinkChange(r, n, "UP")
    BY <1>4, LinkChangeSimulated DEF ReceiveHeartbeat
  <2>2. LS!ReceiveHeartbeat(r, n)
    BY <1>4, <2>1, QueuesUnchanged DEF ReceiveHeartbeat, LinkChange, LS!ReceiveHeartbeat
  <2> QED
    BY <2>2 DEF LS!Next
<1>5. ASSUME NEW r \in Router, NEW n \in Nbr[r], HeartbeatTimeout(r, n) PROVE LS!Next
  <2>1. LS!LinkChange(r, n, "DOWN")
    BY <1>5, LinkChangeSimulated DEF HeartbeatTimeout
  <2>2. LS!HeartbeatTimeout(r, n)
    BY <1>5, <2>1, QueuesUnchanged DEF HeartbeatTimeout, LinkChange, LS!HeartbeatTimeout
  <2> QED
    BY <2>2 DEF LS!Next
<1>6. ASSUME NEW r \in Router, LsaTimer(r) PROVE LS!Next
  <2>1. LS!Advertise(r, status[r])
    BY <1>6, AdvertiseSimulated DEF LsaTimer
  <2>2. LS!LsaTimer(r)
    BY <1>6, <2>1, QueuesUnchanged DEF LsaTimer, LS!LsaTimer, LS!memory
  <2> QED
    BY <2>2 DEF LS!Next
<1>7. ASSUME NEW e \in Edge, ReceiveRouterLSA(e) PROVE LS!Next
  <2> DEFINE k == Head(lsaQ[e])  m == OnWire(e, k)
  <2>1. m.src = e[1] /\ m.dst = e[2] /\ m.origin = k.origin /\ m.slot = k.slot
    BY DEF OnWire
  <2>2. m \in InFlight
    BY <1>7, PopDelivers DEF ReceiveRouterLSA
  <2>3. InFlight' \in LS!Emit(InFlight, IF LS!Supersedes(k.slot, graph[e[2]][k.origin])
                                      THEN LS!Copies(e[2], k.origin, k.slot, {e[1]}) ELSE {}, 0)
    <3>1. CASE Supersedes(k.slot, graph[e[2]][k.origin])
      <4>1. /\ DOMAIN lsaQ = Edge /\ \A l \in Edge : IsQueue(lsaQ[l])
            /\ lsaQ[e] # <<>> /\ e[2] \in Router
        BY <1>7, Edges DEF ReceiveRouterLSA, TypeOK
      <4>2. /\ DOMAIN Pop(lsaQ, e) = Edge
            /\ \A l \in Edge : /\ IsQueue(Pop(lsaQ, e)[l])
                               /\ ToSet(Pop(lsaQ, e)[l]) \subseteq ToSet(lsaQ[l])
        BY <4>1, PopQueues
      <4>3. Flood(Pop(lsaQ, e), e[2], k.origin, k.slot, {e[1]})
        BY <1>7, <3>1 DEF ReceiveRouterLSA
      <4>4. InFlight' \in LS!Emit(InFlight, LS!Copies(e[2], k.origin, k.slot, {e[1]}), 0)
        BY <4>1, <4>2, <4>3, FloodEmits
      <4> QED
        BY <3>1, <4>4, SameOperators
    <3>2. CASE ~Supersedes(k.slot, graph[e[2]][k.origin])
      <4>1. InFlight' \in LS!Emit(InFlight, {}, 0)
        BY <1>7, <3>2, PopDelivers DEF ReceiveRouterLSA
      <4> QED
        BY <3>2, <4>1, SameOperators
    <3> QED
      BY <3>1, <3>2
  <2>4. /\ e[2] \in alive /\ UNCHANGED <<clock, alive, status, armed, netQ, reqQ>>
        /\ graph' = [graph EXCEPT ![e[2]] = LS!MergeInNode(graph[e[2]], k.origin, k.slot)]
    BY <1>7, SameOperators DEF ReceiveRouterLSA
  <2> HIDE DEF k, m
  <2>5. LS!ReceiveRouterLSA(m)
    BY <2>1, <2>2, <2>3, <2>4, QueuesUnchanged DEF LS!ReceiveRouterLSA
  <2> QED
    BY <2>2, <2>5 DEF LS!Next
<1>8. ASSUME NEW e \in Edge, ReceiveNetworkLSA(e) PROVE LS!Next
  <2> DEFINE m == Carried(e, Head(netQ[e]))
  <2>1. m.dst = e[2] /\ m.graph = Head(netQ[e])
    BY DEF Carried
  <2>2. m \in Graphs /\ Graphs' \in LS!Emit(Graphs, {}, 0)
    BY <1>8, PopDelivers DEF ReceiveNetworkLSA
  <2>3. /\ e[2] \in alive /\ UNCHANGED <<clock, alive, status, armed, lsaQ, reqQ>>
        /\ graph' = [graph EXCEPT ![e[2]] = LS!MergeInGraph(graph[e[2]], Head(netQ[e]))]
    BY <1>8, SameOperators DEF ReceiveNetworkLSA
  <2> HIDE DEF m
  <2>4. LS!ReceiveNetworkLSA(m)
    BY <2>1, <2>2, <2>3, QueuesUnchanged DEF LS!ReceiveNetworkLSA
  <2> QED
    BY <2>2, <2>4 DEF LS!Next
<1>9. ASSUME NEW e \in Edge, ReceiveRequest(e) PROVE LS!Next
  <2> DEFINE m == Asked(e)
  <2>1. m.dst = e[2] /\ m.src = e[1]
    BY DEF Asked
  <2>2. m \in Requests /\ Requests' \in LS!Emit(Requests, {}, 0)
    BY <1>9, PopDelivers DEF ReceiveRequest
  <2>3. Graphs' \in LS!Emit(Graphs, IF e[1] \in Nbr[e[2]]
                                  THEN {LS!NetworkLSA(e[1], graph[e[2]])} ELSE {}, 0)
    <3>1. netQ' = Post(netQ, {l \in Links(e[2], {}) : l[2] = e[1]}, graph[e[2]])
      BY <1>9 DEF ReceiveRequest
    <3>2. \A l \in Edge : IsQueue(netQ[l])
      BY DEF TypeOK
    <3>3. ASSUME NEW l \in Edge
          PROVE  \/ netQ'[l] = netQ[l]
                 \/ /\ l[2] = e[1] /\ e[1] \in Nbr[e[2]]
                    /\ ToSet(netQ'[l]) = ToSet(netQ[l]) \cup {graph[e[2]]}
      <4>1. CASE l \in Links(e[2], {}) /\ l[2] = e[1]
        <5>1. netQ'[l] = Append(netQ[l], graph[e[2]])
          BY <3>1, <4>1 DEF Post
        <5>2. e[1] \in Nbr[e[2]]
          BY <4>1 DEF Links, Edge
        <5> QED
          BY <3>2, <4>1, <5>1, <5>2, QueueAppend
      <4>2. CASE ~(l \in Links(e[2], {}) /\ l[2] = e[1])
        BY <3>1, <4>2 DEF Post
      <4> QED
        BY <4>1, <4>2
    <3>4. ASSUME NEW m1 \in Graphs'
          PROVE  \/ m1 \in Graphs
                 \/ e[1] \in Nbr[e[2]] /\ m1 = LS!NetworkLSA(e[1], graph[e[2]])
      <4>1. PICK l \in Edge : \E g \in ToSet(netQ'[l]) : m1 = Carried(l, g)
        BY InFlightWhereNext
      <4>2. PICK g \in ToSet(netQ'[l]) : m1 = Carried(l, g)
        BY <4>1
      <4>3. CASE g \in ToSet(netQ[l])
        BY <4>2, <4>3, InFlightWhere
      <4>4. CASE g \notin ToSet(netQ[l])
        BY <3>3, <4>2, <4>4 DEF Carried, LS!NetworkLSA
      <4> QED
        BY <4>3, <4>4
    <3> QED
      BY <3>4 DEF LS!Emit
  <2>4. e[2] \in alive /\ UNCHANGED <<clock, alive, status, armed, graph, lsaQ>>
    BY <1>9 DEF ReceiveRequest
  <2> HIDE DEF m
  <2>5. LS!ReceiveRequest(m)
    BY <2>1, <2>2, <2>3, <2>4, QueuesUnchanged DEF LS!ReceiveRequest, LS!memory
  <2> QED
    BY <2>2, <2>5 DEF LS!Next
<1>10. ASSUME NEW e \in Edge, PortClosed(e) PROVE LS!Next \/ UNCHANGED LS!vars
  <2>1. UNCHANGED <<clock, alive, status, armed, graph>>
    BY <1>10 DEF PortClosed
  <2>2. CASE lsaQ[e] # <<>> /\ lsaQ' = Pop(lsaQ, e) /\ UNCHANGED <<netQ, reqQ>>
    <3> DEFINE m == OnWire(e, Head(lsaQ[e]))
    <3>1. m \in InFlight /\ InFlight' \subseteq InFlight
      BY <2>2, PopDelivers DEF LS!Emit
    <3>2. \A l \in Edge : ToSet(lsaQ[l]) \subseteq
            ToSet(lsaQ'[l]) \cup (IF l = e THEN {Head(lsaQ[e])} ELSE {})
      <4>1. DOMAIN lsaQ = Edge /\ \A l \in Edge : IsQueue(lsaQ[l])
        BY DEF TypeOK
      <4> QED
        BY <2>2, <4>1, PopQueues
    <3>3. \A d \in InFlight : d \in InFlight' \/ d = m
      BY <3>2, InFlightWhere, InFlightWhereNext
    <3> HIDE DEF m
    <3>4. InFlight' = InFlight \/ InFlight' = InFlight \ {m}
      BY <3>1, <3>3
    <3>5. UNCHANGED <<Graphs, Requests>>
      BY <2>2, QueuesUnchanged
    <3>6. LS!Lose \/ UNCHANGED LS!vars
      BY <2>1, <3>1, <3>4, <3>5 DEF LS!Lose, LS!memory, LS!vars
    <3> QED
      BY <3>6 DEF LS!Next
  <2>3. CASE reqQ[e] # <<>> /\ reqQ' = Pop(reqQ, e) /\ UNCHANGED <<lsaQ, netQ>>
    <3> DEFINE m == Asked(e)
    <3>1. m \in Requests /\ Requests' \subseteq Requests
      BY <2>3, PopDelivers DEF LS!Emit
    <3>2. \A l \in Edge : l = e \/ reqQ'[l] = reqQ[l]
      BY <2>3, PopQueues DEF TypeOK
    <3>3. \A d \in Requests : d \in Requests' \/ d = m
      BY <3>2, InFlightWhere, InFlightWhereNext
    <3> HIDE DEF m
    <3>4. Requests' = Requests \/ Requests' = Requests \ {m}
      BY <3>1, <3>3
    <3>5. UNCHANGED <<InFlight, Graphs>>
      BY <2>3, QueuesUnchanged
    <3>6. LS!Lose \/ UNCHANGED LS!vars
      BY <2>1, <3>1, <3>4, <3>5 DEF LS!Lose, LS!memory, LS!vars
    <3> QED
      BY <3>6 DEF LS!Next
  <2> QED
    BY <1>10, <2>2, <2>3 DEF PortClosed
<1>11. ASSUME NEW l \in Fragile, UpdateLink(l) PROVE UNCHANGED LS!vars
  BY <1>11, QueuesUnchanged DEF UpdateLink, queues, LS!vars
<1> QED
  BY <1>1, <1>2, <1>3, <1>4, <1>5, <1>6, <1>7, <1>8, <1>9, <1>10, <1>11 DEF Next, Change, Deliver

-----------------------------------------------------------------------------
(***************************************************************************)
(* The theorems.                                                           *)
(***************************************************************************)
(***************************************************************************)
(* Every queue, graph, timer and status table always has its type, and a   *)
(* router that has not run driver()'s prologue yet has nothing to reset.   *)
(***************************************************************************)
THEOREM TypeCorrect == Spec => []TypeOK
BY TypeInit, TypeNext, PTL DEF Spec

(***************************************************************************)
(* Daemons over in-order links behave as daemons over links that delay,    *)
(* reorder, duplicate and lose: nothing LinkState promises depends on UDP  *)
(* keeping an order.                                                       *)
(***************************************************************************)
THEOREM FifoImplementsLinkState == Spec => Refinement
BY InitSimulated, NextSimulated, TypeCorrect, PTL DEF Spec, Refinement, LS!Spec

-----------------------------------------------------------------------------
(***************************************************************************)
(* What LinkState_proofs proves of LinkState, under the same mapping.      *)
(***************************************************************************)
LSP == INSTANCE LinkState_proofs WITH
  lsas <- InFlight, nets <- Graphs, reqs <- Requests,
  Crashes <- {}, MaxLsas <- 0, MaxNets <- 0, MaxReqs <- 0

\* The assumptions of LinkState hold of the constants it is given here.
LEMMA AssumptionsMet ==
  LSP!TopologyAssumption /\ LSP!MetricAssumption /\ LSP!EnvironmentAssumption
<1>1. LSP!TopologyAssumption
  BY DEF LSP!TopologyAssumption
<1>2. LSP!MetricAssumption
  BY DEF LSP!MetricAssumption
<1>3. LSP!EnvironmentAssumption
  <2>1. Hears \in [Router -> SUBSET Node] /\ \A r \in Router : Hears[r] \subseteq Nbr[r]
    BY DEF Hears, TopologyAssumption
  <2> QED
    BY <2>1, FifoAssumption DEF LSP!EnvironmentAssumption
<1> QED
  BY <1>1, <1>2, <1>3

\* The two instances of LinkState have the same steps.
LEMMA SameNext == [LS!Next]_(LS!vars) => [LSP!Next]_(LSP!vars)
<1> USE DEF LS!RouterLSA, LS!NetworkLSA, LS!Request, LS!Copies, LS!Emit, LS!AllDown, LS!Seen,
            LS!Adverts, LS!Link, LS!LinkStatus, LS!Metric, LS!UpMetric, LS!MetricOf,
            LS!EmptyGraph, LS!Unseen, LS!Opaque, LS!MarkOpaque, LS!UpdateGlobalThis,
            LS!MergeSlot, LS!Supersedes, LS!NodesEq, LS!MergeInNode, LS!MergeInGraph,
            LS!Restamp, LS!Advertise, LS!LinkChange, LS!memory, LS!network, LS!vars
<1> USE DEF LSP!RouterLSA, LSP!NetworkLSA, LSP!Request, LSP!Copies, LSP!Emit, LSP!AllDown, LSP!Seen,
            LSP!Adverts, LSP!Link, LSP!LinkStatus, LSP!Metric, LSP!UpMetric, LSP!MetricOf,
            LSP!EmptyGraph, LSP!Unseen, LSP!Opaque, LSP!MarkOpaque, LSP!UpdateGlobalThis,
            LSP!MergeSlot, LSP!Supersedes, LSP!NodesEq, LSP!MergeInNode, LSP!MergeInGraph,
            LSP!Restamp, LSP!Advertise, LSP!LinkChange, LSP!memory, LSP!network, LSP!vars
<1>2. (LS!Tick => LSP!Tick) /\ (LS!Lose => LSP!Lose)
  BY DEF LS!Tick, LSP!Tick, LS!Lose, LSP!Lose
<1>3. ASSUME NEW r PROVE LS!Boot(r) => LSP!Boot(r)
  BY DEF LS!Boot, LSP!Boot
<1>4. ASSUME NEW r PROVE LS!Crash(r) => LSP!Crash(r)
  BY DEF LS!Crash, LSP!Crash
<1>5. ASSUME NEW r PROVE LS!LsaTimer(r) => LSP!LsaTimer(r)
  BY DEF LS!LsaTimer, LSP!LsaTimer
<1>6. ASSUME NEW r PROVE LS!RecomputeTimer(r) => LSP!RecomputeTimer(r)
  BY DEF LS!RecomputeTimer, LSP!RecomputeTimer
<1>7. ASSUME NEW r, NEW n PROVE LS!ReceiveHeartbeat(r, n) => LSP!ReceiveHeartbeat(r, n)
  BY DEF LS!ReceiveHeartbeat, LSP!ReceiveHeartbeat
<1>8. ASSUME NEW r, NEW n PROVE LS!HeartbeatTimeout(r, n) => LSP!HeartbeatTimeout(r, n)
  BY DEF LS!HeartbeatTimeout, LSP!HeartbeatTimeout
<1>9. ASSUME NEW m PROVE LS!ReceiveRouterLSA(m) => LSP!ReceiveRouterLSA(m)
  BY DEF LS!ReceiveRouterLSA, LSP!ReceiveRouterLSA
<1>10. ASSUME NEW m PROVE LS!ReceiveNetworkLSA(m) => LSP!ReceiveNetworkLSA(m)
  BY DEF LS!ReceiveNetworkLSA, LSP!ReceiveNetworkLSA
<1>11. ASSUME NEW m PROVE LS!ReceiveRequest(m) => LSP!ReceiveRequest(m)
  BY DEF LS!ReceiveRequest, LSP!ReceiveRequest
<1>12. LS!Next => LSP!Next
  BY <1>2, <1>3, <1>4, <1>5, <1>6, <1>7, <1>8, <1>9, <1>10, <1>11, Zenon DEF LS!Next, LSP!Next
<1>13. UNCHANGED LS!vars => UNCHANGED LSP!vars
  OBVIOUS
<1> QED
  BY <1>12, <1>13

\* They are the same specification.
LEMMA SameSpecification == LS!Spec => LSP!Spec
<1>1. LS!Init => LSP!Init
  BY DEF LS!Init, LSP!Init, LS!AllDown, LSP!AllDown, LS!EmptyGraph, LSP!EmptyGraph, LS!Unseen, LSP!Unseen
<1> QED
  BY <1>1, SameNext, PTL DEF LS!Spec, LSP!Spec

(***************************************************************************)
(* So over in-order links, too, no echoed advertisement replaces a running *)
(* router's own slot, timers follow statuses, the neighbours of a SEEN     *)
(* node are known, and no view moves back.                                 *)
(***************************************************************************)
THEOREM FifoInherits ==
  Spec => /\ [](LS!OwnSlotCurrent /\ LS!ArmedIffUp /\ LS!NeighboursKnown)
          /\ LS!ViewsMoveForward
<1>1. Spec => LSP!Spec
  BY FifoImplementsLinkState, SameSpecification, PTL DEF Refinement
<1>2. LSP!Spec => []LSP!OwnSlotCurrent
  BY AssumptionsMet, LSP!OwnSlotAlwaysCurrent
<1>3. LSP!Spec => []LSP!ArmedIffUp
  BY AssumptionsMet, LSP!TimersFollowStatus
<1>4. LSP!Spec => []LSP!NeighboursKnown
  BY AssumptionsMet, LSP!NeighboursAlwaysKnown
<1>5. LSP!Spec => LSP!ViewsMoveForward
  BY AssumptionsMet, LSP!ViewsOnlyMoveForward
<1>6. LSP!OwnSlotCurrent => LS!OwnSlotCurrent
  BY DEF LSP!OwnSlotCurrent, LS!OwnSlotCurrent, LSP!StatusOf, LS!StatusOf
<1>7. LSP!ArmedIffUp => LS!ArmedIffUp
  BY DEF LSP!ArmedIffUp, LS!ArmedIffUp
<1>8. LSP!NeighboursKnown => LS!NeighboursKnown
  BY DEF LSP!NeighboursKnown, LS!NeighboursKnown, LSP!Closed, LS!Closed
<1>9. LSP!ViewsForward => LS!ViewsForward
  BY DEF LSP!ViewsForward, LS!ViewsForward, LSP!Forward, LS!Forward, LSP!Rank, LS!Rank
<1>10. (UNCHANGED LSP!vars) => (UNCHANGED LS!vars)
  BY DEF LSP!vars, LS!vars
<1>11. [LSP!ViewsForward]_(LSP!vars) => [LS!ViewsForward]_(LS!vars)
  BY <1>9, <1>10
<1>12. LSP!ViewsMoveForward => LS!ViewsMoveForward
  BY <1>11, PTL DEF LSP!ViewsMoveForward, LS!ViewsMoveForward
<1> QED
  BY <1>1, <1>2, <1>3, <1>4, <1>5, <1>6, <1>7, <1>8, <1>12, PTL

-----------------------------------------------------------------------------
(***************************************************************************)
(* Routing.                                                                *)
(***************************************************************************)
\* Paths with at least one node, and those with a link, along links only as
\* far as the first step goes.
NodePaths == {p \in Seq(Node) : p # <<>>}
Departing == {p \in NodePaths : Len(p) > 1 => p[2] \in Nbr[p[1]]}

\* The table of Routes exists; every path in it departs over a link.
LEMMA RoutesDepart ==
  ASSUME IsFiniteSet(Router), NEW p \in Routes
  PROVE  p \in Departing
<1> DEFINE n == Cardinality(Router)
           S == SUBSET NodePaths
           x == {<<y>> : y \in Node}
           Longer(s) == UNION {{Append(q, m) : m \in Nbr[q[Len(q)]] \ ToSet(q)} : q \in s}
           F == [a \in (1 .. n) \X S |-> Longer(a[2])]
           to == CHOOSE t : t = [k \in 0 .. n |-> IF k = 0 THEN x ELSE Longer(t[k - 1])]
<1>1. n \in Nat
  BY FS_CardinalityType
<1>2. ASSUME NEW y \in Node PROVE <<y>> \in NodePaths /\ <<y>> \in Departing
  <2>1. <<y>> \in Seq(Node) /\ Len(<<y>>) = 1
    OBVIOUS
  <2>2. <<y>> # <<>>
    BY <2>1
  <2> QED  BY <2>1, <2>2 DEF NodePaths, Departing
<1>3. ASSUME NEW q \in NodePaths, NEW m \in Nbr[q[Len(q)]] PROVE Append(q, m) \in NodePaths /\ m \in Node
  <2>1. q \in Seq(Node) /\ Len(q) \in Nat \ {0} /\ q[Len(q)] \in Node
    BY DEF NodePaths
  <2>2. m \in Node
    BY <2>1 DEF TopologyAssumption
  <2> QED  BY <2>1, <2>2 DEF NodePaths
<1>4. x \in S
  BY <1>2
<1>5. ASSUME NEW s \in S PROVE Longer(s) \in S
  <2> SUFFICES ASSUME NEW p1 \in Longer(s) PROVE p1 \in NodePaths
    OBVIOUS
  <2>1. PICK q \in s : p1 \in {Append(q, m) : m \in Nbr[q[Len(q)]] \ ToSet(q)}
    OBVIOUS
  <2>2. PICK m \in Nbr[q[Len(q)]] : p1 = Append(q, m)
    BY <2>1
  <2> QED  BY <1>3, <2>1, <2>2
<1>6. F \in [(1 .. n) \X S -> S]
  BY <1>5
<1>7. PICK t \in [0 .. n -> S] : IsTable(t, n, x, F)
  <2> HIDE DEF n, S, x, F
  <2> QED  BY <1>1, <1>4, <1>6, LoopExists
<1>8. t = [k \in 0 .. n |-> IF k = 0 THEN x ELSE Longer(t[k - 1])]
  <2>1. \A k \in 0 .. n : k # 0 => k \in 1 .. n /\ k - 1 \in 0 .. n
    BY <1>1
  <2>2. \A k \in 0 .. n : k # 0 => F[<<k, t[k - 1]>>] = Longer(t[k - 1])
    <3>1. ASSUME NEW k \in 0 .. n, k # 0 PROVE F[<<k, t[k - 1]>>] = Longer(t[k - 1])
      <4>1. <<k, t[k - 1]>> \in (1 .. n) \X S
        BY <2>1, <3>1
      <4> HIDE DEF Longer, n, S
      <4> QED  BY <4>1
    <3> QED  BY <3>1
  <2> HIDE DEF F, Longer, n, S, x
  <2>3. t = [k \in 0 .. n |-> IF k = 0 THEN x ELSE F[<<k, t[k - 1]>>]]
    BY <1>7 DEF IsTable
  <2> QED  BY <2>2, <2>3
<1>9. to = [k \in 0 .. n |-> IF k = 0 THEN x ELSE Longer(to[k - 1])]
  <2> HIDE DEF Longer, n, x
  <2> QED  BY <1>8
<1>10. PICK k \in 1 .. n : p \in to[k]
  BY DEF Routes
<1> HIDE DEF to
<1> DEFINE I == [j \in 0 .. n |-> SUBSET Departing]
<1>11. Keeps(to, I, n)
  <2>1. to[0] \in I[0]
    <3>1. 0 \in 0 .. n
      BY <1>1
    <3>2. to[0] = x
      <4> HIDE DEF x, Longer, n
      <4> QED  BY <1>9, <3>1
    <3>3. I[0] = SUBSET Departing
      BY <3>1
    <3>4. x \in SUBSET Departing
      BY <1>2
    <3> QED  BY <3>2, <3>3, <3>4
  <2>2. ASSUME NEW j \in 1 .. n, to[j - 1] \in I[j - 1] PROVE to[j] \in I[j]
    <3>1. /\ j \in 0 .. n /\ j - 1 \in 0 .. n /\ j # 0
          /\ I[j] = SUBSET Departing /\ to[j - 1] \in SUBSET Departing
      BY <1>1, <2>2
    <3>2. to[j] = Longer(to[j - 1])
      <4> HIDE DEF Longer, n, x
      <4> QED  BY <1>9, <3>1
    <3>3. ASSUME NEW q \in Departing, NEW m \in Nbr[q[Len(q)]] PROVE Append(q, m) \in Departing
      <4>1. q \in Seq(Node) /\ Len(q) \in Nat \ {0} /\ m \in Node /\ Append(q, m) \in NodePaths
        BY <1>3, <3>3 DEF Departing, NodePaths
      <4>2. Append(q, m)[1] = q[1] /\ Len(Append(q, m)) = Len(q) + 1
        BY <4>1
      <4> HIDE DEF Longer, n, x, I
      <4>3. Append(q, m)[Len(q) + 1] = m /\ \A i \in 1 .. Len(q) : Append(q, m)[i] = q[i]
        BY <4>1
      <4>4. Len(q) = 1 => Append(q, m)[2] = m
        BY <4>1, <4>3
      <4>5. Len(q) # 1 => Len(q) > 1 /\ Append(q, m)[2] = q[2]
        <5> SUFFICES ASSUME Len(q) # 1 PROVE Len(q) > 1 /\ Append(q, m)[2] = q[2]
          OBVIOUS
        <5>1. \A l \in Nat \ {0} : l # 1 => l > 1 /\ 2 \in 1 .. l
          OBVIOUS
        <5> QED  BY <4>1, <4>3, <5>1
      <4>6. Append(q, m)[2] \in Nbr[Append(q, m)[1]]
        <5>1. CASE Len(q) = 1
          BY <3>3, <4>2, <4>4, <5>1
        <5>2. CASE Len(q) # 1
          BY <3>3, <4>2, <4>5, <5>2 DEF Departing
        <5> QED  BY <5>1, <5>2
      <4> QED  BY <4>1, <4>6 DEF Departing
    <3> SUFFICES ASSUME NEW p1 \in Longer(to[j - 1]) PROVE p1 \in Departing
      BY <3>1, <3>2
    <3>4. PICK q \in to[j - 1] : p1 \in {Append(q, m) : m \in Nbr[q[Len(q)]] \ ToSet(q)}
      OBVIOUS
    <3>5. PICK m \in Nbr[q[Len(q)]] : p1 = Append(q, m)
      BY <3>4
    <3> QED  BY <3>1, <3>3, <3>4, <3>5
  <2> QED  BY <2>1, <2>2 DEF Keeps
<1>12. to[k] \in I[k]
  <2> HIDE DEF I, n
  <2>1. k \in 0 .. n
    BY <1>1
  <2> QED  BY <1>1, <1>11, <2>1, LoopInvariant
<1> QED  BY <1>1, <1>10, <1>12

\* pathfind names a neighbour or none, whatever the graph holds.
LEMMA HopsAreNeighbours ==
  ASSUME IsFiniteSet(Router), NEW g, NEW r \in Router, NEW f \in NextHops(g, r)
  PROVE  f \in [Host -> Nbr[r] \cup {NULL}]
<1>1. ASSUME NEW h \in Host, NEW n \in BestHops(g, r, h) PROVE n \in Nbr[r] \cup {NULL}
  <2>1. CASE n = NULL
    BY <2>1
  <2>2. CASE n # NULL
    <3>1. PICK p \in RoutesBetween(r, h) : n = p[2]
      BY <1>1, <2>2, Zenon DEF BestHops
    <3>2. p \in Departing /\ p[1] = r /\ p[Len(p)] = h
      BY <3>1, RoutesDepart DEF RoutesBetween
    <3>3. r # h
      BY DEF Host
    <3>4. Len(p) > 1
      BY <3>2, <3>3 DEF Departing, NodePaths
    <3> QED  BY <3>1, <3>2, <3>4 DEF Departing
  <2> QED  BY <2>1, <2>2
<1>2. f \in [Host -> UNION {BestHops(g, r, h) : h \in Host}] /\ \A h \in Host : f[h] \in BestHops(g, r, h)
  BY DEF NextHops
<1> QED  BY <1>1, <1>2

\* Both tables are there, for every router.
TablesTyped == DOMAIN next_hops = Router /\ DOMAIN kernel = Router /\ TablesOK

\* The kernel gets what pathfind found before.
LEMMA KernelTyped ==
  ASSUME TablesTyped, NEW r \in Router, UpdateRoutingTable(r)
  PROVE  DOMAIN kernel' = Router /\ \A q \in Router : kernel'[q] \in [Host -> Nbr[q] \cup {NULL}]
BY DEF TablesTyped, TablesOK, UpdateRoutingTable

\* The other iterations leave next_hops alone.
LEMMA KeptTyped ==
  ASSUME TablesTyped, NEW r \in Router, KeepPaths(r)
  PROVE  TablesTyped'
BY KernelTyped DEF TablesTyped, TablesOK, KeepPaths

\* So do those that run pathfind, but for paths over neighbours.
LEMMA RepathTyped ==
  ASSUME IsFiniteSet(Router), TablesTyped, NEW r \in Router, Repath(r)
  PROVE  TablesTyped'
<1>1. PICK f \in NextHops(graph'[r], r) : next_hops' = [next_hops EXCEPT ![r] = f]
  BY DEF Repath
<1>2. f \in [Host -> Nbr[r] \cup {NULL}]
  BY HopsAreNeighbours
<1>3. UpdateRoutingTable(r)
  BY DEF Repath
<1> QED  BY <1>1, <1>2, <1>3, KernelTyped DEF TablesTyped, TablesOK

(***************************************************************************)
(* pathfind and update_routing_table give the kernel neighbours only, as   *)
(* its gateways must be, for every network and whatever was flooded.       *)
(***************************************************************************)
THEOREM TablesCorrect == RoutingSpec => []TablesOK
<1>0. IsFiniteSet(Router)
  BY HostAssumption
<1>1. RoutingInit => TablesTyped
  <2> SUFFICES ASSUME RoutingInit PROVE TablesTyped
    OBVIOUS
  <2>1. PICK g : /\ graph = [r \in Router |-> g]
                 /\ next_hops \in {f \in [Router -> UNION {NextHops(g, r) : r \in Router}] :
                                     \A r \in Router : f[r] \in NextHops(g, r)}
    BY DEF RoutingInit
  <2>2. DOMAIN next_hops = Router /\ \A r \in Router : next_hops[r] \in NextHops(g, r)
    BY <2>1
  <2>3. \A r \in Router : next_hops[r] \in [Host -> Nbr[r] \cup {NULL}]
    BY <1>0, <2>2, HopsAreNeighbours
  <2>4. kernel = next_hops
    BY DEF RoutingInit
  <2> QED  BY <2>2, <2>3, <2>4 DEF TablesTyped, TablesOK
<1>2. TablesTyped /\ [RoutingNext]_routingVars => TablesTyped'
  <2> SUFFICES ASSUME TablesTyped, [RoutingNext]_routingVars PROVE TablesTyped'
    OBVIOUS
  <2>1. ASSUME NEW r \in Router, NEW n \in Nbr[r], Changes(r, n) PROVE TablesTyped'
    BY <1>0, <2>1, RepathTyped DEF Changes
  <2>2. ASSUME NEW r \in Router, RecomputeTimer(r) PROVE TablesTyped'
    BY <1>0, <2>2, RepathTyped DEF RecomputeTimer
  <2>3. ASSUME NEW r \in Router, SendLsa(r) PROVE TablesTyped'
    BY <2>3, KeptTyped DEF SendLsa
  <2>4. ASSUME NEW r \in Router, OtherEvent(r) PROVE TablesTyped'
    BY <2>4, KeptTyped DEF OtherEvent
  <2>5. ASSUME NEW e \in Edge, ReceiveLsa(e) PROVE TablesTyped'
    BY <2>5, Edges, KeptTyped DEF ReceiveLsa
  <2>6. CASE UNCHANGED routingVars \/ TimePasses
    BY <2>6 DEF routingVars, TimePasses, tables, TablesTyped, TablesOK
  <2> QED  BY <2>1, <2>2, <2>3, <2>4, <2>5, <2>6 DEF RoutingNext
<1> QED  BY <1>1, <1>2, PTL DEF RoutingSpec, TablesTyped

-----------------------------------------------------------------------------
(***************************************************************************)
(* Routing: its daemons, which do not start but run already, are those of  *)
(* LinkState.                                                              *)
(***************************************************************************)
\* In Routing all daemons run, over queues and graphs of their types.
Running == TypeOK /\ alive = Router

\* A network that has been up for long is one LinkState could have come to.
LEMMA RoutingStarts == RoutingInit => Running /\ LSP!Inductive
<1> SUFFICES ASSUME RoutingInit PROVE Running /\ LSP!Inductive
  OBVIOUS
<1>0. PICK old \in SUBSET Fragile :
        /\ clock = 2 /\ alive = Router /\ status = StatusesOf(old)
        /\ armed = [r \in Router |-> {n \in Nbr[r] : {r, n} \notin old}]
        /\ \E h \in GraphsOf(StatusesOf(old)) : graph = [r \in Router |-> h]
        /\ lsaQ = [e \in Edge |-> <<>>] /\ netQ = lsaQ /\ reqQ = lsaQ
        /\ cut = Fragile \ old
  BY DEF RoutingInit
<1> DEFINE st == StatusesOf(old)
<1>1. PICK own : \E h : /\ graph = [r \in Router |-> h]
                        /\ h = [x \in Node |-> IF x \in Router THEN Seen(1, own[x]) ELSE Opaque]
                        /\ \A x \in Router : own[x] \in Adverts(x, st[x])
  BY <1>0 DEF GraphsOf
<1> DEFINE g == [x \in Node |-> IF x \in Router THEN Seen(1, own[x]) ELSE Opaque]
<1>2. Router \subseteq Node /\ \A r \in Node : Nbr[r] \subseteq Node
  BY DEF TopologyAssumption
<1>3. /\ DOMAIN st = Router
      /\ \A r \in Router : /\ st[r] \in [Nbr[r] -> LinkStatus]
                            /\ \A n \in Nbr[r] : st[r][n] = "UP" <=> {r, n} \notin old
  BY DEF StatusesOf, LinkStatus
<1>4. \A x \in Router : /\ own[x] \in [Nbr[x] -> Link]
                         /\ \A n \in Nbr[x] : own[x][n].status = st[x][n]
  BY <1>1 DEF Adverts
<1> HIDE DEF st
<1>5. /\ DOMAIN g = Node
      /\ \A x \in Router : /\ g[x].state = "SEEN" /\ g[x].ts = 1 /\ g[x].links = own[x]
                            /\ g[x] \in SeenSlot(x)
      /\ \A x \in Node \ Router : g[x] = Opaque
  BY <1>2, <1>4 DEF Seen, SeenSlot
<1>17. graph = [r \in Router |-> g]
  BY <1>1
<1> HIDE DEF g
<1>6. IsGraph(g)
  BY <1>5 DEF IsGraph, Slot
<1>7. \A e \in Edge : lsaQ[e] = <<>> /\ netQ[e] = <<>> /\ reqQ[e] = <<>>
  BY <1>0
<1>8. InFlight = {} /\ Graphs = {} /\ Requests = {}
  BY <1>7, EmptyQueue, InFlightWhere
<1>9. TypeOK
  <2>1. /\ DOMAIN lsaQ = Edge /\ DOMAIN netQ = Edge /\ DOMAIN reqQ = Edge
    BY <1>0
  <2>2. armed \in [Router -> SUBSET Node]
    BY <1>0, <1>2
  <2>3. \A r \in Router : graph[r] = g
    BY <1>17
  <2>4. \A e \in Edge :
          /\ IsQueue(lsaQ[e]) /\ \A m \in ToSet(lsaQ[e]) : m.origin \in Router /\ m.slot \in SeenSlot(m.origin)
          /\ IsQueue(netQ[e]) /\ \A h \in ToSet(netQ[e]) : IsGraph(h)
          /\ IsQueue(reqQ[e]) /\ ToSet(reqQ[e]) \subseteq {"request"}
    BY <1>7, EmptyQueue
  <2>5. status \in [Router -> UNION {[Nbr[r] -> LinkStatus] : r \in Router}]
    BY <1>0 DEF StatusesOf, LinkStatus
  <2> QED  BY <1>0, <1>3, <1>17, <1>6, <2>1, <2>2, <2>3, <2>4, <2>5 DEF TypeOK, st
<1>10. LSP!TypeOK
  <2>1. LSP!IsGraph(g)
    BY <1>6 DEF IsGraph, LSP!IsGraph, Slot, LSP!Slot, SeenSlot, LSP!SeenSlot, Unseen, LSP!Unseen,
                Opaque, LSP!Opaque, Link, LSP!Link, LinkStatus, LSP!LinkStatus,
                Metric, LSP!Metric, UpMetric, LSP!UpMetric
  <2>2. LSP!LinkStatus = LinkStatus
    BY DEF LinkStatus, LSP!LinkStatus
  <2>3. \A r \in Router : graph[r] = g
    BY <1>17
  <2> QED  BY <1>0, <1>2, <1>3, <1>17, <1>8, <2>1, <2>2, <2>3 DEF LSP!TypeOK, st
<1>11. LSP!ArmedIffUp
  BY <1>0, <1>3 DEF LSP!ArmedIffUp, st
<1>12. LSP!NeighboursKnown
  <2>1. ASSUME NEW x \in Node PROVE g[x].state # "UNSEEN"
    <3>1. CASE x \in Router
      BY <1>5, <3>1
    <3>2. CASE x \notin Router
      BY <1>5, <3>2 DEF Opaque
    <3> QED  BY <3>1, <3>2
  <2>2. LSP!Closed(g)
    BY <1>2, <2>1 DEF LSP!Closed
  <2> QED  BY <1>8, <1>17, <2>2 DEF LSP!NeighboursKnown
<1>13. LSP!OwnSlotCurrent
  <2>1. ASSUME NEW r \in Router PROVE LSP!StatusOf(g[r]) = st[r]
    <3>1. DOMAIN own[r] = Nbr[r] /\ g[r].links = own[r]
      BY <1>4, <1>5
    <3>2. LSP!StatusOf(g[r]) = [n \in Nbr[r] |-> st[r][n]]
      BY <1>4, <3>1 DEF LSP!StatusOf
    <3> QED  BY <1>3, <3>2
  <2> QED  BY <1>0, <1>5, <1>17, <2>1 DEF LSP!OwnSlotCurrent, st
<1>14. \A x \in Node : \A e \in LSP!Held(x) : e = g[x]
  BY <1>8, <1>17 DEF LSP!Held
<1>15. LSP!TimestampsPast
  BY <1>0, <1>5, <1>14 DEF LSP!TimestampsPast, Opaque
<1>16. LSP!NewerCopiesCurrent
  BY <1>0, <1>2, <1>5, <1>14, <1>17 DEF LSP!NewerCopiesCurrent
<1> QED
  BY <1>0, <1>9, <1>10, <1>11, <1>12, <1>13, <1>15, <1>16 DEF Running, LSP!Inductive

\* The recomputation timer's iteration is LinkState's, of a daemon that runs.
LEMMA RecomputeSimulated ==
  ASSUME Running, NEW r \in Router, RecomputeTimer(r)
  PROVE  TypeOK' /\ LS!RecomputeTimer(r)
<1>1. PICK own \in Own(r, status[r]) : graph' = [graph EXCEPT ![r] = UpdateGlobalThis(graph[r], r, own)]
  BY DEF RecomputeTimer
<1>2. UNCHANGED <<clock, alive, status, armed, lsaQ, netQ, reqQ, changes, losses, cut>> /\ DelayTolerant
  BY DEF RecomputeTimer, queues
<1>3. TypeOK'
  <2>1. own \in SeenSlot(r) /\ r \in Node
    BY OwnSlots DEF Running, TypeOK, TopologyAssumption
  <2>2. IsGraph(UpdateGlobalThis(graph[r], r, own))
    BY <2>1, GraphsStayGraphs DEF Running, TypeOK
  <2>3. DOMAIN graph' = Router /\ \A q \in Router : IsGraph(graph'[q])
    BY <1>1, <2>2 DEF Running, TypeOK
  <2> QED  BY <1>2, <2>3 DEF Running, TypeOK, AllDown
<1>4. LS!Restamp(r, status[r])
  <2>1. PICK l \in LS!Adverts(r, status[r]) : own = LS!Seen(clock, l)
    BY OwnAdverts
  <2>2. UpdateGlobalThis(graph[r], r, own) = LS!UpdateGlobalThis(graph[r], r, LS!Seen(clock, l))
    BY <2>1, SameOperators
  <2> QED  BY <1>1, <2>2 DEF LS!Restamp
<1> QED  BY <1>2, <1>3, <1>4, QueuesUnchanged DEF LS!RecomputeTimer, Running

\* Every iteration of Routing is one of LinkState, and daemons keep running.
LEMMA RoutingSimulated ==
  Running /\ [RoutingNext]_routingVars => Running' /\ [LSP!Next]_(LSP!vars)
<1> SUFFICES ASSUME Running, [RoutingNext]_routingVars PROVE Running' /\ [LS!Next]_(LS!vars)
  BY SameNext
<1>1. ASSUME [Next]_vars, alive' = alive PROVE Running' /\ [LS!Next]_(LS!vars)
  BY <1>1, TypeNext, NextSimulated DEF Running
<1>2. ASSUME NEW r \in Router, NEW n \in Nbr[r], Changes(r, n) PROVE Running' /\ [LS!Next]_(LS!vars)
  <2>1. ReceiveHeartbeat(r, n) \/ HeartbeatTimeout(r, n)
    BY <1>2 DEF Changes
  <2>2. alive' = alive
    BY <2>1 DEF ReceiveHeartbeat, HeartbeatTimeout, LinkChange
  <2>3. Next
    BY <2>1 DEF Next, Change
  <2> QED  BY <1>1, <2>2, <2>3
<1>3. ASSUME NEW r \in Router, RecomputeTimer(r) PROVE Running' /\ [LS!Next]_(LS!vars)
  <2>1. TypeOK' /\ LS!RecomputeTimer(r) /\ alive' = alive
    BY <1>3, RecomputeSimulated DEF RecomputeTimer
  <2>2. LS!Next
    BY <2>1 DEF LS!Next
  <2> QED  BY <2>1, <2>2 DEF Running
<1>4. ASSUME NEW r \in Router, SendLsa(r) PROVE Running' /\ [LS!Next]_(LS!vars)
  <2>1. LsaTimer(r) /\ alive' = alive
    BY <1>4 DEF SendLsa, LsaTimer
  <2>2. Next
    BY <2>1 DEF Next
  <2> QED  BY <1>1, <2>1, <2>2
<1>5. ASSUME NEW r \in Router, OtherEvent(r) PROVE Running' /\ [LS!Next]_(LS!vars)
  <2>1. UNCHANGED vars
    BY <1>5 DEF OtherEvent, daemons, vars
  <2>2. alive' = alive
    BY <2>1 DEF vars
  <2> QED  BY <1>1, <2>1, <2>2
<1>6. ASSUME NEW e \in Edge, ReceiveLsa(e) PROVE Running' /\ [LS!Next]_(LS!vars)
  <2>1. ReceiveRouterLSA(e) /\ alive' = alive
    BY <1>6 DEF ReceiveLsa, ReceiveRouterLSA
  <2>2. Next
    BY <2>1 DEF Next, Deliver
  <2> QED  BY <1>1, <2>1, <2>2
<1>8. CASE TimePasses
  <2>1. Tick /\ alive' = alive
    BY <1>8 DEF TimePasses, Tick
  <2>2. Next
    BY <2>1 DEF Next
  <2> QED  BY <1>1, <2>1, <2>2
<1>7. CASE UNCHANGED routingVars
  <2>1. UNCHANGED vars
    BY <1>7 DEF routingVars, daemons, vars
  <2>2. alive' = alive
    BY <2>1 DEF vars
  <2> QED  BY <1>1, <2>1, <2>2
<1> QED  BY <1>2, <1>3, <1>4, <1>5, <1>6, <1>7, <1>8 DEF RoutingNext

(***************************************************************************)
(* In the composition, too, the own slot that pathfind starts from shows   *)
(* the real link statuses, timers follow them, the neighbours of a SEEN    *)
(* node are known, and no view moves back.                                 *)
(***************************************************************************)
THEOREM RoutingInherits ==
  RoutingSpec => /\ [](LS!OwnSlotCurrent /\ LS!ArmedIffUp /\ LS!NeighboursKnown)
                 /\ LS!ViewsMoveForward
<1>1. RoutingInit => Running /\ LSP!Inductive
  BY RoutingStarts
<1>2. Running /\ LSP!Inductive /\ [RoutingNext]_routingVars => Running' /\ LSP!Inductive'
  <2>1. LSP!Inductive /\ [LSP!Next]_(LSP!vars) => LSP!Inductive'
    BY AssumptionsMet, LSP!InductiveNext
  <2> QED  BY <2>1, RoutingSimulated
<1>3. LSP!Inductive => LS!OwnSlotCurrent /\ LS!ArmedIffUp /\ LS!NeighboursKnown
  BY DEF LSP!Inductive, LSP!OwnSlotCurrent, LS!OwnSlotCurrent, LSP!StatusOf, LS!StatusOf,
         LSP!ArmedIffUp, LS!ArmedIffUp, LSP!NeighboursKnown, LS!NeighboursKnown, LSP!Closed, LS!Closed
<1>4. Running /\ LSP!Inductive /\ [RoutingNext]_routingVars => [LS!ViewsForward]_(LS!vars)
  <2>1. LSP!Inductive /\ LSP!Next => LSP!ViewsForward
    BY AssumptionsMet, LSP!ForwardNext
  <2>2. LSP!ViewsForward => LS!ViewsForward
    BY DEF LSP!ViewsForward, LS!ViewsForward, LSP!Forward, LS!Forward, LSP!Rank, LS!Rank
  <2>3. UNCHANGED LSP!vars => UNCHANGED LS!vars
    BY DEF LSP!vars, LS!vars
  <2> QED  BY <2>1, <2>2, <2>3, RoutingSimulated
<1> QED
  BY <1>1, <1>2, <1>3, <1>4, PTL DEF RoutingSpec, LS!ViewsMoveForward
=============================================================================
