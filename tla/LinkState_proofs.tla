-------------------------- MODULE LinkState_proofs --------------------------
(***************************************************************************)
(* Proofs about LinkState, for every topology, every number of routers,    *)
(* lsr and dtlsr, and every value of the bounds.                           *)
(***************************************************************************)
EXTENDS LinkState, TLAPS

USE TopologyAssumption, MetricAssumption, EnvironmentAssumption

-----------------------------------------------------------------------------
(***************************************************************************)
(* Lemmas about the operators of LSGraph.                                  *)
(***************************************************************************)

\* What a router advertises is a well-formed slot that shows its statuses.
LEMMA AdvertsShowStatus ==
  ASSUME NEW x \in Node, NEW st \in [Nbr[x] -> LinkStatus],
         NEW t \in Nat, NEW l \in Adverts(x, st)
  PROVE  /\ Seen(t, l) \in SeenSlot(x)
         /\ Seen(t, l).state = "SEEN" /\ Seen(t, l).ts = t
         /\ StatusOf(Seen(t, l)) = st
BY DEF TopologyAssumption, MetricAssumption, Adverts, Seen, SeenSlot, StatusOf, Link

\* update_global_this turns a graph into a graph, and a closed one into a closed one.
LEMMA UpdateGlobalThisGraph ==
  ASSUME NEW g, IsGraph(g), NEW r \in Node, NEW own \in SeenSlot(r)
  PROVE  /\ IsGraph(UpdateGlobalThis(g, r, own))
         /\ Closed(g) => Closed(UpdateGlobalThis(g, r, own))
         /\ UpdateGlobalThis(g, r, own)[r] = own
         /\ \A x \in Node \ {r} :
              UpdateGlobalThis(g, r, own)[x] \in {g[x], Opaque}
BY DEF TopologyAssumption, UpdateGlobalThis, IsGraph, Closed, MarkOpaque,
       Slot, SeenSlot, Unseen, Opaque

\* merge_in_node: the same, for an advertisement of any node.
LEMMA MergeInNodeGraph ==
  ASSUME NEW g, IsGraph(g), NEW x \in Node, NEW other \in SeenSlot(x)
  PROVE  /\ IsGraph(MergeInNode(g, x, other))
         /\ Closed(g) => Closed(MergeInNode(g, x, other))
         /\ \A y \in Node :
              MergeInNode(g, x, other)[y] \in
                {g[y]} \cup (IF y = x THEN {other} ELSE {Opaque})
BY DEF TopologyAssumption, MergeInNode, MergeSlot, Supersedes, IsGraph, Closed,
       MarkOpaque, Slot, SeenSlot, Unseen, Opaque

\* merge_in_graph: every slot comes from one of the two graphs.
LEMMA MergeInGraphGraph ==
  ASSUME NEW g, IsGraph(g), NEW other, IsGraph(other)
  PROVE  /\ IsGraph(MergeInGraph(g, other))
         /\ Closed(g) /\ Closed(other) => Closed(MergeInGraph(g, other))
         /\ \A y \in Node : MergeInGraph(g, other)[y] \in {g[y], other[y]}
BY DEF TopologyAssumption, MergeInGraph, MergeSlot, Supersedes, IsGraph, Closed,
       Slot, SeenSlot, Unseen, Opaque

-----------------------------------------------------------------------------
(***************************************************************************)
(* Lemmas about datagrams.                                                 *)
(***************************************************************************)
\* Sending adds nothing to what is in flight but the datagrams sent.
LEMMA EmitBound ==
  ASSUME NEW S, NEW ms, NEW bound, NEW T \in Emit(S, ms, bound)
  PROVE  T \subseteq S \cup ms
BY DEF Emit

\* Every copy sent names its sender, a router, and carries the slot sent.
LEMMA CopiesSent ==
  ASSUME NEW r, NEW x, NEW e, NEW except, NEW m \in Copies(r, x, e, except)
  PROVE  /\ m.src = r /\ m.origin = x /\ m.slot = e /\ m.dst \in Router
BY DEF Copies, RouterLSA

\* An advertisement sent shows the statuses it was made from.
LEMMA Advertised ==
  ASSUME TypeOK, NEW r \in Router, NEW st \in [Nbr[r] -> LinkStatus],
         Advertise(r, st), NEW m \in lsas' \ lsas
  PROVE  /\ m.src = r /\ m.origin = r /\ m.dst \in Router
         /\ m.slot \in SeenSlot(r) /\ m.slot.ts = clock /\ StatusOf(m.slot) = st
<1>1. PICK l \in Adverts(r, st) :
        lsas' \in Emit(lsas, Copies(r, r, Seen(clock, l), {}), MaxLsas)
  BY DEF Advertise
<1>2. m \in Copies(r, r, Seen(clock, l), {})
  BY <1>1, EmitBound
<1>3. m.src = r /\ m.origin = r /\ m.slot = Seen(clock, l) /\ m.dst \in Router
  BY <1>2, CopiesSent
<1>4. clock \in Nat /\ r \in Node
  BY DEF TypeOK, TopologyAssumption
<1> QED
  BY <1>3, <1>4, AdvertsShowStatus

\* Restamping changes one graph: its own slot, and UNSEEN slots to OPAQUE.
LEMMA Restamped ==
  ASSUME TypeOK, NEW r \in Router, NEW st \in [Nbr[r] -> LinkStatus],
         Restamp(r, st)
  PROVE  /\ DOMAIN graph' = Router
         /\ \A q \in Router \ {r} : graph'[q] = graph[q]
         /\ IsGraph(graph'[r])
         /\ Closed(graph[r]) => Closed(graph'[r])
         /\ graph'[r][r] \in SeenSlot(r)
         /\ graph'[r][r].ts = clock /\ StatusOf(graph'[r][r]) = st
         /\ \A x \in Node \ {r} : graph'[r][x] \in {graph[r][x], Opaque}
<1>1. PICK l \in Adverts(r, st) :
        graph' = [graph EXCEPT ![r] = UpdateGlobalThis(graph[r], r, Seen(clock, l))]
  BY DEF Restamp
<1>2. clock \in Nat /\ r \in Node /\ DOMAIN graph = Router /\ IsGraph(graph[r])
  BY DEF TypeOK, TopologyAssumption
<1>3. /\ Seen(clock, l) \in SeenSlot(r) /\ Seen(clock, l).ts = clock
      /\ StatusOf(Seen(clock, l)) = st
  BY <1>2, AdvertsShowStatus
<1>4. graph'[r] = UpdateGlobalThis(graph[r], r, Seen(clock, l))
  BY <1>1, <1>2
<1>5. \A q \in Router \ {r} : graph'[q] = graph[q]
  BY <1>1, <1>2
<1> QED
  BY <1>1, <1>2, <1>3, <1>4, <1>5, UpdateGlobalThisGraph

\* The three places where a copy of a slot can be.
LEMMA HeldWhere ==
  ASSUME NEW x, NEW e
  PROVE  e \in Held(x) <=> \/ \E q \in Router : e = graph[q][x]
                           \/ \E m \in lsas : m.origin = x /\ e = m.slot
                           \/ \E m \in nets : e = m.graph[x]
BY DEF Held

\* The same of the copies after a step.
LEMMA HeldWhereNext ==
  ASSUME NEW x, NEW e
  PROVE  e \in Held(x)' <=> \/ \E q \in Router : e = graph'[q][x]
                            \/ \E m \in lsas' : m.origin = x /\ e = m.slot
                            \/ \E m \in nets' : e = m.graph[x]
BY DEF Held

\* Every copy of a slot is a slot.
LEMMA HeldSlots ==
  ASSUME TypeOK, NEW x \in Node, NEW e \in Held(x)
  PROVE  e \in Slot(x) /\ e.ts \in Nat
BY HeldWhere DEF TypeOK, IsGraph, Slot, SeenSlot, Unseen, Opaque

-----------------------------------------------------------------------------
(***************************************************************************)
(* How the steps preserve the parts of the inductive invariant that talk   *)
(* about slots.                                                            *)
(***************************************************************************)
SlotsInv == OwnSlotCurrent /\ TimestampsPast /\ NewerCopiesCurrent /\ NeighboursKnown

\* A router that restamps its slot, and perhaps advertises it, with the
\* statuses it has from this step on.
LEMMA OwnStep ==
  ASSUME TypeOK, SlotsInv, NEW r \in alive, NEW st \in [Nbr[r] -> LinkStatus],
         DOMAIN status' = Router, status'[r] = st,
         \A q \in Router \ {r} : status'[q] = status[q],
         Restamp(r, st),
         Advertise(r, st) \/ UNCHANGED lsas,
         UNCHANGED <<clock, alive, nets, reqs>>,
         armed' \in [Router -> SUBSET Node]
  PROVE  TypeOK' /\ SlotsInv'
<1>0. r \in Router /\ r \in Node /\ clock \in Nat
  BY DEF TypeOK, TopologyAssumption
<1>1. /\ DOMAIN graph' = Router
      /\ \A q \in Router \ {r} : graph'[q] = graph[q]
      /\ IsGraph(graph'[r])
      /\ Closed(graph[r]) => Closed(graph'[r])
      /\ graph'[r][r] \in SeenSlot(r)
      /\ graph'[r][r].ts = clock /\ StatusOf(graph'[r][r]) = st
      /\ \A x \in Node \ {r} : graph'[r][x] \in {graph[r][x], Opaque}
  BY <1>0, Restamped
<1>2. \A m \in lsas' \ lsas :
        /\ m.src = r /\ m.origin = r /\ m.dst \in Router
        /\ m.slot \in SeenSlot(r) /\ m.slot.ts = clock /\ StatusOf(m.slot) = st
  BY <1>0, Advertised
<1>3. TypeOK'
  <2>1. DOMAIN status' = Router /\ \A q \in Router : status'[q] \in [Nbr[q] -> LinkStatus]
    BY <1>0 DEF TypeOK
  <2>2. \A q \in Router : IsGraph(graph'[q])
    BY <1>1 DEF TypeOK
  <2>3. \A m \in lsas' : /\ {m.src, m.dst, m.origin} \subseteq Router
                         /\ m.slot \in SeenSlot(m.origin)
    BY <1>0, <1>2 DEF TypeOK
  <2> QED
    BY <1>0, <1>1, <2>1, <2>2, <2>3 DEF TypeOK
<1>4. ASSUME NEW x \in Node, NEW e \in Held(x)'
      PROVE  \/ e \in Held(x) \cup {Opaque}
             \/ x = r /\ e.ts = clock /\ StatusOf(e) = st
  <2>1. CASE \E q \in Router : e = graph'[q][x]
    BY <2>1, <1>1, HeldWhere
  <2>2. CASE \E m \in lsas' : m.origin = x /\ e = m.slot
    BY <2>2, <1>2, HeldWhere
  <2>3. CASE \E m \in nets' : e = m.graph[x]
    BY <2>3, HeldWhere
  <2> QED
    BY <2>1, <2>2, <2>3, HeldWhereNext
<1>5. TimestampsPast'
  BY <1>0, <1>4 DEF SlotsInv, TimestampsPast, Opaque
<1>6. OwnSlotCurrent'
  BY <1>0, <1>1 DEF SlotsInv, OwnSlotCurrent, SeenSlot, TypeOK
<1>7. NewerCopiesCurrent'
  <2> SUFFICES ASSUME NEW q \in alive, NEW e \in Held(q)', e.state = "SEEN",
                      e.ts > graph'[q][q].ts
               PROVE  StatusOf(e) = status'[q]
    BY DEF NewerCopiesCurrent
  <2>1. q \in Router /\ q \in Node
    BY DEF TypeOK, TopologyAssumption
  <2>2. CASE q = r
    \* No copy is newer than a slot stamped with the present time.
    <3>1. e.ts \in Nat /\ e.ts <= clock
      BY <2>1, <1>0, <1>4, HeldSlots DEF SlotsInv, TimestampsPast, Opaque
    <3> QED
      BY <2>2, <3>1, <1>0, <1>1
  <2>3. CASE q # r
    BY <2>3, <2>1, <1>1, <1>4 DEF SlotsInv, NewerCopiesCurrent, Opaque, TypeOK
  <2> QED
    BY <2>2, <2>3
<1>8. NeighboursKnown'
  BY <1>0, <1>1 DEF SlotsInv, NeighboursKnown
<1> QED
  BY <1>3, <1>5, <1>6, <1>7, <1>8 DEF SlotsInv

\* Every other step: it makes no copy of a slot that a running router did not
\* already stand for, and replaces a running router's own slot by a newer copy
\* if at all.
LEMMA CopyStep ==
  ASSUME TypeOK, TypeOK', SlotsInv, NeighboursKnown',
         alive' \subseteq alive, \A r \in alive' : status'[r] = status[r],
         clock' \in Nat, clock' >= clock,
         \A x \in Node : \A e \in Held(x)' :
           \/ e \in Held(x) \cup {Unseen, Opaque}
           \/ x \in alive /\ e.ts = clock /\ StatusOf(e) = status[x],
         \A r \in alive' : \/ graph'[r][r] = graph[r][r]
                           \/ /\ graph'[r][r] \in Held(r)
                              /\ graph'[r][r].state = "SEEN"
                              /\ graph'[r][r].ts > graph[r][r].ts
  PROVE  SlotsInv'
<1>1. \A r \in alive' : r \in Router /\ r \in Node /\ r \in alive
  BY DEF TypeOK, TopologyAssumption
<1>2. TimestampsPast'
  <2> SUFFICES ASSUME NEW x \in Node, NEW e \in Held(x)' PROVE e.ts <= clock'
    BY DEF TimestampsPast
  <2>1. CASE e \in Held(x)
    BY <2>1, HeldSlots DEF SlotsInv, TimestampsPast, TypeOK
  <2>2. CASE e \in {Unseen, Opaque}
    BY <2>2 DEF Unseen, Opaque
  <2>3. CASE e.ts = clock
    BY <2>3
  <2> QED
    BY <2>1, <2>2, <2>3
<1>3. OwnSlotCurrent'
  BY <1>1 DEF SlotsInv, OwnSlotCurrent, NewerCopiesCurrent
<1>4. NewerCopiesCurrent'
  <2> SUFFICES ASSUME NEW r \in alive', NEW e \in Held(r)', e.state = "SEEN",
                      e.ts > graph'[r][r].ts
               PROVE  StatusOf(e) = status'[r]
    BY DEF NewerCopiesCurrent
  <2>1. CASE e \in Held(r)
    <3>1. graph[r][r] \in Held(r)
      BY <1>1, HeldWhere
    <3>2. graph[r][r].ts \in Nat /\ e.ts \in Nat /\ graph'[r][r].ts \in Nat
      BY <1>1, <2>1, <3>1, HeldSlots
    <3>3. e.ts > graph[r][r].ts
      BY <3>2
    <3> QED
      BY <1>1, <2>1, <3>3 DEF SlotsInv, NewerCopiesCurrent
  <2>2. CASE e \notin Held(r)
    BY <2>2, <1>1 DEF Unseen, Opaque
  <2> QED
    BY <2>1, <2>2
<1> QED
  BY <1>2, <1>3, <1>4 DEF SlotsInv

-----------------------------------------------------------------------------
(***************************************************************************)
(* One lemma per action.                                                   *)
(***************************************************************************)
\* Deaf steps of the slots: nothing moves but timers, requests and the clock.
LEMMA QuietStep ==
  ASSUME Inductive, UNCHANGED <<alive, status, armed, graph>>,
         clock' \in Nat, clock' >= clock,
         lsas' \subseteq lsas, nets' \subseteq nets, reqs' \subseteq reqs
  PROVE  Inductive'
<1>1. TypeOK'
  BY DEF Inductive, TypeOK
<1>2. NeighboursKnown'
  BY DEF Inductive, NeighboursKnown
<1>3. \A x \in Node : \A e \in Held(x)' : e \in Held(x)
  BY HeldWhere, HeldWhereNext
<1>4. SlotsInv'
  BY <1>1, <1>2, <1>3, CopyStep DEF Inductive, SlotsInv
<1> QED
  BY <1>1, <1>4 DEF Inductive, SlotsInv, ArmedIffUp

\* The prologue of driver(): a fresh graph, stamped with the time.
LEMMA BootStep ==
  ASSUME Inductive, NEW r \in Router, Boot(r)
  PROVE  Inductive'
<1>0. /\ r \in Node /\ r \notin alive /\ clock \in Nat /\ alive' = alive \cup {r}
      /\ AllDown(r) \in [Nbr[r] -> LinkStatus] /\ TypeOK
  BY DEF Inductive, TypeOK, TopologyAssumption, Boot, AllDown, LinkStatus
<1>1. PICK l \in Adverts(r, AllDown(r)) :
        graph' = [graph EXCEPT ![r] = UpdateGlobalThis(EmptyGraph, r, Seen(clock, l))]
  BY DEF Boot
<1>2. /\ Seen(clock, l) \in SeenSlot(r) /\ Seen(clock, l).ts = clock
      /\ StatusOf(Seen(clock, l)) = AllDown(r) /\ Seen(clock, l).state = "SEEN"
  BY <1>0, AdvertsShowStatus
<1>3. IsGraph(EmptyGraph) /\ Closed(EmptyGraph) /\ \A x \in Node : EmptyGraph[x] = Unseen
  BY DEF IsGraph, Closed, EmptyGraph, Slot, Unseen
<1>4. /\ DOMAIN graph' = Router
      /\ \A q \in Router \ {r} : graph'[q] = graph[q]
      /\ IsGraph(graph'[r]) /\ Closed(graph'[r])
      /\ graph'[r][r] = Seen(clock, l)
      /\ \A x \in Node \ {r} : graph'[r][x] \in {Unseen, Opaque}
  <2>1. graph'[r] = UpdateGlobalThis(EmptyGraph, r, Seen(clock, l))
    BY <1>0, <1>1 DEF TypeOK
  <2>2. DOMAIN graph' = Router /\ \A q \in Router \ {r} : graph'[q] = graph[q]
    BY <1>0, <1>1 DEF TypeOK
  <2> QED
    BY <1>0, <1>2, <1>3, <2>1, <2>2, UpdateGlobalThisGraph
<1>5. \A m \in reqs' : m \in Requests
  BY <1>0, EmitBound DEF Boot, Request, Requests, TypeOK
<1>6. TypeOK'
  <2>1. DOMAIN status' = Router /\ \A q \in Router : status'[q] \in [Nbr[q] -> LinkStatus]
    BY <1>0 DEF Boot, TypeOK
  <2>2. \A q \in Router : IsGraph(graph'[q])
    BY <1>0, <1>4 DEF TypeOK
  <2> QED
    BY <1>0, <1>4, <1>5, <2>1, <2>2 DEF Boot, TypeOK
<1>7. NeighboursKnown'
  BY <1>4 DEF Inductive, NeighboursKnown, Boot
<1>8. ArmedIffUp'
  BY <1>0 DEF Boot, Inductive, ArmedIffUp, AllDown, TypeOK
<1>9. ASSUME NEW x \in Node, NEW e \in Held(x)'
      PROVE  \/ e \in Held(x) \cup {Unseen, Opaque}
             \/ x = r /\ e = Seen(clock, l)
  <2>0. lsas' = lsas /\ nets' = nets
    BY DEF Boot
  <2>1. CASE \E q \in Router : e = graph'[q][x]
    BY <2>1, <1>4, HeldWhere
  <2>2. CASE \E m \in lsas' : m.origin = x /\ e = m.slot
    BY <2>2, <2>0, HeldWhere
  <2>3. CASE \E m \in nets' : e = m.graph[x]
    BY <2>3, <2>0, HeldWhere
  <2> QED
    BY <2>1, <2>2, <2>3, HeldWhereNext
<1>10. ASSUME NEW x \in Node, NEW e \in Held(x)' PROVE e.ts \in Nat /\ e.ts <= clock
  BY <1>0, <1>2, <1>9, HeldSlots DEF Inductive, TimestampsPast, Unseen, Opaque
<1>11. TimestampsPast'
  BY <1>10 DEF Boot, TimestampsPast
<1>12. status'[r] = AllDown(r) /\ \A q \in alive : q # r /\ status'[q] = status[q] /\ q \in Router
  BY <1>0 DEF Boot, TypeOK
<1>13. OwnSlotCurrent'
  BY <1>0, <1>2, <1>4, <1>12 DEF Inductive, OwnSlotCurrent
<1>14. NewerCopiesCurrent'
  <2> SUFFICES ASSUME NEW q \in alive', NEW e \in Held(q)', e.state = "SEEN",
                      e.ts > graph'[q][q].ts
               PROVE  StatusOf(e) = status'[q]
    BY DEF NewerCopiesCurrent
  <2>1. CASE q = r
    BY <2>1, <1>0, <1>2, <1>4, <1>10
  <2>2. CASE q # r
    <3>1. q \in alive /\ q \in Node /\ q \in Router
      BY <2>2, <1>0 DEF TypeOK, TopologyAssumption
    <3>2. e \in Held(q)
      BY <2>2, <3>1, <1>9 DEF Unseen, Opaque
    <3>3. status'[q] = status[q] /\ graph'[q] = graph[q]
      BY <2>2, <3>1, <1>4, <1>12
    <3> QED
      BY <3>1, <3>2, <3>3 DEF Inductive, NewerCopiesCurrent
  <2> QED
    BY <2>1, <2>2
<1> QED
  BY <1>6, <1>7, <1>8, <1>11, <1>13, <1>14 DEF Inductive

\* A daemon that dies takes its graph with it; its datagrams stay.
LEMMA CrashStep ==
  ASSUME Inductive, NEW r \in Router, Crash(r)
  PROVE  Inductive'
<1>0. /\ r \in Node /\ TypeOK /\ lsas' = lsas /\ nets' = nets /\ clock' = clock
      /\ alive' = alive \ {r} /\ clock \in Nat /\ AllDown(r) \in [Nbr[r] -> LinkStatus]
  BY DEF Inductive, TypeOK, TopologyAssumption, Crash, AllDown, LinkStatus
<1>1. /\ IsGraph(EmptyGraph) /\ Closed(EmptyGraph)
      /\ \A x \in Node : EmptyGraph[x] = Unseen
  BY DEF IsGraph, Closed, EmptyGraph, Slot, Unseen
<1>2. /\ DOMAIN graph' = Router /\ graph'[r] = EmptyGraph
      /\ \A q \in Router \ {r} : graph'[q] = graph[q]
  BY <1>0 DEF Crash, TypeOK
<1>3. TypeOK'
  <2>1. DOMAIN status' = Router /\ \A q \in Router : status'[q] \in [Nbr[q] -> LinkStatus]
    BY <1>0 DEF Crash, TypeOK
  <2>2. \A q \in Router : IsGraph(graph'[q])
    BY <1>1, <1>2 DEF Inductive, TypeOK
  <2> QED
    BY <1>0, <1>2, <2>1, <2>2 DEF Crash, TypeOK
<1>4. NeighboursKnown' /\ ArmedIffUp'
  BY <1>0, <1>1, <1>2 DEF Inductive, NeighboursKnown, ArmedIffUp, Crash, TypeOK
<1>5. \A x \in Node : \A e \in Held(x)' : e \in Held(x) \cup {Unseen, Opaque}
  BY <1>0, <1>1, <1>2, HeldWhere, HeldWhereNext
<1>6. \A q \in alive' : q \in Router \ {r} /\ status'[q] = status[q]
  BY <1>0 DEF Crash, TypeOK
<1>7. SlotsInv'
  BY <1>0, <1>2, <1>3, <1>4, <1>5, <1>6, CopyStep DEF Inductive, SlotsInv
<1> QED
  BY <1>3, <1>4, <1>7 DEF Inductive, SlotsInv

\* receive_heartbeat: a link that comes UP re-stamps the own slot.
LEMMA ReceiveHeartbeatStep ==
  ASSUME Inductive, NEW r \in Router, NEW n \in Nbr[r], ReceiveHeartbeat(r, n)
  PROVE  Inductive'
<1>0. /\ r \in alive /\ TypeOK /\ n \in Node
      /\ armed' = [armed EXCEPT ![r] = @ \cup {n}]
      /\ armed' \in [Router -> SUBSET Node]
  BY DEF Inductive, TypeOK, ReceiveHeartbeat, TopologyAssumption
<1>1. CASE status[r][n] = "DOWN"
  <2> DEFINE st == [status[r] EXCEPT ![n] = "UP"]
  <2>1. /\ st \in [Nbr[r] -> LinkStatus]
        /\ DOMAIN status' = Router /\ status'[r] = st
        /\ \A q \in Router \ {r} : status'[q] = status[q]
        /\ Advertise(r, st) /\ Restamp(r, st)
        /\ UNCHANGED <<clock, alive, nets, reqs>>
    BY <1>0, <1>1 DEF TypeOK, LinkStatus, ReceiveHeartbeat, LinkChange
  <2>2. TypeOK' /\ SlotsInv'
    BY <1>0, <2>1, OwnStep DEF Inductive, SlotsInv
  <2>3. \A k \in Nbr[r] : status'[r][k] = IF k = n THEN "UP" ELSE status[r][k]
    BY <1>0, <2>1 DEF TypeOK
  <2>4. ArmedIffUp'
    <3> SUFFICES ASSUME NEW q \in alive
                 PROVE  armed'[q] = {k \in Nbr[q] : status'[q][k] = "UP"}
      BY <2>1 DEF ArmedIffUp
    <3>1. CASE q = r
      BY <3>1, <1>0, <2>3 DEF Inductive, ArmedIffUp, TypeOK
    <3>2. CASE q # r
      BY <3>2, <1>0, <2>1 DEF Inductive, ArmedIffUp, TypeOK
    <3> QED
      BY <3>1, <3>2
  <2> QED
    BY <2>2, <2>4 DEF Inductive, SlotsInv
<1>2. CASE status[r][n] # "DOWN"
  <2>1. status[r][n] = "UP" /\ UNCHANGED <<status, graph, lsas, clock, alive, nets, reqs>>
    BY <1>0, <1>2 DEF TypeOK, LinkStatus, ReceiveHeartbeat
  <2>2. armed' = armed
    BY <1>0, <2>1 DEF Inductive, ArmedIffUp, TypeOK
  <2>3. UNCHANGED <<alive, status, armed, graph>> /\ clock' \in Nat /\ clock' >= clock
    BY <1>0, <2>1, <2>2 DEF TypeOK
  <2> QED
    BY <2>1, <2>3, QuietStep
<1> QED
  BY <1>1, <1>2

\* timeout_heartbeat: so does a link that goes DOWN.
LEMMA HeartbeatTimeoutStep ==
  ASSUME Inductive, NEW r \in Router, NEW n \in Nbr[r], HeartbeatTimeout(r, n)
  PROVE  Inductive'
<1>0. r \in alive /\ TypeOK /\ status[r][n] = "UP"
  BY DEF Inductive, ArmedIffUp, HeartbeatTimeout
<1> DEFINE st == [status[r] EXCEPT ![n] = "DOWN"]
<1>1. /\ st \in [Nbr[r] -> LinkStatus]
      /\ DOMAIN status' = Router /\ status'[r] = st
      /\ \A q \in Router \ {r} : status'[q] = status[q]
      /\ Advertise(r, st) /\ Restamp(r, st)
      /\ armed' = [armed EXCEPT ![r] = @ \ {n}]
      /\ armed' \in [Router -> SUBSET Node]
      /\ UNCHANGED <<clock, alive, nets, reqs>>
  BY <1>0 DEF TypeOK, LinkStatus, HeartbeatTimeout, LinkChange
<1>2. TypeOK' /\ SlotsInv'
  BY <1>0, <1>1, OwnStep DEF Inductive, SlotsInv
<1>3. \A k \in Nbr[r] : status'[r][k] = IF k = n THEN "DOWN" ELSE status[r][k]
  BY <1>0, <1>1 DEF TypeOK
<1>4. ArmedIffUp'
  <2> SUFFICES ASSUME NEW q \in alive
               PROVE  armed'[q] = {k \in Nbr[q] : status'[q][k] = "UP"}
    BY <1>1 DEF ArmedIffUp
  <2>1. CASE q = r
    BY <2>1, <1>0, <1>1, <1>3 DEF Inductive, ArmedIffUp, TypeOK
  <2>2. CASE q # r
    BY <2>2, <1>0, <1>1 DEF Inductive, ArmedIffUp, TypeOK
  <2> QED
    BY <2>1, <2>2
<1> QED
  BY <1>2, <1>4 DEF Inductive, SlotsInv

\* The periodic LSA is stamped anew, the own slot is not.
LEMMA LsaTimerStep ==
  ASSUME Inductive, NEW r \in Router, LsaTimer(r)
  PROVE  Inductive'
<1>0. /\ r \in alive /\ TypeOK /\ r \in Node /\ status[r] \in [Nbr[r] -> LinkStatus]
      /\ UNCHANGED <<clock, nets, reqs, alive, status, armed, graph>>
      /\ Advertise(r, status[r])
  BY DEF Inductive, TypeOK, LsaTimer, memory, TopologyAssumption
<1>1. \A m \in lsas' \ lsas :
        /\ m.src = r /\ m.origin = r /\ m.dst \in Router
        /\ m.slot \in SeenSlot(r) /\ m.slot.ts = clock /\ StatusOf(m.slot) = status[r]
  BY <1>0, Advertised
<1>2. TypeOK'
  <2>1. \A m \in lsas' : /\ {m.src, m.dst, m.origin} \subseteq Router
                         /\ m.slot \in SeenSlot(m.origin)
    BY <1>0, <1>1 DEF TypeOK
  <2> QED
    BY <1>0, <2>1 DEF TypeOK
<1>3. NeighboursKnown' /\ ArmedIffUp'
  BY <1>0 DEF Inductive, NeighboursKnown, ArmedIffUp
<1>4. ASSUME NEW x \in Node, NEW e \in Held(x)'
      PROVE  \/ e \in Held(x) \cup {Unseen, Opaque}
             \/ x \in alive /\ e.ts = clock /\ StatusOf(e) = status[x]
  BY <1>0, <1>1, HeldWhere, HeldWhereNext
<1>5. clock' \in Nat /\ clock' >= clock
  BY <1>0 DEF TypeOK
<1>6. SlotsInv'
  BY <1>0, <1>2, <1>3, <1>4, <1>5, CopyStep DEF Inductive, SlotsInv
<1> QED
  BY <1>2, <1>3, <1>6 DEF Inductive, SlotsInv

\* The recomputation timer re-stamps the own slot.
LEMMA RecomputeTimerStep ==
  ASSUME Inductive, NEW r \in Router, RecomputeTimer(r)
  PROVE  Inductive'
<1>0. /\ r \in alive /\ TypeOK /\ status[r] \in [Nbr[r] -> LinkStatus]
      /\ DOMAIN status = Router /\ Restamp(r, status[r])
      /\ UNCHANGED <<clock, alive, status, armed, lsas, nets, reqs>>
      /\ armed' \in [Router -> SUBSET Node]
  BY DEF Inductive, TypeOK, RecomputeTimer
<1>1. TypeOK' /\ SlotsInv'
  BY <1>0, OwnStep DEF Inductive, SlotsInv
<1>2. ArmedIffUp'
  BY <1>0 DEF Inductive, ArmedIffUp
<1> QED
  BY <1>1, <1>2 DEF Inductive, SlotsInv

\* receive_router_lsa copies a slot and floods it.
LEMMA ReceiveRouterLSAStep ==
  ASSUME Inductive, NEW m \in lsas, ReceiveRouterLSA(m)
  PROVE  Inductive'
<1> DEFINE r == m.dst
<1> DEFINE x == m.origin
<1>0. /\ r \in alive /\ r \in Router /\ r \in Node /\ x \in Node /\ x \in Router
      /\ m.slot \in SeenSlot(x) /\ TypeOK
      /\ graph' = [graph EXCEPT ![r] = MergeInNode(graph[r], x, m.slot)]
      /\ UNCHANGED <<clock, alive, status, armed, nets, reqs>>
  BY DEF Inductive, TypeOK, ReceiveRouterLSA, TopologyAssumption
<1>1. \A k \in lsas' \ lsas : /\ k.src = r /\ k.dst \in Router
                              /\ k.origin = x /\ k.slot = m.slot
  BY <1>0, EmitBound, CopiesSent DEF ReceiveRouterLSA
<1>2. /\ DOMAIN graph' = Router /\ graph'[r] = MergeInNode(graph[r], x, m.slot)
      /\ \A q \in Router \ {r} : graph'[q] = graph[q]
  BY <1>0 DEF TypeOK
<1>3. /\ IsGraph(graph'[r]) /\ (Closed(graph[r]) => Closed(graph'[r]))
      /\ \A y \in Node : graph'[r][y] \in
                           {graph[r][y]} \cup (IF y = x THEN {m.slot} ELSE {Opaque})
  <2>1. IsGraph(graph[r])
    BY <1>0 DEF TypeOK
  <2> HIDE DEF r, x
  <2> QED
    BY <1>0, <1>2, <2>1, MergeInNodeGraph
<1>4. TypeOK'
  <2>1. \A k \in lsas' : /\ {k.src, k.dst, k.origin} \subseteq Router
                         /\ k.slot \in SeenSlot(k.origin)
    BY <1>0, <1>1 DEF TypeOK
  <2>2. \A q \in Router : IsGraph(graph'[q])
    BY <1>2, <1>3 DEF Inductive, TypeOK
  <2> QED
    BY <1>0, <1>2, <2>1, <2>2 DEF TypeOK
<1>5. NeighboursKnown' /\ ArmedIffUp'
  BY <1>0, <1>2, <1>3 DEF Inductive, NeighboursKnown, ArmedIffUp
<1>6. m.slot \in Held(x)
  BY HeldWhere
<1>7. ASSUME NEW y \in Node, NEW e \in Held(y)' PROVE e \in Held(y) \cup {Unseen, Opaque}
  <2>1. CASE \E q \in Router : e = graph'[q][y]
    BY <2>1, <1>2, <1>3, <1>6, HeldWhere
  <2>2. CASE \E k \in lsas' : k.origin = y /\ e = k.slot
    BY <2>2, <1>1, <1>6, HeldWhere
  <2>3. CASE \E k \in nets' : e = k.graph[y]
    BY <2>3, <1>0, HeldWhere
  <2> QED
    BY <2>1, <2>2, <2>3, HeldWhereNext
<1>8. ASSUME NEW q \in alive
      PROVE  \/ graph'[q][q] = graph[q][q]
             \/ /\ graph'[q][q] \in Held(q)
                /\ graph'[q][q].state = "SEEN"
                /\ graph'[q][q].ts > graph[q][q].ts
  <2>1. q \in Router /\ q \in Node /\ graph[q][q].state = "SEEN"
    BY <1>0 DEF Inductive, OwnSlotCurrent, TypeOK
  <2>2. CASE q # r
    BY <2>1, <2>2, <1>2
  <2>3. CASE q = r
    BY <2>1, <2>3, <1>0, <1>2, <1>6
       DEF MergeInNode, MergeSlot, Supersedes, MarkOpaque, SeenSlot
  <2> QED
    BY <2>2, <2>3
<1>9. clock' \in Nat /\ clock' >= clock
  BY <1>0 DEF TypeOK
<1>10. SlotsInv'
  BY <1>0, <1>4, <1>5, <1>7, <1>8, <1>9, CopyStep DEF Inductive, SlotsInv
<1> QED
  BY <1>4, <1>5, <1>10 DEF Inductive, SlotsInv

\* receive_network_lsa copies slots of another graph.
LEMMA ReceiveNetworkLSAStep ==
  ASSUME Inductive, NEW m \in nets, ReceiveNetworkLSA(m)
  PROVE  Inductive'
<1> DEFINE r == m.dst
<1>0. /\ r \in alive /\ r \in Router /\ TypeOK
      /\ IsGraph(m.graph) /\ Closed(m.graph)
      /\ graph' = [graph EXCEPT ![r] = MergeInGraph(graph[r], m.graph)]
      /\ UNCHANGED <<clock, alive, status, armed, lsas, reqs>> /\ nets' \subseteq nets
  BY EmitBound DEF Inductive, TypeOK, NeighboursKnown, ReceiveNetworkLSA
<1>2. /\ DOMAIN graph' = Router /\ graph'[r] = MergeInGraph(graph[r], m.graph)
      /\ \A q \in Router \ {r} : graph'[q] = graph[q]
  BY <1>0 DEF TypeOK
<1>3. /\ IsGraph(graph'[r]) /\ (Closed(graph[r]) => Closed(graph'[r]))
      /\ \A y \in Node : graph'[r][y] \in {graph[r][y], m.graph[y]}
  <2>1. IsGraph(graph[r])
    BY <1>0 DEF TypeOK
  <2> HIDE DEF r
  <2> QED
    BY <1>0, <1>2, <2>1, MergeInGraphGraph
<1>4. TypeOK'
  <2>1. \A q \in Router : IsGraph(graph'[q])
    BY <1>2, <1>3 DEF Inductive, TypeOK
  <2> QED
    BY <1>0, <1>2, <2>1 DEF TypeOK
<1>5. NeighboursKnown' /\ ArmedIffUp'
  BY <1>0, <1>2, <1>3 DEF Inductive, NeighboursKnown, ArmedIffUp
<1>6. \A y \in Node : m.graph[y] \in Held(y)
  BY HeldWhere
<1>7. ASSUME NEW y \in Node, NEW e \in Held(y)' PROVE e \in Held(y)
  <2>1. CASE \E q \in Router : e = graph'[q][y]
    BY <2>1, <1>2, <1>3, <1>6, HeldWhere
  <2>2. CASE \E k \in lsas' : k.origin = y /\ e = k.slot
    BY <2>2, <1>0, HeldWhere
  <2>3. CASE \E k \in nets' : e = k.graph[y]
    BY <2>3, <1>0, HeldWhere
  <2> QED
    BY <2>1, <2>2, <2>3, HeldWhereNext
<1>8. ASSUME NEW q \in alive
      PROVE  \/ graph'[q][q] = graph[q][q]
             \/ /\ graph'[q][q] \in Held(q)
                /\ graph'[q][q].state = "SEEN"
                /\ graph'[q][q].ts > graph[q][q].ts
  <2>1. q \in Router /\ q \in Node /\ graph[q][q].state = "SEEN"
    BY <1>0 DEF Inductive, OwnSlotCurrent, TypeOK, TopologyAssumption
  <2>2. CASE q # r
    BY <2>1, <2>2, <1>2
  <2>3. CASE q = r
    BY <2>1, <2>3, <1>0, <1>2, <1>6 DEF MergeInGraph, MergeSlot, Supersedes
  <2> QED
    BY <2>2, <2>3
<1>9. clock' \in Nat /\ clock' >= clock
  BY <1>0 DEF TypeOK
<1>10. SlotsInv'
  BY <1>0, <1>4, <1>5, <1>7, <1>8, <1>9, CopyStep DEF Inductive, SlotsInv
<1> QED
  BY <1>4, <1>5, <1>10 DEF Inductive, SlotsInv

\* receive_network_lsa_request sends the graph as it is.
LEMMA ReceiveRequestStep ==
  ASSUME Inductive, NEW m \in reqs, ReceiveRequest(m)
  PROVE  Inductive'
<1>0. /\ m.src \in Router /\ m.dst \in Router /\ TypeOK
      /\ UNCHANGED <<clock, lsas, alive, status, armed, graph>> /\ reqs' \subseteq reqs
  BY EmitBound DEF Inductive, TypeOK, Requests, ReceiveRequest, memory
<1>1. \A k \in nets' \ nets : k.dst = m.src /\ k.graph = graph[m.dst]
  BY EmitBound DEF ReceiveRequest, NetworkLSA
<1>2. TypeOK'
  BY <1>0, <1>1 DEF TypeOK
<1>3. NeighboursKnown' /\ ArmedIffUp'
  BY <1>0, <1>1 DEF Inductive, NeighboursKnown, ArmedIffUp
<1>4. \A x \in Node : \A e \in Held(x)' : e \in Held(x)
  BY <1>0, <1>1, HeldWhere, HeldWhereNext
<1>5. clock' \in Nat /\ clock' >= clock
  BY <1>0 DEF TypeOK
<1>6. SlotsInv'
  BY <1>0, <1>2, <1>3, <1>4, <1>5, CopyStep DEF Inductive, SlotsInv
<1> QED
  BY <1>2, <1>3, <1>6 DEF Inductive, SlotsInv

-----------------------------------------------------------------------------
(***************************************************************************)
(* The inductive invariant.                                                *)
(***************************************************************************)
LEMMA InductiveInit == Init => Inductive
<1> SUFFICES ASSUME Init PROVE Inductive
  OBVIOUS
<1>1. IsGraph(EmptyGraph) /\ Closed(EmptyGraph) /\ \A x \in Node : EmptyGraph[x] = Unseen
  BY DEF IsGraph, Closed, EmptyGraph, Slot, Unseen
<1>2. TypeOK
  BY <1>1 DEF Init, TypeOK, AllDown, LinkStatus, TopologyAssumption
<1>3. TimestampsPast
  <2> SUFFICES ASSUME NEW x \in Node, NEW e \in Held(x) PROVE e.ts <= clock
    BY DEF TimestampsPast
  <2>1. e = Unseen
    BY <1>1, HeldWhere DEF Init
  <2> QED
    BY <2>1 DEF Init, Unseen
<1> QED
  BY <1>1, <1>2, <1>3
     DEF Init, Inductive, ArmedIffUp, NeighboursKnown, OwnSlotCurrent, NewerCopiesCurrent

\* The network loses a datagram: there are fewer copies.
LEMMA LoseStep ==
  ASSUME Inductive, Lose PROVE Inductive'
<1>1. /\ UNCHANGED <<clock, alive, status, armed, graph>>
      /\ lsas' \subseteq lsas /\ nets' \subseteq nets /\ reqs' \subseteq reqs
  BY DEF Lose, memory
<1>2. clock' \in Nat /\ clock' >= clock
  BY <1>1 DEF Inductive, TypeOK
<1> QED
  BY <1>1, <1>2, QuietStep

\* Time passes: what was past stays past.
LEMMA TickStep ==
  ASSUME Inductive, Tick PROVE Inductive'
<1>1. /\ UNCHANGED <<alive, status, armed, graph>>
      /\ lsas' \subseteq lsas /\ nets' \subseteq nets /\ reqs' \subseteq reqs
  BY DEF Tick, memory, network
<1>2. clock' \in Nat /\ clock' >= clock
  BY DEF Inductive, TypeOK, Tick
<1> QED
  BY <1>1, <1>2, QuietStep

\* One case per action.
LEMMA InductiveNext == Inductive /\ [Next]_vars => Inductive'
<1> SUFFICES ASSUME Inductive, [Next]_vars PROVE Inductive'
  OBVIOUS
<1>1. CASE Tick
  BY <1>1, TickStep
<1>2. CASE Lose
  BY <1>2, LoseStep
<1>3. ASSUME NEW r \in Router, Boot(r) PROVE Inductive'
  BY <1>3, BootStep
<1>4. ASSUME NEW r \in Router, Crash(r) PROVE Inductive'
  BY <1>4, CrashStep
<1>5. ASSUME NEW r \in Router, LsaTimer(r) PROVE Inductive'
  BY <1>5, LsaTimerStep
<1>6. ASSUME NEW r \in Router, RecomputeTimer(r) PROVE Inductive'
  BY <1>6, RecomputeTimerStep
<1>7. ASSUME NEW r \in Router, NEW n \in Nbr[r], ReceiveHeartbeat(r, n) PROVE Inductive'
  BY <1>7, ReceiveHeartbeatStep
<1>8. ASSUME NEW r \in Router, NEW n \in Nbr[r], HeartbeatTimeout(r, n) PROVE Inductive'
  BY <1>8, HeartbeatTimeoutStep
<1>9. ASSUME NEW m \in lsas, ReceiveRouterLSA(m) PROVE Inductive'
  BY <1>9, ReceiveRouterLSAStep
<1>10. ASSUME NEW m \in nets, ReceiveNetworkLSA(m) PROVE Inductive'
  BY <1>10, ReceiveNetworkLSAStep
<1>11. ASSUME NEW m \in reqs, ReceiveRequest(m) PROVE Inductive'
  BY <1>11, ReceiveRequestStep
<1>12. CASE UNCHANGED vars
  <2>1. /\ UNCHANGED <<clock, alive, status, armed, graph>>
        /\ lsas' \subseteq lsas /\ nets' \subseteq nets /\ reqs' \subseteq reqs
    BY <1>12 DEF vars
  <2>2. clock' \in Nat /\ clock' >= clock
    BY <2>1 DEF Inductive, TypeOK
  <2> QED
    BY <2>1, <2>2, QuietStep
<1> QED
  BY <1>1, <1>2, <1>3, <1>4, <1>5, <1>6, <1>7, <1>8, <1>9, <1>10, <1>11, <1>12 DEF Next

-----------------------------------------------------------------------------
(***************************************************************************)
(* Steps of a running router only move its slots forward.                  *)
(***************************************************************************)
LEMMA ForwardSame ==
  ASSUME NEW x \in Node, NEW e \in Slot(x) PROVE Forward(e, e)
BY DEF Forward, Rank, Slot, SeenSlot, Unseen, Opaque

\* Learning of a node as a neighbour moves its slot forward.
LEMMA ForwardMark ==
  ASSUME NEW x \in Node, NEW e \in Slot(x) PROVE Forward(e, MarkOpaque(e))
BY DEF Forward, Rank, MarkOpaque, Slot, SeenSlot, Unseen, Opaque

\* So does merging any other slot.
LEMMA ForwardMerge ==
  ASSUME NEW x \in Node, NEW e \in Slot(x), NEW f \in Slot(x)
  PROVE  Forward(e, MergeSlot(e, f))
BY DEF Forward, Rank, MergeSlot, Supersedes, Slot, SeenSlot, Unseen, Opaque

\* So does stamping the own slot with the present time.
LEMMA ForwardRestamp ==
  ASSUME Inductive, NEW r \in Router, NEW st \in [Nbr[r] -> LinkStatus],
         Restamp(r, st), NEW q \in Router, NEW x \in Node
  PROVE  Forward(graph[q][x], graph'[q][x])
<1>0. TypeOK /\ r \in Node /\ clock \in Nat /\ DOMAIN graph = Router /\ IsGraph(graph[q])
  BY DEF Inductive, TypeOK, TopologyAssumption
<1>1. PICK l \in Adverts(r, st) :
        graph' = [graph EXCEPT ![r] = UpdateGlobalThis(graph[r], r, Seen(clock, l))]
  BY DEF Restamp
<1>2. graph[q][x] \in Slot(x)
  BY <1>0 DEF IsGraph
<1>3. CASE q # r
  BY <1>0, <1>1, <1>2, <1>3, ForwardSame
<1>4. CASE q = r
  <2>1. graph'[q] = UpdateGlobalThis(graph[r], r, Seen(clock, l))
    BY <1>0, <1>1, <1>4
  <2>2. CASE x = r
    <3>1. graph[q][x] \in Held(x) /\ graph[q][x].ts <= clock
      BY HeldWhere DEF Inductive, TimestampsPast
    <3>2. graph[q][x].ts \in Nat
      BY <1>0, <3>1, HeldSlots
    <3>3. graph'[q][x] = Seen(clock, l)
      BY <2>1, <2>2 DEF UpdateGlobalThis
    <3> QED
      BY <1>2, <3>1, <3>2, <3>3
         DEF Forward, Rank, Seen, Slot, SeenSlot, Unseen, Opaque
  <2>3. CASE x # r
    <3>1. graph'[q][x] \in {graph[q][x], MarkOpaque(graph[q][x])}
      BY <1>4, <2>1, <2>3 DEF UpdateGlobalThis
    <3> QED
      BY <1>2, <3>1, ForwardSame, ForwardMark
  <2> QED
    BY <2>2, <2>3
<1> QED
  BY <1>3, <1>4

\* One case per action.
LEMMA ForwardNext == Inductive /\ Next => ViewsForward
<1> SUFFICES ASSUME Inductive, Next, NEW q \in alive \cap alive', NEW x \in Node
             PROVE  Forward(graph[q][x], graph'[q][x])
  BY DEF ViewsForward
<1>0. TypeOK /\ q \in Router /\ DOMAIN graph = Router /\ IsGraph(graph[q])
  BY DEF Inductive, TypeOK
<1>1. graph[q][x] \in Slot(x)
  BY <1>0 DEF IsGraph
<1>2. CASE UNCHANGED graph
  BY <1>1, <1>2, ForwardSame
<1>3. ASSUME NEW r \in Router, Boot(r) \/ Crash(r)
      PROVE  Forward(graph[q][x], graph'[q][x])
  <2>1. q # r
    BY <1>3 DEF Boot, Crash
  <2>2. graph'[q] = graph[q]
    BY <1>0, <1>3, <2>1 DEF Boot, Crash
  <2> QED
    BY <1>1, <2>2, ForwardSame
<1>4. ASSUME NEW r \in Router, NEW st \in [Nbr[r] -> LinkStatus], Restamp(r, st)
      PROVE  Forward(graph[q][x], graph'[q][x])
  BY <1>0, <1>4, ForwardRestamp
<1>5. ASSUME NEW r \in Router, NEW n \in Nbr[r], NEW s \in LinkStatus, LinkChange(r, n, s)
      PROVE  Forward(graph[q][x], graph'[q][x])
  <2>1. [status[r] EXCEPT ![n] = s] \in [Nbr[r] -> LinkStatus]
    BY <1>0 DEF TypeOK
  <2> QED
    BY <1>4, <1>5, <2>1 DEF LinkChange
<1>6. ASSUME NEW r \in Router, NEW n \in Nbr[r],
             ReceiveHeartbeat(r, n) \/ HeartbeatTimeout(r, n)
      PROVE  Forward(graph[q][x], graph'[q][x])
  <2>1. LinkChange(r, n, "UP") \/ LinkChange(r, n, "DOWN") \/ UNCHANGED graph
    BY <1>6 DEF ReceiveHeartbeat, HeartbeatTimeout
  <2> QED
    BY <1>2, <1>5, <2>1 DEF LinkStatus
<1>7. ASSUME NEW r \in Router, RecomputeTimer(r)
      PROVE  Forward(graph[q][x], graph'[q][x])
  <2>1. status[r] \in [Nbr[r] -> LinkStatus]
    BY <1>0 DEF TypeOK
  <2> QED
    BY <1>4, <1>7, <2>1 DEF RecomputeTimer
<1>8. ASSUME NEW m \in lsas, ReceiveRouterLSA(m)
      PROVE  Forward(graph[q][x], graph'[q][x])
  <2>1. m.slot \in Slot(m.origin) /\ m.origin \in Node
    BY <1>0 DEF TypeOK, Slot, TopologyAssumption
  <2>2. graph'[q][x] \in {graph[q][x], MarkOpaque(graph[q][x])}
        \/ (x = m.origin /\ graph'[q][x] = MergeSlot(graph[q][x], m.slot))
    BY <1>0, <1>8 DEF ReceiveRouterLSA, MergeInNode
  <2> QED
    BY <1>1, <2>1, <2>2, ForwardSame, ForwardMark, ForwardMerge
<1>9. ASSUME NEW m \in nets, ReceiveNetworkLSA(m)
      PROVE  Forward(graph[q][x], graph'[q][x])
  <2>1. m.graph[x] \in Slot(x)
    BY <1>0 DEF TypeOK, IsGraph
  <2>2. graph'[q][x] \in {graph[q][x], MergeSlot(graph[q][x], m.graph[x])}
    BY <1>0, <1>9 DEF ReceiveNetworkLSA, MergeInGraph
  <2> QED
    BY <1>1, <2>1, <2>2, ForwardSame, ForwardMerge
<1>10. ASSUME Tick \/ Lose \/ (\E r \in Router : LsaTimer(r)) \/ (\E m \in reqs : ReceiveRequest(m))
       PROVE  UNCHANGED graph
  BY <1>10 DEF Tick, Lose, LsaTimer, ReceiveRequest, memory
<1> QED
  BY <1>2, <1>3, <1>6, <1>7, <1>8, <1>9, <1>10 DEF Next

-----------------------------------------------------------------------------
(***************************************************************************)
(* The theorems.                                                           *)
(***************************************************************************)
(***************************************************************************)
(* The invariant of driver()'s handlers taken together.                    *)
(***************************************************************************)
THEOREM InductiveInvariant == Spec => []Inductive
BY InductiveInit, InductiveNext, PTL DEF Spec

(***************************************************************************)
(* Every slot, datagram, timer and status table always has its type.       *)
(***************************************************************************)
THEOREM TypeCorrect == Spec => []TypeOK
<1>1. Inductive => TypeOK
  BY DEF Inductive
<1> QED
  BY <1>1, InductiveInvariant, PTL

(***************************************************************************)
(* merge_in_node and merge_in_graph never replace a running router's own   *)
(* slot by link statuses it does not have, whatever is delayed, repeated,  *)
(* reordered or left over from before a crash.                             *)
(***************************************************************************)
THEOREM OwnSlotAlwaysCurrent == Spec => []OwnSlotCurrent
<1>1. Inductive => OwnSlotCurrent
  BY DEF Inductive
<1> QED
  BY <1>1, InductiveInvariant, PTL

(***************************************************************************)
(* register_heartbeat and timeout_heartbeat keep timers and statuses in    *)
(* step, so a timer that fires always belongs to an UP link.               *)
(***************************************************************************)
THEOREM TimersFollowStatus == Spec => []ArmedIffUp
<1>1. Inductive => ArmedIffUp
  BY DEF Inductive
<1> QED
  BY <1>1, InductiveInvariant, PTL

(***************************************************************************)
(* No merge leaves a SEEN node with a neighbour that get_next_hops takes   *)
(* for a node never heard of.                                              *)
(***************************************************************************)
THEOREM NeighboursAlwaysKnown == Spec => []NeighboursKnown
<1>1. Inductive => NeighboursKnown
  BY DEF Inductive
<1> QED
  BY <1>1, InductiveInvariant, PTL

(***************************************************************************)
(* Neither a merge nor a restamp of the own slot ever takes a running      *)
(* router's view of a node back, to an older timestamp or to a state that  *)
(* knows less.                                                             *)
(***************************************************************************)
THEOREM ViewsOnlyMoveForward == Spec => ViewsMoveForward
<1>1. Inductive /\ [Next]_vars => [ViewsForward]_vars
  BY ForwardNext
<1> QED
  BY <1>1, InductiveInvariant, PTL DEF Spec, ViewsMoveForward
=============================================================================
