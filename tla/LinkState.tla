----------------------------- MODULE LinkState -----------------------------
(***************************************************************************)
(* The routing daemons of a network: link states derived from heartbeats,  *)
(* router LSAs flooded between neighbours, whole-graph LSAs requested at   *)
(* start-up, and daemons that crash and are started again.                 *)
(*                                                                         *)
(* A daemon is one thread around one select loop, so one action is one     *)
(* iteration of the loop in driver(): the handler and the sends and graph  *)
(* update that follow it.  The iteration reads the millisecond clock       *)
(* several times; it is much shorter than a tick, so it sees one value.    *)
(*                                                                         *)
(* Each UDP port has its own set of datagrams in flight.  A step that      *)
(* sends or receives leaves any of them there, and Lose removes them, so a *)
(* datagram can be delayed, reordered, duplicated or lost.                 *)
(***************************************************************************)
EXTENDS LSGraph, FiniteSets

CONSTANTS
  Hears,        \* Hears[r]: neighbours whose heartbeats can reach r
  Crashes,      \* routers whose daemon may die
  Talkers,      \* bound: routers whose LSA timer is let fire
  MaxClock,     \* bound: last value of the clock
  MaxLsas,      \* bound: router LSAs in flight, 0 for no bound
  MaxNets,      \* bound: network LSAs in flight, 0 for no bound
  MaxReqs       \* bound: network LSA requests in flight, 0 for no bound

ASSUME EnvironmentAssumption ==
  /\ Hears \in [Router -> SUBSET Node]
  /\ \A r \in Router : Hears[r] \subseteq Nbr[r]
  /\ Crashes \subseteq Router /\ Talkers \subseteq Router
  /\ MaxClock \in Nat

VARIABLES
  clock,    \* gettimeofday in milliseconds, shared by all nodes
  alive,    \* routers whose daemon is running
  status,   \* status[r][n]: this->node.link_statuses
  armed,    \* armed[r]: neighbours whose heartbeat timer is armed
  graph,    \* graph[r]: the graph array of router r
  lsas,     \* router LSAs in flight          (port 45001)
  nets,     \* network LSAs in flight         (port 45002)
  reqs      \* network LSA requests in flight (port 45003)

memory == <<alive, status, armed, graph>>
network == <<lsas, nets, reqs>>
vars == <<clock, alive, status, armed, graph, lsas, nets, reqs>>

RouterLSA(s, d, x, e) == [src |-> s, dst |-> d, origin |-> x, slot |-> e]
NetworkLSA(d, g) == [dst |-> d, graph |-> g]
Request(s, d) == [src |-> s, dst |-> d]

Requests == [src : Router, dst : Router]

AllDown(r) == [n \in Nbr[r] |-> "DOWN"]

(***************************************************************************)
(* send_router_lsa_except: origin's slot to every neighbour of r but       *)
(* `except'.  Hosts do not listen on the port, so only routers matter.     *)
(***************************************************************************)
Copies(r, origin, e, except) ==
  {RouterLSA(r, d, origin, e) : d \in (Nbr[r] \cap Router) \ except}

\* sendto() of the datagrams ms: what may be in flight afterwards.
Emit(inFlight, ms, bound) ==
  {s \in SUBSET (inFlight \cup ms) : bound # 0 => Cardinality(s) <= bound}

Init ==
  /\ clock = 1
  /\ alive = {}
  /\ status = [r \in Router |-> AllDown(r)]
  /\ armed = [r \in Router |-> {}]
  /\ graph = [r \in Router |-> EmptyGraph]
  /\ lsas = {} /\ nets = {} /\ reqs = {}

(***************************************************************************)
(* The prologue of driver(): an empty graph, all links DOWN, all heartbeat *)
(* timers disarmed, the own slot filled in, and a request to every         *)
(* neighbour.                                                              *)
(***************************************************************************)
Boot(r) ==
  /\ r \notin alive
  /\ alive' = alive \cup {r}
  /\ status' = [status EXCEPT ![r] = AllDown(r)]
  /\ armed' = [armed EXCEPT ![r] = {}]
  /\ \E l \in Adverts(r, AllDown(r)) :
       graph' = [graph EXCEPT ![r] = UpdateGlobalThis(EmptyGraph, r, Seen(clock, l))]
  /\ reqs' \in Emit(reqs, {Request(r, d) : d \in Nbr[r] \cap Router}, MaxReqs)
  /\ UNCHANGED <<clock, lsas, nets>>

\* The daemon dies with everything it had in memory.
Crash(r) ==
  /\ r \in alive \cap Crashes
  /\ alive' = alive \ {r}
  /\ status' = [status EXCEPT ![r] = AllDown(r)]
  /\ armed' = [armed EXCEPT ![r] = {}]
  /\ graph' = [graph EXCEPT ![r] = EmptyGraph]
  /\ UNCHANGED <<clock, lsas, nets, reqs>>

\* send_router_lsa of the own node, with links of statuses st.
Advertise(r, st) ==
  \E l \in Adverts(r, st) :
    lsas' \in Emit(lsas, Copies(r, r, Seen(clock, l), {}), MaxLsas)

\* update_global_this: the own node, measured again, into the own slot.
\* (mutant: the own slot keeps its old timestamp)
RestampKeepingTime(r, st) ==
  \E l \in Adverts(r, st) :
    graph' = [graph EXCEPT ![r] = UpdateGlobalThis(@, r, Seen(graph[r][r].ts, l))]

Restamp(r, st) ==
  \E l \in Adverts(r, st) :
    graph' = [graph EXCEPT ![r] = UpdateGlobalThis(@, r, Seen(clock, l))]

(***************************************************************************)
(* What the loop does once a handler has changed a link status             *)
(* (graph_updated): send the new node to all neighbours, then copy it into *)
(* the own slot.                                                           *)
(***************************************************************************)
LinkChange(r, n, s) ==
  LET st == [status[r] EXCEPT ![n] = s]
  IN  status' = [status EXCEPT ![r] = st] /\ Advertise(r, st) /\ Restamp(r, st)

(***************************************************************************)
(* register_heartbeat: every heartbeat re-arms the neighbour's timer; one  *)
(* from a DOWN neighbour also brings the link UP.                          *)
(***************************************************************************)
ReceiveHeartbeat(r, n) ==
  /\ r \in alive /\ n \in Hears[r]
  /\ armed' = [armed EXCEPT ![r] = @ \cup {n}]
  /\ IF status[r][n] = "DOWN" THEN LinkChange(r, n, "UP")
     ELSE UNCHANGED <<status, graph, lsas>>
  /\ UNCHANGED <<clock, alive, nets, reqs>>

(***************************************************************************)
(* timeout_heartbeat.  A timer that fires for a link already DOWN is       *)
(* neither disarmed nor read: it would stay ready for ever.                *)
(***************************************************************************)
\* (mutant: the timer stays armed)
HeartbeatTimeoutArmed(r, n) ==
  /\ r \in alive /\ n \in armed[r]
  /\ IF status[r][n] = "UP" THEN LinkChange(r, n, "DOWN")
     ELSE UNCHANGED <<status, graph, lsas>>
  /\ UNCHANGED <<clock, alive, armed, nets, reqs>>

HeartbeatTimeout(r, n) ==
  /\ r \in alive /\ n \in armed[r]
  /\ IF status[r][n] = "UP"
     THEN LinkChange(r, n, "DOWN") /\ armed' = [armed EXCEPT ![r] = @ \ {n}]
     ELSE UNCHANGED <<status, graph, lsas, armed>>
  /\ UNCHANGED <<clock, alive, nets, reqs>>

\* router_lsa_snd_timer: send the own node; the own slot is not touched.
LsaTimer(r) ==
  /\ r \in alive \cap Talkers
  /\ Advertise(r, status[r])
  /\ UNCHANGED <<clock, nets, reqs, memory>>

\* recomputation_timer, in dtlsr only: new metrics into the own slot.
RecomputeTimer(r) ==
  /\ DelayTolerant
  /\ r \in alive
  /\ Restamp(r, status[r])
  /\ UNCHANGED <<clock, alive, status, armed, lsas, nets, reqs>>

(***************************************************************************)
(* receive_router_lsa: merge, and pass an accepted advertisement on to all *)
(* neighbours but the one it came from.                                    *)
(***************************************************************************)
ReceiveRouterLSA(m) ==
  LET r == m.dst
  IN  /\ m \in lsas /\ r \in alive
      /\ graph' = [graph EXCEPT ![r] = MergeInNode(@, m.origin, m.slot)]
      /\ lsas' \in Emit(lsas, IF Supersedes(m.slot, graph[r][m.origin])
                              THEN Copies(r, m.origin, m.slot, {m.src}) ELSE {}, MaxLsas)
      /\ UNCHANGED <<clock, alive, status, armed, nets, reqs>>

\* receive_network_lsa: merge a whole graph; nothing is passed on.
ReceiveNetworkLSA(m) ==
  /\ m \in nets /\ m.dst \in alive
  /\ graph' = [graph EXCEPT ![m.dst] = MergeInGraph(@, m.graph)]
  /\ nets' \in Emit(nets, {}, MaxNets)
  /\ UNCHANGED <<clock, alive, status, armed, lsas, reqs>>

\* receive_network_lsa_request: the own graph to the neighbour that asked.
ReceiveRequest(m) ==
  /\ m \in reqs /\ m.dst \in alive
  /\ nets' \in Emit(nets, IF m.src \in Nbr[m.dst]
                          THEN {NetworkLSA(m.src, graph[m.dst])} ELSE {}, MaxNets)
  /\ reqs' \in Emit(reqs, {}, MaxReqs)
  /\ UNCHANGED <<clock, lsas, memory>>

\* UDP drops datagrams.
Lose ==
  /\ \/ \E m \in lsas : lsas' = lsas \ {m} /\ UNCHANGED <<nets, reqs>>
     \/ \E m \in nets : nets' = nets \ {m} /\ UNCHANGED <<lsas, reqs>>
     \/ \E m \in reqs : reqs' = reqs \ {m} /\ UNCHANGED <<lsas, nets>>
  /\ UNCHANGED <<clock, memory>>

Tick ==
  /\ clock < MaxClock
  /\ clock' = clock + 1
  /\ UNCHANGED <<memory, network>>

Next ==
  \/ Tick
  \/ Lose
  \/ \E r \in Router : Boot(r) \/ Crash(r) \/ LsaTimer(r) \/ RecomputeTimer(r)
  \/ \E r \in Router : \E n \in Nbr[r] : ReceiveHeartbeat(r, n) \/ HeartbeatTimeout(r, n)
  \/ \E m \in lsas : ReceiveRouterLSA(m)
  \/ \E m \in nets : ReceiveNetworkLSA(m)
  \/ \E m \in reqs : ReceiveRequest(m)

Spec == Init /\ [][Next]_vars

-----------------------------------------------------------------------------
(***************************************************************************)
(* Type invariant.                                                         *)
(***************************************************************************)
TypeOK ==
  /\ clock \in Nat
  /\ alive \subseteq Router
  /\ DOMAIN status = Router
  /\ \A r \in Router : status[r] \in [Nbr[r] -> LinkStatus]
  /\ armed \in [Router -> SUBSET Node]
  /\ DOMAIN graph = Router
  /\ \A r \in Router : IsGraph(graph[r])
  /\ \A m \in lsas : /\ {m.src, m.dst, m.origin} \subseteq Router
                     /\ m.slot \in SeenSlot(m.origin)
  /\ \A m \in nets : m.dst \in Router /\ IsGraph(m.graph)
  /\ reqs \subseteq Requests

(***************************************************************************)
(* A heartbeat timer is armed exactly while its link is UP.  The timers    *)
(* are never read, and event_wait looks at them before every socket, so a  *)
(* timer left armed on a DOWN link would fire for ever and starve the      *)
(* daemon; a disarmed timer on an UP link would never notice the failure.  *)
(***************************************************************************)
ArmedIffUp ==
  \A r \in alive : armed[r] = {n \in Nbr[r] : status[r][n] = "UP"}

StatusOf(slot) == [n \in DOMAIN slot.links |-> slot.links[n].status]

(***************************************************************************)
(* A running router's own slot shows its real link statuses, although any  *)
(* neighbour may echo an advertisement it made earlier, before or after a  *)
(* crash, and merge_in_node and merge_in_graph make no exception for the   *)
(* own slot.                                                               *)
(***************************************************************************)
OwnSlotCurrent ==
  \A r \in alive : /\ graph[r][r].state = "SEEN"
                   /\ StatusOf(graph[r][r]) = status[r]

\* Every copy of x's slot, in anybody's graph or in a datagram.
Held(x) == {graph[q][x] : q \in Router}
             \cup {m.slot : m \in {k \in lsas : k.origin = x}}
             \cup {m.graph[x] : m \in nets}

(***************************************************************************)
(* Why OwnSlotCurrent holds.  No slot carries a timestamp the clock has    *)
(* not reached, and no copy of a running router's advertisement that is    *)
(* newer than its own slot shows anything but its present link statuses:   *)
(* every change of a status re-stamps the own slot in the same step.       *)
(***************************************************************************)
TimestampsPast == \A x \in Node : \A e \in Held(x) : e.ts <= clock

NewerCopiesCurrent ==
  \A r \in alive : \A e \in Held(r) :
    e.state = "SEEN" /\ e.ts > graph[r][r].ts => StatusOf(e) = status[r]

(***************************************************************************)
(* Every neighbour named by a SEEN node is at least OPAQUE, in the graph   *)
(* of every running router and in every graph in flight: get_next_hops     *)
(* only gives routes to nodes that are not UNSEEN.                         *)
(***************************************************************************)
Closed(g) ==
  \A x \in Node : g[x].state = "SEEN" =>
                    \A n \in Nbr[x] : g[n].state # "UNSEEN"

NeighboursKnown ==
  /\ \A r \in Router : Closed(graph[r])
  /\ \A m \in nets : Closed(m.graph)

(***************************************************************************)
(* The inductive invariant: what has to hold of the whole system for the   *)
(* properties above to survive every step.                                 *)
(***************************************************************************)
Inductive == /\ TypeOK /\ ArmedIffUp /\ NeighboursKnown
             /\ OwnSlotCurrent /\ TimestampsPast /\ NewerCopiesCurrent

(***************************************************************************)
(* While a router runs, a slot of its graph never loses information: a     *)
(* node once SEEN stays SEEN, and its timestamp never goes back.           *)
(***************************************************************************)
Rank(slot) == CASE slot.state = "UNSEEN" -> 0
                [] slot.state = "OPAQUE" -> 1
                [] slot.state = "SEEN"   -> 2

Forward(old, new) == Rank(new) >= Rank(old) /\ new.ts >= old.ts

ViewsForward ==
  \A r \in alive \cap alive' : \A x \in Node : Forward(graph[r][x], graph'[r][x])

ViewsMoveForward == [][ViewsForward]_vars
=============================================================================
