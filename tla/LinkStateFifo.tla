--------------------------- MODULE LinkStateFifo ---------------------------
(***************************************************************************)
(* LinkState over links that deliver in order: one queue per directed link *)
(* and port.  Links are cut and mended: all that is sent over a cut link   *)
(* is lost, and besides it a bounded number of router LSAs.  This is where *)
(* the routers' views can be asked to converge.  Every behaviour is one of *)
(* LinkState (Refinement below), so what is proved there holds here.       *)
(*                                                                         *)
(* No daemon dies once started.                                            *)
(***************************************************************************)
EXTENDS LSGraph, FiniteSets, Sequences, SequencesExt

CONSTANTS
  Fragile,     \* links {x, y} that are cut and mended; the others always work
  AfterStart,  \* TRUE: links change only once all started and no request is open
  Talkers,     \* bound: routers whose LSA timer is let fire
  MaxClock,    \* bound: last value of the clock
  LastChange,  \* bound: links are cut and mended and daemons notice no later
  MaxChanges,  \* bound: link changes at each router
  MaxLosses    \* bound: router LSAs lost on links that are not cut

ASSUME FifoAssumption ==
  /\ \A l \in Fragile : \E r \in Router : \E n \in Nbr[r] : l = {r, n}
  /\ Talkers \subseteq Router
  /\ {MaxClock, LastChange, MaxChanges, MaxLosses} \subseteq Nat

VARIABLES
  clock, alive, status, armed, graph,  \* as in LinkState
  lsaQ, netQ, reqQ,                    \* datagrams on each directed link
  changes,                             \* changes[r]: link changes of r so far
  losses,                              \* router LSAs lost so far
  cut                                  \* links {x, y} that are cut now

vars == <<clock, alive, status, armed, graph, lsaQ, netQ, reqQ, changes, losses, cut>>
queues == <<lsaQ, netQ, reqQ>>

Edge == {e \in Router \X Router : e[2] \in Nbr[e[1]]}
Works(x, y) == {x, y} \notin cut

\* sendto() at r, to all neighbours but `except': the links that deliver.
Links(r, except) == {e \in Edge : e[1] = r /\ e[2] \notin except /\ Works(r, e[2])}

\* Neighbours whose heartbeats can reach r, and whose timer can run out.
Hears == [r \in Router |-> {n \in Nbr[r] : {r, n} \in Fragile}]

Empty(q) == \A e \in Edge : q[e] = <<>>

Pop(q, e) == [q EXCEPT ![e] = Tail(@)]
Post(q, links, d) == [e \in Edge |-> IF e \in links THEN Append(q[e], d) ELSE q[e]]

AllDown(r) == [n \in Nbr[r] |-> "DOWN"]

(***************************************************************************)
(* The own node now.  The metric of a DOWN link starts near that of one    *)
(* that is UP and never shrinks while the link is DOWN: here it keeps the  *)
(* least value until the clock's last, when it has grown to the greatest.  *)
(***************************************************************************)
MetricsLeft(r, n, s) ==
  {m \in MetricOf(s) : graph[r][r].state = "SEEN" /\ graph[r][r].links[n].status = s
                          => m >= graph[r][r].links[n].metric}

Own(r, st) ==
  {Seen(clock, l) : l \in {k \in Adverts(r, st) :
     \A n \in Nbr[r] :
       /\ k[n].metric \in MetricsLeft(r, n, st[n])
       /\ \A m \in MetricsLeft(r, n, st[n]) :
            IF clock < MaxClock THEN k[n].metric <= m ELSE m <= k[n].metric}}

(***************************************************************************)
(* send_router_lsa_except over queues q: a copy to every neighbour but     *)
(* `except' whose link is not cut, as far as the network loses none.       *)
(***************************************************************************)
Flood(q, r, x, slot, except) ==
  \E lost \in SUBSET Links(r, except) :
    /\ losses' = losses + Cardinality(lost) /\ losses' <= MaxLosses
    /\ lsaQ' = Post(q, Links(r, except) \ lost, [origin |-> x, slot |-> slot])

Init ==
  /\ clock = 1
  /\ alive = {}
  /\ status = [r \in Router |-> AllDown(r)]
  /\ armed = [r \in Router |-> {}]
  /\ graph = [r \in Router |-> EmptyGraph]
  /\ lsaQ = [e \in Edge |-> <<>>] /\ netQ = lsaQ /\ reqQ = lsaQ
  /\ changes = [r \in Router |-> 0]
  /\ losses = 0
  /\ cut = {}

Tick ==
  /\ clock < MaxClock
  /\ clock' = clock + 1
  /\ UNCHANGED <<alive, status, armed, graph, queues, changes, losses, cut>>

\* driver() up to its loop.
Boot(r) ==
  /\ r \notin alive
  /\ alive' = alive \cup {r}
  /\ \E own \in Own(r, AllDown(r)) :
       graph' = [graph EXCEPT ![r] = UpdateGlobalThis(EmptyGraph, r, own)]
  /\ reqQ' = Post(reqQ, Links(r, {}), "request")
  /\ UNCHANGED <<clock, status, armed, lsaQ, netQ, changes, losses, cut>>

\* Start-up is over: everyone runs and nobody waits for a graph.
AllStarted == alive = Router /\ Empty(reqQ) /\ Empty(netQ)

\* And the millisecond has passed in which r took its first timestamp.
Started(r) == AllStarted /\ (changes[r] = 0 => clock > graph[r][r].ts)

LinkChange(r, n, s) ==
  LET st == [status[r] EXCEPT ![n] = s]
  IN  /\ clock <= LastChange /\ changes[r] < MaxChanges /\ (AfterStart => Started(r))
      /\ changes' = [changes EXCEPT ![r] = @ + 1]
      /\ status' = [status EXCEPT ![r] = st]
      /\ \E own \in Own(r, st) : Flood(lsaQ, r, r, own, {})
      /\ \E own \in Own(r, st) : graph' = [graph EXCEPT ![r] = UpdateGlobalThis(@, r, own)]
      /\ UNCHANGED <<clock, alive, netQ, reqQ, cut>>

\* A heartbeat of a DOWN neighbour; one of an UP neighbour changes nothing.
ReceiveHeartbeat(r, n) ==
  /\ r \in alive /\ n \in Hears[r] /\ Works(r, n) /\ status[r][n] = "DOWN"
  /\ armed' = [armed EXCEPT ![r] = @ \cup {n}]
  /\ LinkChange(r, n, "UP")

\* A timer can also run out after its link has been mended.
HeartbeatTimeout(r, n) ==
  /\ r \in alive /\ n \in armed[r] \cap Hears[r] /\ status[r][n] = "UP"
  /\ armed' = [armed EXCEPT ![r] = @ \ {n}]
  /\ LinkChange(r, n, "DOWN")

\* conf.update_link: the network cuts a link, both ways, or mends it.
UpdateLink(l) ==
  /\ clock <= LastChange /\ (AfterStart => AllStarted)
  /\ cut' = IF l \in cut THEN cut \ {l} ELSE cut \cup {l}
  /\ UNCHANGED <<clock, alive, status, armed, graph, queues, changes, losses>>

(***************************************************************************)
(* router_lsa_snd_timer.  It runs every 200 ms and a link takes about one, *)
(* so the last round has left the router's links when the next one starts. *)
(***************************************************************************)
LsaTimer(r) ==
  /\ r \in alive \cap Talkers
  /\ \A e \in Links(r, {}) : lsaQ[e] = <<>>
  /\ \E own \in Own(r, status[r]) : Flood(lsaQ, r, r, own, {})
  /\ UNCHANGED <<clock, alive, status, armed, graph, netQ, reqQ, changes, cut>>

\* (mutant: nothing is passed on)
ReceiveRouterLSAQuiet(e) ==
  LET r == e[2]  m == Head(lsaQ[e])
  IN  /\ lsaQ[e] # <<>> /\ r \in alive
      /\ graph' = [graph EXCEPT ![r] = MergeInNode(@, m.origin, m.slot)]
      /\ lsaQ' = Pop(lsaQ, e)
      /\ UNCHANGED <<clock, alive, status, armed, netQ, reqQ, changes, losses, cut>>

ReceiveRouterLSA(e) ==
  LET r == e[2]  m == Head(lsaQ[e])
  IN  /\ lsaQ[e] # <<>> /\ r \in alive
      /\ graph' = [graph EXCEPT ![r] = MergeInNode(@, m.origin, m.slot)]
      /\ IF Supersedes(m.slot, graph[r][m.origin])
         THEN Flood(Pop(lsaQ, e), r, m.origin, m.slot, {e[1]})
         ELSE lsaQ' = Pop(lsaQ, e) /\ losses' = losses
      /\ UNCHANGED <<clock, alive, status, armed, netQ, reqQ, changes, cut>>

\* (mutant: the graph received replaces the own one)
ReceiveNetworkLSAReplace(e) ==
  /\ netQ[e] # <<>> /\ e[2] \in alive
  /\ graph' = [graph EXCEPT ![e[2]] = Head(netQ[e])]
  /\ netQ' = Pop(netQ, e)
  /\ UNCHANGED <<clock, alive, status, armed, lsaQ, reqQ, changes, losses, cut>>

ReceiveNetworkLSA(e) ==
  /\ netQ[e] # <<>> /\ e[2] \in alive
  /\ graph' = [graph EXCEPT ![e[2]] = MergeInGraph(@, Head(netQ[e]))]
  /\ netQ' = Pop(netQ, e)
  /\ UNCHANGED <<clock, alive, status, armed, lsaQ, reqQ, changes, losses, cut>>

ReceiveRequest(e) ==
  /\ reqQ[e] # <<>> /\ e[2] \in alive
  /\ netQ' = Post(netQ, {l \in Links(e[2], {}) : l[2] = e[1]}, graph[e[2]])
  /\ reqQ' = Pop(reqQ, e)
  /\ UNCHANGED <<clock, alive, status, armed, graph, lsaQ, changes, losses, cut>>

\* Datagrams to a port nobody has opened yet are dropped.
PortClosed(e) ==
  /\ e[2] \notin alive
  /\ \/ lsaQ[e] # <<>> /\ lsaQ' = Pop(lsaQ, e) /\ UNCHANGED <<netQ, reqQ>>
     \/ reqQ[e] # <<>> /\ reqQ' = Pop(reqQ, e) /\ UNCHANGED <<lsaQ, netQ>>
  /\ UNCHANGED <<clock, alive, status, armed, graph, changes, losses, cut>>

Change == \E r \in Router : \E n \in Nbr[r] : ReceiveHeartbeat(r, n) \/ HeartbeatTimeout(r, n)
Deliver(e) == \/ ReceiveRouterLSA(e) \/ ReceiveNetworkLSA(e)
              \/ ReceiveRequest(e) \/ PortClosed(e)

Next ==
  \/ Tick
  \/ Change
  \/ \E l \in Fragile : UpdateLink(l)
  \/ \E r \in Router : Boot(r) \/ LsaTimer(r)
  \/ \E e \in Edge : Deliver(e)

(***************************************************************************)
(* select() reports every ready descriptor and the handlers are short, so  *)
(* every timer that runs out and every datagram that arrives is handled in *)
(* the end.  Nothing is assumed about heartbeats.                          *)
(***************************************************************************)
Fairness ==
  /\ WF_vars(Tick)
  /\ \A r \in Router : WF_vars(Boot(r)) /\ WF_vars(LsaTimer(r))
  /\ \A e \in Edge : /\ WF_vars(ReceiveRouterLSA(e)) /\ WF_vars(ReceiveNetworkLSA(e))
                     /\ WF_vars(ReceiveRequest(e)) /\ WF_vars(PortClosed(e))

Spec == Init /\ [][Next]_vars /\ Fairness

-----------------------------------------------------------------------------
(***************************************************************************)
(* Type invariant.  A router that has not started yet is as LinkState's    *)
(* Boot leaves it: no daemon dies here, so nothing has to be reset.        *)
(***************************************************************************)
IsQueue(q) == q \in Seq(ToSet(q))

TypeOK ==
  /\ clock \in Nat
  /\ alive \subseteq Router
  /\ status \in [Router -> UNION {[Nbr[r] -> LinkStatus] : r \in Router}]
  /\ \A r \in Router : status[r] \in [Nbr[r] -> LinkStatus]
  /\ armed \in [Router -> SUBSET Node]
  /\ DOMAIN graph = Router
  /\ \A r \in Router : IsGraph(graph[r])
  /\ DOMAIN lsaQ = Edge /\ DOMAIN netQ = Edge /\ DOMAIN reqQ = Edge
  /\ \A e \in Edge :
       /\ IsQueue(lsaQ[e]) /\ \A m \in ToSet(lsaQ[e]) : /\ m.origin \in Router
                                                        /\ m.slot \in SeenSlot(m.origin)
       /\ IsQueue(netQ[e]) /\ \A g \in ToSet(netQ[e]) : IsGraph(g)
       /\ IsQueue(reqQ[e]) /\ ToSet(reqQ[e]) \subseteq {"request"}
  /\ \A r \in Router \ alive : status[r] = AllDown(r) /\ armed[r] = {}
  /\ cut \subseteq Fragile

StatusOf(slot) == [n \in DOMAIN slot.links |-> slot.links[n].status]

\* Router q's graph shows r's real link statuses.
Knows(q, r) == graph[q][r].state = "SEEN" /\ StatusOf(graph[q][r]) = status[r]

\* The network joins q to r, over links that are not cut.
Joined(q, r) ==
  LET within[k \in Nat] == IF k = 0 THEN {q}
                           ELSE {y \in Router : \E x \in within[k - 1] :
                                   x = y \/ (y \in Nbr[x] /\ Works(x, y))}
  IN  r \in within[Cardinality(Router)]

(***************************************************************************)
(* Once the links of a router have stopped changing, every router that the *)
(* network still joins to it comes to know their statuses and keeps        *)
(* knowing them, whatever was lost while a link was cut: the flooding in   *)
(* receive_router_lsa and the periodic LSA together reach everyone.  A     *)
(* router whose links never changed is not covered: a graph received at    *)
(* start-up is not passed on, so perhaps only its neighbours ever hear of  *)
(* it.                                                                     *)
(***************************************************************************)
Converges ==
  \A r \in Talkers :
    <>[](changes[r] > 0 => \A q \in Router : Joined(q, r) => Knows(q, r))

(***************************************************************************)
(* In-order links with bounded loss are a special case of LinkState.       *)
(***************************************************************************)
InFlight == UNION {{[src |-> e[1], dst |-> e[2], origin |-> m.origin, slot |-> m.slot] :
                     m \in ToSet(lsaQ[e])} : e \in Edge}
Graphs == UNION {{[dst |-> e[2], graph |-> g] : g \in ToSet(netQ[e])} : e \in Edge}
Requests == {[src |-> e[1], dst |-> e[2]] : e \in {l \in Edge : reqQ[l] # <<>>}}

LS == INSTANCE LinkState WITH
  lsas <- InFlight, nets <- Graphs, reqs <- Requests,
  Crashes <- {}, MaxLsas <- 0, MaxNets <- 0, MaxReqs <- 0

Refinement == LS!Spec
=============================================================================
