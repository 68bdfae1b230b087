------------------------------ MODULE Routing ------------------------------
(***************************************************************************)
(* From link states to packets: the daemons of LinkStateFifo, each with    *)
(* the paths it last computed and the table it last gave the kernel, and   *)
(* hosts with a default route.  An action is an action of LinkStateFifo    *)
(* with the rest of its iteration: update_routing_table before the handler *)
(* and, when a link of the own node changed or the recomputation timer     *)
(* fired, pathfind after it.  A graph that a datagram changed is not       *)
(* looked at until then.                                                   *)
(*                                                                         *)
(* The network has been up for long: everyone knows everyone, and some     *)
(* links have just been cut or mended, which no daemon has noticed yet.    *)
(***************************************************************************)
EXTENDS LinkStateFifo, FiniteSetsExt

CONSTANTS
  Recomputers,  \* bound: routers whose recomputation timer is let fire
  NULL          \* no next hop

\* Hosts have one interface; a router has one address for each of its links.
\* In dtlsr a DOWN link has a metric, too.
Host == Node \ Router

ASSUME HostAssumption ==
  /\ IsFiniteSet(Router) /\ Recomputers \subseteq Router /\ (DelayTolerant => DownMetrics # {})
  /\ \A h \in Host : \E r \in Router : Nbr[h] = {r} /\ h \in Nbr[r]

VARIABLES
  next_hops,    \* next_hops[r][h]: what r's last pathfind found
  kernel        \* kernel[r][h]: the gateway in r's kernel

tables == <<next_hops, kernel>>
daemons == <<clock, alive, status, armed, graph, lsaQ, netQ, reqQ, changes, losses, cut>>
routingVars == <<daemons, tables>>

-----------------------------------------------------------------------------
(***************************************************************************)
(* pathfind, by what Pathfind shows it to compute: the next hop is the     *)
(* first node of a cheapest path through SEEN nodes, of which lsr takes    *)
(* only those without a DOWN link.  Among equals any may be taken.         *)
(***************************************************************************)
Routes ==
  LET to[k \in 0 .. Cardinality(Router)] ==
        IF k = 0 THEN {<<x>> : x \in Node}
        ELSE UNION {{Append(p, n) : n \in Nbr[p[Len(p)]] \ ToSet(p)} : p \in to[k - 1]}
  IN  UNION {to[k] : k \in 1 .. Cardinality(Router)}

RoutesBetween(x, h) == {p \in Routes : p[1] = x /\ p[Len(p)] = h}

LinkOf(g, p, i) == g[p[i]].links[p[i + 1]]

Cost(g, p) ==
  LET upTo[i \in DOMAIN p] == IF i = 1 THEN 0 ELSE upTo[i - 1] + LinkOf(g, p, i - 1).metric
  IN  upTo[Len(p)]

Usable(g, p) ==
  \A i \in 1 .. Len(p) - 1 :
    g[p[i]].state = "SEEN" /\ (DelayTolerant \/ LinkOf(g, p, i).status = "UP")

\* (mutants: the last router before h)
BestHopsLast(g, r, h) ==
  LET known == {p \in RoutesBetween(r, h) : Usable(g, p)}
      least == Min({Cost(g, p) : p \in known})
  IN  IF known = {} THEN {NULL} ELSE {p[Len(p) - 1] : p \in {k \in known : Cost(g, k) = least}}

BestHops(g, r, h) ==
  LET known == {p \in RoutesBetween(r, h) : Usable(g, p)}
      least == Min({Cost(g, p) : p \in known})
  IN  IF known = {} THEN {NULL} ELSE {p[2] : p \in {k \in known : Cost(g, k) = least}}

NextHops(g, r) ==
  LET best == [h \in Host |-> BestHops(g, r, h)]
  IN  {f \in [Host -> UNION {best[h] : h \in Host}] : \A h \in Host : f[h] \in best[h]}

\* update_routing_table gives the kernel the paths of the last pathfind.
\* (mutant: it keeps what it has a route for)
UpdateRoutingTableKeeping(r) ==
  kernel' = [kernel EXCEPT ![r] = [h \in Host |-> IF @[h] # NULL THEN @[h] ELSE next_hops[r][h]]]

UpdateRoutingTable(r) == kernel' = [kernel EXCEPT ![r] = next_hops[r]]

Repath(r) ==
  /\ UpdateRoutingTable(r)
  /\ \E f \in NextHops(graph'[r], r) : next_hops' = [next_hops EXCEPT ![r] = f]

KeepPaths(r) == UpdateRoutingTable(r) /\ UNCHANGED next_hops

-----------------------------------------------------------------------------
\* What everyone finds once the links `down' have been cut for long.
StatusesOf(down) == [r \in Router |-> [n \in Nbr[r] |-> IF {r, n} \in down THEN "DOWN" ELSE "UP"]]

\* The graphs the daemons agree on then.
GraphsOf(st) ==
  {[x \in Node |-> IF x \in Router THEN Seen(1, l[x]) ELSE Opaque] :
     l \in {f \in [Router -> UNION {Adverts(x, st[x]) : x \in Router}] :
              \A x \in Router : /\ f[x] \in Adverts(x, st[x])
                                /\ \A n \in Nbr[x] : \A m \in MetricOf(st[x][n]) : m <= f[x][n].metric}}

RoutingInit ==
  \E old \in SUBSET Fragile :
    /\ clock = 2 /\ alive = Router
    /\ status = StatusesOf(old)
    /\ armed = [r \in Router |-> {n \in Nbr[r] : {r, n} \notin old}]
    /\ \E g \in GraphsOf(StatusesOf(old)) :
         /\ graph = [r \in Router |-> g]
         /\ next_hops \in {f \in [Router -> UNION {NextHops(g, r) : r \in Router}] :
                             \A r \in Router : f[r] \in NextHops(g, r)}
    /\ kernel = next_hops
    /\ lsaQ = [e \in Edge |-> <<>>] /\ netQ = lsaQ /\ reqQ = lsaQ
    /\ changes = [r \in Router |-> 0]
    /\ losses = 0
    /\ cut = Fragile \ old

Changes(r, n) == (ReceiveHeartbeat(r, n) \/ HeartbeatTimeout(r, n)) /\ Repath(r)

\* recomputation_timer, in dtlsr only: the own slot and all paths anew.
RecomputeTimer(r) ==
  /\ DelayTolerant /\ r \in Recomputers
  /\ \E own \in Own(r, status[r]) : graph' = [graph EXCEPT ![r] = UpdateGlobalThis(@, r, own)]
  /\ UNCHANGED <<clock, alive, status, armed, queues, changes, losses, cut>>
  /\ Repath(r)

SendLsa(r) == LsaTimer(r) /\ KeepPaths(r)

ReceiveLsa(e) == ReceiveRouterLSA(e) /\ KeepPaths(e[2])

\* Any other iteration, such as one for a heartbeat of an UP neighbour.
OtherEvent(r) == KeepPaths(r) /\ UNCHANGED daemons

\* Time is nobody's iteration.
TimePasses == Tick /\ UNCHANGED tables

RoutingNext ==
  \/ TimePasses
  \/ \E r \in Router : \/ \E n \in Nbr[r] : Changes(r, n)
                       \/ RecomputeTimer(r) \/ SendLsa(r) \/ OtherEvent(r)
  \/ \E e \in Edge : ReceiveLsa(e)

(***************************************************************************)
(* The fairness of LinkStateFifo, and what a timer that fires again and    *)
(* again amounts to: after each recomputation the own slot carries the     *)
(* time and the paths are those of the graph.  Stated so rather than as    *)
(* WF(RecomputeTimer(r)), it asks less of the daemon.                      *)
(***************************************************************************)
UpToDate(r) == graph[r][r].ts = clock /\ next_hops[r] \in NextHops(graph[r], r)

RoutingFairness ==
  /\ DelayTolerant => \A r \in Recomputers : []<>UpToDate(r)
  /\ \A r \in Router : /\ WF_routingVars(SendLsa(r)) /\ WF_routingVars(OtherEvent(r))
  /\ \A e \in Edge : WF_routingVars(ReceiveLsa(e))
  /\ WF_routingVars(TimePasses)

RoutingSpec == RoutingInit /\ [][RoutingNext]_routingVars /\ RoutingFairness

-----------------------------------------------------------------------------
(***************************************************************************)
(* Type invariant.  The kernel accepts only a neighbour as a gateway.      *)
(***************************************************************************)
TablesOK ==
  \A r \in Router : {next_hops[r], kernel[r]} \subseteq [Host -> Nbr[r] \cup {NULL}]

Connected(x, h) ==
  \E p \in RoutesBetween(x, h) : \A i \in 1 .. Len(p) - 1 : Works(p[i], p[i + 1])

\* A host sends everything to its gateway, the one neighbour it has.
Gateway(x, h) == IF x \in Router THEN kernel[x][h] ELSE CHOOSE n \in Nbr[x] : TRUE

Forward(x, h) ==
  LET n == Gateway(x, h) IN IF x = h THEN h ELSE IF n # NULL /\ Works(x, n) THEN n ELSE NULL

\* A packet for h comes from x to h: it meets no loop and no dead end.
Arrives(x, h) ==
  LET at[k \in Nat] ==
        IF k = 0 THEN x ELSE IF at[k - 1] = NULL THEN NULL ELSE Forward(at[k - 1], h)
  IN  at[Cardinality(Node)] = h

\* Every router finds UP those of its links that work.
Settled == \A r \in Router : \A n \in Nbr[r] : status[r][n] = "UP" <=> Works(r, n)

(***************************************************************************)
(* Once the links have stopped changing and both ends of each know whether *)
(* it works, the kernels' tables together lead packets from everywhere to  *)
(* every host that can be reached, without loops and dead ends, whatever   *)
(* was lost on the links that are or were cut and whatever the daemons     *)
(* believed on the way there: what was flooded reaches pathfind            *)
(* (dtlsr_main.c:173) and what pathfind found reaches the kernel           *)
(* (dtlsr_main.c:165), at every router.                                    *)
(***************************************************************************)
Delivers ==
  <>[]Settled =>
    <>[](\A h \in Host : \A x \in Node \ {h} : Connected(x, h) => Arrives(x, h))
=============================================================================
