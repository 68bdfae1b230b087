------------------------------ MODULE Capture ------------------------------
(***************************************************************************)
(* The store-and-forward part of one dtlsr daemon (capture.c, and the      *)
(* steps of the loop in driver() that call it).  Packets routed over a     *)
(* link that is DOWN are copied by libpcap into a dump file; 50 ms after a *)
(* link comes UP the dump is replayed over it.                             *)
(*                                                                         *)
(* An action is a handler followed by what the loop does up to the next    *)
(* event_wait: the kernel routes are brought up to date before the         *)
(* handler, and capture_packets drains the capture handles after it.       *)
(* One packet stands for the traffic to each destination subnet.           *)
(***************************************************************************)
EXTENDS Naturals, FiniteSets

CONSTANTS
  Iface,   \* the node's interfaces, one per neighbour
  Dest,    \* destination subnets
  NULL,    \* an empty slot of down_ifaces, a destination without a route
  Reroutes, \* FALSE: a path once found stays (a network without alternatives)
  Prompt   \* TRUE: a replay is served before its link can time out again

ASSUME CaptureAssumption ==
  IsFiniteSet(Iface) /\ NULL \notin Iface /\ {Reroutes, Prompt} \subseteq BOOLEAN

VARIABLES
  running,        \* FALSE once the daemon has crashed
  status,         \* status[i]: link_statuses of the neighbour on i
  next_hops,      \* next_hops[d]: the interface of the last path to d
  route,          \* route[d]: the interface the kernel sends d's packets to
  is_capturing,
  down_ifaces,    \* array of slots, NULL or an interface
  n_down_ifaces,
  filter,         \* destinations of the capture filter, {} if it names none
  ring,           \* ring[i]: packets the handle of i has not delivered yet
  dump,           \* packets in the dump file
  replay,         \* TRUE while the replay timer is armed
  up_iface,       \* the interface the replay is for
  sent,           \* packets the kernel has sent
  replayed        \* packets replayed

links == <<status, next_hops>>
capture == <<is_capturing, down_ifaces, n_down_ifaces, filter>>
timer == <<replay, up_iface>>
vars == <<running, links, route, capture, ring, dump, timer, sent, replayed>>

Slot == 1 .. Cardinality(Iface)
First(S) == CHOOSE k \in S : \A j \in S : k <= j

Init ==
  /\ running = TRUE
  /\ status = [i \in Iface |-> "DOWN"]
  /\ next_hops = [d \in Dest |-> NULL] /\ route = next_hops
  /\ is_capturing = FALSE
  /\ down_ifaces = [k \in Slot |-> NULL]
  /\ n_down_ifaces = 0
  /\ filter = {}
  /\ ring = [i \in Iface |-> {}]
  /\ dump = {}
  /\ replay = FALSE /\ up_iface = NULL
  /\ sent = {} /\ replayed = {}

(***************************************************************************)
(* pathfind: the new paths.  DOWN links are not avoided, only charged for, *)
(* so a path may lead over any interface.                                  *)
(***************************************************************************)
Pathfind ==
  /\ next_hops' \in [Dest -> Iface \cup {NULL}]
  /\ Reroutes \/ \A d \in Dest : next_hops'[d] # next_hops[d] => next_hops[d] = NULL

\* update_routing_table, before the handler: it sees the previous paths.
UpdateRoutingTable == route' = next_hops

\* A filter that names no destination has no "dst net" clause: all pass.
Passes(d, f) == f = {} \/ d \in f

(***************************************************************************)
(* generate_addresses_on_down_interfaces: the destinations whose path      *)
(* leads over a listed interface.                                          *)
(***************************************************************************)
FilterFor(slots, hops) == {d \in Dest : hops[d] # NULL /\ \E k \in Slot : slots[k] = hops[d]}

(***************************************************************************)
(* capture_packets and dump_packet: every handle is emptied, and what the  *)
(* handle of a DOWN link delivers goes to the dump while capturing.        *)
(* `before' is what the handles hold and `file' what the dump file does.   *)
(***************************************************************************)
\* (mutant: the status of the link is not looked at)
CapturePacketsOfAll(before, file) ==
  /\ ring' = [i \in Iface |-> {}]
  /\ dump' = file \cup (IF is_capturing' THEN UNION {before[i] : i \in Iface} ELSE {})

CapturePackets(before, file) ==
  /\ ring' = [i \in Iface |-> {}]
  /\ dump' = file \cup (IF is_capturing'
                        THEN UNION {before[i] : i \in {j \in Iface : status'[j] = "DOWN"}}
                        ELSE {})

(***************************************************************************)
(* capture_end_iface.  The scan compares names slot by slot with strcmp    *)
(* and does not skip empty slots: it survives only if it meets the         *)
(* interface before a NULL.                                                *)
(***************************************************************************)
Hits(i) == {k \in Slot : down_ifaces[k] = i}
Empties == {k \in Slot : down_ifaces[k] = NULL}
ScanSurvives(i) == n_down_ifaces > 0 => \A e \in Empties : \E h \in Hits(i) : h < e

\* (mutant: the counter is not decremented)
CaptureEndIfaceUncounted(i) ==
  IF n_down_ifaces = 0 THEN UNCHANGED <<is_capturing, down_ifaces, n_down_ifaces>>
  ELSE /\ down_ifaces' = IF Hits(i) = {} THEN down_ifaces
                         ELSE [down_ifaces EXCEPT ![First(Hits(i))] = NULL]
       /\ n_down_ifaces' = n_down_ifaces
       /\ is_capturing' = (is_capturing /\ n_down_ifaces' > 0)

CaptureEndIface(i) ==
  IF n_down_ifaces = 0 THEN UNCHANGED <<is_capturing, down_ifaces, n_down_ifaces>>
  ELSE /\ down_ifaces' = IF Hits(i) = {} THEN down_ifaces
                         ELSE [down_ifaces EXCEPT ![First(Hits(i))] = NULL]
       /\ n_down_ifaces' = n_down_ifaces - 1
       /\ is_capturing' = (is_capturing /\ n_down_ifaces' > 0)

\* capture_start_iface; the filter comes from the paths just recomputed.
CaptureStartIface(i) ==
  /\ is_capturing' = TRUE
  /\ down_ifaces' = IF Empties = {} THEN down_ifaces
                    ELSE [down_ifaces EXCEPT ![First(Empties)] = i]
  /\ filter' = FilterFor(down_ifaces', next_hops')
  /\ n_down_ifaces' = n_down_ifaces + 1

-----------------------------------------------------------------------------
(***************************************************************************)
(* register_heartbeat for a DOWN link.  A second link that comes UP before *)
(* the replay of the first re-arms the one timer and takes up_iface over.  *)
(***************************************************************************)
\* (mutant: the timer is armed only while something else is still DOWN)
LinkUpUnarmed(i) ==
  /\ running /\ status[i] = "DOWN" /\ ScanSurvives(i)
  /\ UpdateRoutingTable
  /\ status' = [status EXCEPT ![i] = "UP"]
  /\ CaptureEndIface(i)
  /\ replay' = (replay \/ is_capturing') /\ up_iface' = i
  /\ Pathfind
  /\ CapturePackets(ring, dump)
  /\ UNCHANGED <<running, filter, sent, replayed>>

LinkUp(i) ==
  /\ running /\ status[i] = "DOWN" /\ ScanSurvives(i)
  /\ UpdateRoutingTable
  /\ status' = [status EXCEPT ![i] = "UP"]
  /\ CaptureEndIface(i)
  /\ replay' = TRUE /\ up_iface' = i
  /\ Pathfind
  /\ CapturePackets(ring, dump)
  /\ UNCHANGED <<running, filter, sent, replayed>>

\* register_heartbeat, when strcmp is handed the NULL of an empty slot.
LinkUpCrash(i) ==
  /\ running /\ status[i] = "DOWN" /\ ~ScanSurvives(i)
  /\ UpdateRoutingTable
  /\ running' = FALSE
  /\ status' = [status EXCEPT ![i] = "UP"]
  /\ UNCHANGED <<next_hops, capture, ring, dump, timer, sent, replayed>>

\* What capture_start_iface's filter leaves of packets already in a ring.
Refilter(f) == [j \in Iface |-> {d \in ring[j] : Passes(d, f)}]

\* timeout_heartbeat, then pathfind, then start_capturing.
LinkDown(i) ==
  /\ running /\ status[i] = "UP" /\ ~(Prompt /\ replay /\ up_iface = i)
  /\ UpdateRoutingTable
  /\ status' = [status EXCEPT ![i] = "DOWN"]
  /\ Pathfind
  /\ CaptureStartIface(i)
  /\ CapturePackets(Refilter(filter'), dump)
  /\ UNCHANGED <<running, timer, sent, replayed>>

(***************************************************************************)
(* The replay timer.  What is routed over up_iface is sent from the dump,  *)
(* where the capture handle of up_iface sees it again; the rest is written *)
(* to the next dump file, which open_dump then truncates.  popen does not  *)
(* fail: the error returns are left out.                                   *)
(***************************************************************************)
\* (mutant: the dump is kept)
ReplayKeeping ==
  /\ running /\ replay
  /\ UpdateRoutingTable
  /\ replay' = FALSE
  /\ UNCHANGED <<running, links, capture, up_iface, sent>>
  /\ replayed' = replayed \cup {d \in dump : next_hops[d] = up_iface}
  /\ CapturePackets(ring, dump)

Replay ==
  /\ running /\ replay
  /\ UpdateRoutingTable
  /\ replay' = FALSE
  /\ UNCHANGED <<running, links, capture, up_iface, sent>>
  /\ LET out == {d \in dump : next_hops[d] = up_iface}
         seen == {d \in out : Passes(d, filter)}
     IN  /\ replayed' = replayed \cup out
         /\ CapturePackets([ring EXCEPT ![up_iface] = @ \cup seen], {})

\* Any other event; the recomputation timer may change the paths.
OtherEvent ==
  /\ running
  /\ UpdateRoutingTable
  /\ Pathfind
  /\ UNCHANGED <<running, status, capture, timer, sent, replayed>>
  /\ CapturePackets(ring, dump)

\* The kernel sends a packet; the handle of its interface sees it.
KernelSends(d) ==
  /\ running
  /\ d \notin sent /\ route[d] # NULL
  /\ sent' = sent \cup {d}
  /\ ring' = IF Passes(d, filter) THEN [ring EXCEPT ![route[d]] = @ \cup {d}] ELSE ring
  /\ UNCHANGED <<running, links, route, capture, dump, timer, replayed>>

Next ==
  \/ Replay \/ OtherEvent
  \/ \E i \in Iface : LinkUp(i) \/ LinkUpCrash(i) \/ LinkDown(i)
  \/ \E d \in Dest : KernelSends(d)

(***************************************************************************)
(* The replay timer, once it has run out, stays ready until it is served.  *)
(***************************************************************************)
Spec == Init /\ [][Next]_vars /\ WF_vars(Replay)

-----------------------------------------------------------------------------
\* Type invariant.
TypeOK ==
  /\ running \in BOOLEAN
  /\ status \in [Iface -> {"UP", "DOWN"}]
  /\ next_hops \in [Dest -> Iface \cup {NULL}]
  /\ route \in [Dest -> Iface \cup {NULL}]
  /\ is_capturing \in BOOLEAN
  /\ down_ifaces \in [Slot -> Iface \cup {NULL}]
  /\ n_down_ifaces \in 0 .. Cardinality(Iface)
  /\ filter \subseteq Dest
  /\ ring \in [Iface -> SUBSET Dest]
  /\ dump \subseteq Dest
  /\ replay \in BOOLEAN
  /\ up_iface \in Iface \cup {NULL}
  /\ replay => up_iface # NULL
  /\ sent \subseteq Dest /\ replayed \subseteq Dest

(***************************************************************************)
(* The three records of which links are down agree with each other and     *)
(* with the link statuses, over any sequence of link changes the daemon    *)
(* survives: down_ifaces lists no UP link and none twice, n_down_ifaces    *)
(* counts it, and capturing lasts as long as something is listed.          *)
(***************************************************************************)
Bookkeeping ==
  running =>
    /\ \A k \in Slot : down_ifaces[k] # NULL => status[down_ifaces[k]] = "DOWN"
    /\ \A j, k \in Slot : down_ifaces[j] = down_ifaces[k] /\ down_ifaces[j] # NULL => j = k
    /\ n_down_ifaces = Cardinality(Slot \ Empties)
    /\ is_capturing <=> n_down_ifaces > 0

(***************************************************************************)
(* Captured packets are never forgotten in the file: while the dump holds  *)
(* any, a link is still to come UP (and will arm the timer) or the replay  *)
(* timer is armed, unless the daemon has crashed.                          *)
(***************************************************************************)
DumpAwaitsReplay ==
  running /\ dump # {} => replay \/ \E i \in Iface : status[i] = "DOWN"

(***************************************************************************)
(* Once all links stay UP and the daemon keeps running, the dump is        *)
(* emptied for good.                                                       *)
(***************************************************************************)
AllUp == running /\ \A i \in Iface : status[i] = "UP"
DumpDrains == <>[]AllUp => <>[](dump = {})

(***************************************************************************)
(* Store and forward keeps the promise of PacketStore: only what the       *)
(* handle of a DOWN link delivers enters the dump (dump_packet), only a    *)
(* replay takes anything out of it or is followed by packets on a wire,    *)
(* and only an UP link makes one due, in whichever order links change.     *)
(***************************************************************************)
Store == INSTANCE PacketStore WITH
           Link <- Iface, Packet <- Dest,
           down <- {i \in Iface : status[i] = "DOWN"},
           wire <- ring, kept <- dump, due <- replay, out <- replayed

StoresAndForwards == Store!Spec

(***************************************************************************)
(* capture.c:250: "Ignore if this is the first time the links have come    *)
(* up" and capture_end_iface's scan: no order of link changes makes the    *)
(* daemon fail.  The guard is n_down_ifaces = 0, so it covers only a link  *)
(* that comes UP for the first time while no link is recorded as DOWN.     *)
(***************************************************************************)
NeverCrashes == running

(***************************************************************************)
(* capture.c:309: "tcpdump -r dump.pcap -w dump.pcap 'not ( udp port 1234  *)
(* )'".  Removing what was replayed keeps what waits for another link.     *)
(***************************************************************************)
OthersStayInDump ==
  [][\A d \in dump \ dump' :
       ~(next_hops[d] # NULL /\ status[next_hops[d]] = "DOWN")]_vars
=============================================================================
