# DTLSR in TLA+

TLA+ specifications, TLC runs and TLAPS proofs for the routing daemons of
[DTLSR](../src/README.md): `lsr`, a link-state routing protocol, and `dtlsr`,
its delay-tolerant variant, both built from `src/dtlsr_main.c` (`DTLSR` is a
compile-time switch). `PROJECT.json` is the machine-readable index: components,
runs, the source lines of every definition, findings, hazards and theorems.

Paths below are relative to the repository's C sources (`src/`), except where
they start with `core-py/` or `tests/`.

## 1. The system

Every router runs two programs. `heartbeat` sends a datagram to each neighbour
every 100 ms. `lsr`/`dtlsr` is one thread around one `select`:

    capture_packets (dtlsr) -> event_wait -> update_routing_table
      -> handler of the one ready descriptor
      -> if needed: send_router_lsa; update_global_this + pathfind; start_capturing

| Part | State | Operations | Correct when |
|---|---|---|---|
| Link-state graph (`algorithm/ls_graph.c`, `node.c`) | one slot per node: UNSEEN / OPAQUE / SEEN, timestamp, link statuses and metrics | `update_global_this`, `merge_in_graph`, `merge_in_node` | slots never lose information; the own slot is the truth; neighbours of SEEN nodes are known |
| Router daemon (`dtlsr_main.c`, `algorithm/local_graph.c`) | own link statuses, heartbeat timers, LSA timer, graph | heartbeat, heartbeat timeout, LSA timer, recomputation timer, router LSA, network LSA, network LSA request, start | timers follow statuses; link changes reach everyone |
| Event loop (`process/fd_event.c`, the loop of `driver()`) | timer and socket descriptors | `event_wait`, arm, disarm, reset | nothing ready is starved; live links stay UP, dead ones go DOWN in time |
| From link states to packets (`dtlsr_main.c` with `pathfind.c`, `route_control.c`) | `graph`, `next_hops`, the kernel's table | one iteration: routes, handler, `pathfind` | settled links mean tables that lead packets to their destination |
| Store and forward (`network/capture.c`, dtlsr) | `down_ifaces`, `n_down_ifaces`, `is_capturing`, filter, capture rings, dump file, replay timer, `up_iface` | link down, link up, `capture_packets`, replay | the records of which links are down agree; what is captured is replayed |
| Routes (`process/route_control.c`) | `curr_routes` (12 slots), the kernel's table | `update_routing_table` | the kernel holds the paths and nothing else |
| Link history (`algorithm/link_hist.c`, dtlsr) | circular array of 64 change times | `ts_toggle_state`, averages | the average is the share of UP time |
| Shortest paths (`algorithm/pathfind.c`) | distances, predecessors | `dijkstra`, `get_next_hops` | distances are least, next hops lead there |
| Priority queue (`algorithm/heap.c`) | array of node pointers | insert, decrease, build, pop | pop takes the least |
| Heartbeat program (`heartbeat_main.c`) | one timer | send to every neighbour | part of the event loop's time |
| Default-route program (`default_route_main.c`) | none | one route, then exit | part of how packets travel |
| Configuration, sockets, daemonisation, logging | little or none | | not modelled, see section 8 |

Interaction: daemons exchange UDP datagrams on four ports (heartbeats 45000,
router LSAs 45001, network LSAs 45002, requests 45003); inside a daemon the
parts are called in turn from the loop and share `graph`, `this`, `next_hops`
and `up_iface`. There are no threads. What is hard is the network (datagrams
lost, delayed, repeated, reordered, between ports too), daemons that die and
come back while their old advertisements are still about, timers racing
heartbeats, two links that fail and recover in any order, tables that fill up,
and numbers that wrap. `PROJECT.json` lists each such hazard at its line.

## 2. The modules

| Module | What it is |
|---|---|
| `LSGraph` | the graph slots and the three merges, as constant operators |
| `LinkState` | all daemons of a network and the datagrams between them; the core of the project |
| `LinkState_proofs` | its inductive invariant and what follows |
| `LinkStateFifo`, `LinkStateFifo_proofs` | the same daemons over in-order links, where convergence can be asked; implements `LinkState` |
| `Routing` | those daemons with the paths each last computed and what its kernel got, and packets that follow the kernels' tables; its theorems are in `LinkStateFifo_proofs` |
| `EventLoop`, `EventLoop_proofs` | one daemon in time: the order in which `event_wait` serves descriptors, heartbeats, timeouts, replays that block |
| `PacketStore` | what store and forward promises, without records, filters and slots |
| `Capture`, `Capture_proofs` | store and forward in one `dtlsr` daemon; implements `PacketStore` |
| `RouteControl`, `RouteControl_proofs` | the routing table of one daemon |
| `LinkHist`, `LinkHist_proofs` | the history of one link |
| `MinHeap` | the heap's operations |
| `Pathfind`, `Pathfind_proofs` | Dijkstra over `MinHeap`, and the next hops |
| `Extrema` | least and greatest elements of sets of numbers, induction over them, and loops, for the proofs |
| `MC*` | small instances for TLC |

A module with a proof about it reaches no RECURSIVE operator; loops are recursive
functions of the number of their rounds. An operator marked "(mutant: ...)" stands before the definition it is a faulty version of. It is
never part of a specification; each property is known to fail when the
definition is replaced by a mutant.

### LinkState

One action is one iteration of the loop: the handler, the router LSA that
`do_send_lsa` causes, and the own slot that `graph_updated` or `recompute`
rewrites. The program reads the millisecond clock several times in an
iteration; the model reads it once. `Boot` is the prologue of `driver()`,
`Crash` is what `core-py/main.py:109` does to a node (services stopped and
started), `Lose` and the freedom in `Emit` are the network: a datagram stays in
flight or vanishes in any step, so it can be delivered late, twice or never,
and links can be cut (`core-py/main.py:49`) one way or both. Heartbeats of the
neighbours in `Hears` may arrive at any time. A slot keeps what the merges
read; addresses and neighbour lists come from the configuration and are the
constant `Nbr`. The metric of a DOWN link is any member of `DownMetrics`. The
bounds on datagrams in flight are there for TLC; 0 stands for no bound.

### LinkStateFifo

One queue per directed link and port; no daemon dies. `cut` holds the links that
are cut at present: `UpdateLink` cuts and mends those in `Fragile` at any time, as
`core-py/main.py:68` does with loss 100 and 0, and nothing sent over a cut link
arrives, datagrams of all ports and heartbeats alike (`Links`, `Works`). What was
sent before the cut still arrives. The two ends notice through heartbeats and
timeouts, each when it does, and a timer may also run out after the link has been
mended. Besides the cuts, `MaxLosses` router LSAs may be lost on links that work.
The metric of a DOWN link starts near that of an UP one and never falls while the
link stays DOWN (`LinkHist`'s `DownOnlyGetsWorse`); `Own` keeps it at the least of
`DownMetrics` until the last clock value and makes it the greatest then, so an
advertisement that only tells of a worse metric is in the runs. Its `Refinement` maps the queues to the sets in flight of
`LinkState`, without bounds on them, and checks `LinkState`'s specification as
a property; the proof takes it to every network. The periodic LSA of a router starts a new round only when the last has left its
links (200 ms against a link delay of about one).

### Routing

`Routing` extends `LinkStateFifo`: an action is an action of that module with
the rest of its iteration. `update_routing_table` comes first, so the kernel
gets the paths of the iteration before; `pathfind` runs only after a change of an
own link or the recomputation timer, since `handle_event_fd` ignores what
`receive_router_lsa` returns. `pathfind` is replaced by what `Pathfind` shows it
to compute (`NextHops`: the first nodes of cheapest paths, any of them among
equals). Hosts take part through their one neighbour (`default_route_main.c`).
`Arrives` follows a packet through the kernels' tables over links that work.

The network starts as one that has been up for long (`RoutingInit`): some
fragile links have been DOWN for as long as it takes the metric to reach its
greatest value, everyone knows everyone, the tables follow, and every fragile link
has just been mended or cut, whichever it was not, without any daemon having
noticed. That cut is real: from the first step on nothing that is sent over the
link arrives. Links change between such states in `LinkStateFifo`'s run.

### EventLoop

A descriptor is its place in `event_fds`; `EventWait(fd)` holds when it is the
first that is ready. Timers count down and stay ready at 0, because nobody reads
them: a handler that forgets to set or disarm its timer would be served for
ever. `Replay` makes the daemon `busy` for up to `MaxStall`; meanwhile timers
run and heartbeats wait in the socket. `Beat` is a turn of the loop of
`heartbeat_main.c` at a neighbour; `Flap` cuts or mends a link. Handlers
other than the replay take no time. `silent` is how long a neighbour has not
been heard at the socket, which the daemon does not know.

### Capture and PacketStore

An action is a handler with what the loop does around it: the routes are
brought up to date before, the capture handles are drained after. One packet
stands for the traffic to each destination. `down_ifaces` is kept as an array
with NULL slots, because `capture_end_iface` depends on it. `tcpdump` and
`tcpreplay` are modelled by what they do to the file; replayed packets pass the
capture handle of their interface again. `Reroutes` and `Prompt` restrict the
environment in the two violation runs, so that what they show has no other
cause; the passing run does not use them.

`PacketStore` knows links, packets on their way, packets kept and whether a
replay is due, and nothing of slots, counters and filters. `StoresAndForwards`
maps `Capture` to it: `ring` are the packets the store has not looked at, `dump`
what it keeps, `replay` whether a replay is due, and a link is down when its
status is DOWN.

### RouteControl

`update_routing_table` in the order of the code: reduce and deduplicate the
paths, add all of them to the kernel, note the new ones while there are free
slots, and only then remove the noted routes that are unwanted. `Restart`
leaves the kernel's routes behind.

### LinkHist, MinHeap, Pathfind

`LinkHist` keeps beside the array a log of the link, which the averages are
compared with. The averages are fractions over any weight of time (`Weight`);
the run uses the plain one (`ts_average_uptime`) and an exponential one
(`ts_weighted_average_uptime` with falloff 1/ln 2), the theorems all that grow
with the time. What `integral_between` divides by and the power are common to
both sides of a comparison. `Same` is the sum of the loop, `UpTime` what the log
says. `Pathfind` lowers distances
behind the heap's back and rebuilds it, as `dijkstra` does, and compares the
result with least costs over at most k links, for each k; the conversion of
metrics to `short` is modelled bit for bit. Each loop of `heap.c` and
`pathfind.c` is a table of the states after 0, 1, 2, ... rounds; where the code
leaves a loop early, the rounds left over change nothing.

## 3. The runs

| Run | Instance | Shows |
|---|---|---|
| `pair` | dtlsr, `a -- b -- h` with a host `h`; b crashes and restarts; clock to 2; one datagram of each kind in flight | `TypeOK`, `ArmedIffUp`, `OwnSlotCurrent`, `NeighboursKnown`, the whole inductive invariant `Inductive`, and `ViewsMoveForward` |
| `fifo_line` | lsr, three routers in a line; the link a–b is cut and mended at any time, either end notices twice at most; nothing lost but what is sent over it while it is cut | `TypeOK`, `Converges` (liveness) and `Refinement` |
| `routing` | dtlsr on the routers of `configs/box_headless` with a host; the link a–d has just been cut or mended, and its ends notice; its metric grows; one router LSA may be lost on another link | `TablesOK`, `Delivers` (liveness) |
| `routing_lsr` | lsr, the same, nothing lost on other links | `Delivers` fails: finding 3 |
| `event_loop` | dtlsr, two neighbours, one of which comes and goes; replays up to 200 ms; one heartbeat in a row may be lost | `TypeOK`, `DetectsDead`, `KeepsLive`, `EveryoneServed` (liveness) |
| `capture_links` | three interfaces, one destination | `TypeOK`, `Bookkeeping`, `DumpAwaitsReplay`, `DumpDrains` (liveness), `StoresAndForwards` (refinement) |
| `capture_crash` | two interfaces | `NeverCrashes` fails: finding 1 |
| `capture_others` | two interfaces, two destinations | `OthersStayInDump` fails: finding 2 |
| `routes_full` | three slots, three nodes of which two share a subnet, three metrics, restarts | `TypeOK`, `NotedAreInstalled`, `PathsInstalled`, `ExactWhileItFits`, `NotedOnceSettled` |
| `link_history` | four cells, nine changes in eight milliseconds | `TypeOK`, `Inductive` (the array against all changes, the changes against the log), `UptimeFollowsHistory`, `DownOnlyGetsWorse` |
| `paths` | lsr and dtlsr on four nodes in a ring with a chord, all link states, all ways to know the nodes | `TypeOK`, `Inductive` (Dijkstra's invariant), `ShortestPaths`, `NextHopsLeadThere`, `PoppedAreFinal` |
| `paths_metric` | five nodes in a line, all links DOWN for long | `MetricSaturates` fails: finding 4 |

### Bounds

- `pair`: with two clock values a router can restart in the same millisecond or
  in a later one; one datagram in flight is enough for an old one to meet a new
  state, since it may stay in flight for ever. The theorems lift the bounds:
  they hold for every topology, clock and number of datagrams.
- `fifo_line`: the line is the smallest network in which a router hears of
  another only through a third. c hears of the link a–b, which both ends see, through
  b, and b of a's advertisements only while the link works: `Converges` asks of
  a router only what the network can still bring to it (`Joined`). Changes may share
  a millisecond, and the later one is then refused where the earlier has arrived, until
  the periodic LSA with its later clock; but the first change of a router comes
  after its first timestamp (`Started`), the last before the last clock value
  (`LastChange`), and all once start-up is over (`AfterStart`), since a change during
  start-up can be swallowed (hazard at `algorithm/ls_graph.c:104`). These are real
  limits of the code.
- `routing`: the box is the smallest network with a way around a cut link that
  leads through a router that does not see the cut. The advertisements all hold
  carry the clock value 1; the links change at 2, while the metric of a DOWN link is
  at its least, and at 3 it is at its greatest. Each end notices the change once
  (`MaxChanges`), at its own time. Only `Talkers` (a, an end of the link) sends a
  periodic LSA, and the recomputation timers of a and b alone are let fire
  (`Recomputers`): for c and d the paths to h are c–d–h and d–h whatever the link
  a–d does, so their recomputations would find what they have. One LSA more than
  the cut swallows may be lost, on any link.
- `event_loop`: the unit is the heartbeat period of 100 ms; the 50 ms of the
  replay and recomputation timers are rounded up to it. With a timeout of five
  units, replays of two and one lost heartbeat in a row the condition of
  `KeepsLive` (`StallShort`) just holds: one more unit and a live link is
  declared DOWN. `silent` counts no further than `LongSilent`. The theorems hold
  for all periods.
- `capture_links`: three interfaces are the fewest with which the daemon can
  survive a mix of slots that empty and fill in different orders. With one
  destination the filter and the path still vary; what several destinations do
  to each other is covered by the proofs and by `capture_others`.
- `routes_full`: the sets of routes of two iterations can together exceed the
  three slots, fit exactly, or leave room.
- `link_history`: the array wraps twice; several changes share a millisecond.
- `paths`: the ring with a chord has paths that are longer in hops and shorter in
  cost, and nodes reached from two sides.

`CHECK_DEADLOCK FALSE` is set where the system may stop: the capture daemon
crashes, Dijkstra finishes.

### Fairness

`LinkStateFifo` assumes weak fairness of the clock, of starting, of the LSA
timer and of every delivery. `select` reports all ready descriptors and the
handlers are short, so what is ready is served in the end; `EveryoneServed` in
`EventLoop` is the check of that. Nothing is assumed of heartbeats or timeouts.
`Routing` assumes the same of the LSA timer, of deliveries and of iterations
that change nothing, and for dtlsr that again and again the own slot is fresh and
the paths are those of the graph (`UpToDate`), which every recomputation brings
about: it is what weak fairness of the recomputation timer amounts to, asks no
more, and is cheaper to check. Time passes there too, so that the metric grows in
the end; that links and statuses come to agree is the premise of `Delivers`
(`Settled`), not a fairness condition. `EventLoop` assumes that the daemon iterates while
something is ready, that the heartbeat programs run and that time passes.
`Capture` assumes weak fairness of the replay timer alone: it stays ready until
it is served. `LinkState` states no fairness, because its network may lose
everything.

## 4. What the properties say

`OwnSlotCurrent` is the heart of the protocol. `merge_in_node` and
`merge_in_graph` treat the own slot like any other, and a router's own
advertisements come back to it: over another path, from before a crash, inside
a network LSA. The own slot stays right because every change of a status
re-stamps it in the same iteration and an equal timestamp is refused.
`ArmedIffUp` matters because timers stand first in `event_fds` and are never
read: one left armed on a DOWN link would starve the daemon. `NeighboursKnown`
and `ViewsMoveForward` are about what others see. `Converges` says that a
change becomes known, and stays known, everywhere the network still reaches,
although a link that is cut loses all that is sent over it.

`Delivers` joins what is flooded to where packets go: when, for good, every
router finds UP exactly those of its links that work, the kernels' tables together lead from every node to every
host that can be reached, without a loop. It needs the flooding, the
recomputation and the table, each of which lags behind the one before, and it
holds although the cut link has lost every LSA sent over it.

`KeepsLive` and `DetectsDead` bound the failure detector from both sides.
`event_wait` looks at the heartbeat timers before it looks at the heartbeats, so
a heartbeat that waited behind a replay does not save a link whose timer ran
out: a live link is safe exactly while a replay and the heartbeats that may be
lost together take less than the timeout. A dead link is UP for at most the
timeout and two replays, since heartbeats from before the cut may be read late
and the timer may run out during another replay. `EveryoneServed` says that the
fixed order of descriptors starves none, as far as the model goes: handlers other
than the replay take no time, and each LSA socket gets at most one datagram, and
each neighbour sends at most one heartbeat, between two ticks. A daemon flooded
faster than it can read would starve its recomputation timer.

In `Capture`, `Bookkeeping` relates four variables written in four places;
`DumpAwaitsReplay` and `DumpDrains` say that captured packets are not left in
the file, and `StoresAndForwards` that nothing but the traffic of DOWN links gets
there: the handles also see UP links, and the packets a replay has just sent. In
`Pathfind`, `PoppedAreFinal` says that the distance of a node taken from the heap
never changes again, although `dijkstra` goes on comparing it. In `RouteControl`, `PathsInstalled` and `ExactWhileItFits` say what
adding first and removing later does to the kernel, and `NotedOnceSettled` that
an overflow heals.

## 5. Findings

1. **strcmp(…, NULL)** (`network/capture.c:254`). The daemon dies when a link comes
   UP and the scan of `down_ifaces` meets a NULL slot before the link's own. In the
   run one link comes UP and goes DOWN again, which puts it in slot 0; then the
   other comes UP for the first time, is in no slot, and the scan goes on to slot
   1, which is NULL. `capture.c:250` ("Ignore if this is the first time the links
   have come up") guards only while no link is recorded as DOWN
   (`n_down_ifaces == 0`). The same happens when two links are DOWN and the one in
   slot 0 comes UP first, which frees slot 0 for the other's scan to meet.
2. **The kept packets are truncated** (`network/capture.c:346`). After a replay
   `open_dump` empties the file that `tcpdump` just wrote.
3. **lsr does not act on what it hears** (`dtlsr_main.c:80`). A router LSA changes
   the graph but not the paths; a router that only hears of a cut sends packets
   back to where they came from until one of its own links changes. dtlsr has its
   recomputation timer.
4. **The metric overflows to -1** (`algorithm/pathfind.c:63`), where the comment
   and a test expect the greatest short. The metrics of the run, over one to four
   long-DOWN links of 10000, are 10001, 20001, 30001 and -1. The 1 in front is
   `*metric = 1` (`pathfind.c:71`), and the test disagrees with it, too:
   `tests/algorithm/check_pathfind.c:279-281` expects 30, 88 and 98 for paths of
   exactly that length, which the code reports as 31, 89 and 99. `NextHopsLeadThere`
   and `NextHopsCorrect` state what the code does, one more than the length; every
   metric carries the same 1, so comparing two of them comes out the same.

Two limits no document speaks of. A router LSA lost beyond the first hop is not
repeated (`algorithm/local_graph.c:121`: the periodic one equals what the first
hop knows and is not passed on); with `MaxLosses = 1`, a loss on a link that works,
`Converges` fails. `Delivers` allows one such loss and holds, because in its run
the periodic LSA repairs it or no path needs it. And new
routes are noted before old ones are removed (`process/route_control.c:182`), so
a route that finds the table full is installed and not noted, and is never
removed if it goes away before the table has room (`ExactWhileItFits`,
`NotedOnceSettled`).

## 6. The proofs

Assumptions: only the named ones in the modules (`TopologyAssumption`,
`MetricAssumption`, `EnvironmentAssumption`, `CaptureAssumption`,
`RouteAssumption`, `TimingAssumption`, `FifoAssumption`, `HistoryAssumption`,
`PathAssumption`, `HostAssumption`), which say what kind of thing each constant
is. The network need not be connected or symmetric, and no bound is used; for
`Routing` there are finitely many routers, a host has one interface, to a router,
and in dtlsr a DOWN link has some metric. Of the link history it is assumed that
`TS_SIZE` divides SIZE_MAX + 1, which the 64 of the source does: `first` and the
indices of the loop are computed in `size_t`, which wraps below zero. Of a graph
(`IsGraph`) it is assumed that the program's own node is SEEN, that no node has
two links to the same neighbour, and that none has more links than there are
nodes (`MAX_NODE_FAN` and `MAX_NODE_NUM` of `include/algorithm/def.h`).

**LinkState** (`LinkState_proofs`). `OwnSlotCurrent` alone is not inductive: a
datagram in flight might carry an advertisement newer than the own slot. The
invariant `Inductive` adds that no copy of any slot, in a graph or in flight,
has a timestamp the clock has not reached (`TimestampsPast`), and that a copy of
a running router's slot that is newer than its own slot shows its present
statuses (`NewerCopiesCurrent`; `send_router_lsa` stamps a newer timestamp than
the own slot has when only the LSA timer runs). A change of status re-stamps the
own slot with the present clock, which no copy exceeds; a boot does the same, so
advertisements from before the crash are never newer. Lemmas first say what the
operators of `LSGraph` preserve, then what each kind of step does to all copies
(`OwnStep` for a step of the owner, `CopyStep` for one that only copies slots,
`QuietStep` for the rest), then one lemma per action.
`ViewsOnlyMoveForward` follows from the same invariant.

| Theorem | Property |
|---|---|
| `InductiveInvariant` | `Inductive` |
| `TypeCorrect` | `TypeOK` |
| `OwnSlotAlwaysCurrent` | `OwnSlotCurrent` |
| `TimersFollowStatus` | `ArmedIffUp` |
| `NeighboursAlwaysKnown` | `NeighboursKnown` |
| `ViewsOnlyMoveForward` | `ViewsMoveForward` |
| `TypeCorrect` (`LinkStateFifo_proofs`) | `LinkStateFifo`'s `TypeOK` |
| `FifoImplementsLinkState` | `Refinement` |
| `FifoInherits` | `OwnSlotCurrent`, `ArmedIffUp`, `NeighboursKnown`, `ViewsMoveForward` of `LinkState`, over in-order links |
| `TypeCorrect` (`EventLoop_proofs`) | `EventLoop`'s `TypeOK` |
| `DeadAreDetected` | `DetectsDead` |
| `LiveAreKept` | `KeepsLive` |
| `DumpAlwaysAwaitsReplay` | `DumpAwaitsReplay` |
| `StoreImplemented` | `StoresAndForwards` |
| `CaptureTypeCorrect` | `Capture`'s `TypeOK` |
| `RecordsAlwaysAgree` | `Bookkeeping` |
| `RoutesTypeCorrect` | `RouteControl`'s `TypeOK` |
| `SettledTablesAreComplete` | `NotedOnceSettled` |
| `NotedAlwaysInstalled` | `NotedAreInstalled` |
| `PathsAlwaysInstalled` | `PathsInstalled` |
| `ExactlyThePaths` | `ExactWhileItFits` |
| `InductiveInvariant` (`LinkHist_proofs`) | `LinkHist`'s `Inductive` |
| `TypeCorrect` (`LinkHist_proofs`) | `LinkHist`'s `TypeOK` |
| `UptimeFollows` | `UptimeFollowsHistory` |
| `DownWorsens` | `DownOnlyGetsWorse` |
| `InductiveInvariant` (`Pathfind_proofs`) | `Pathfind`'s `Inductive` |
| `TypeCorrect` (`Pathfind_proofs`) | `Pathfind`'s `TypeOK` |
| `PoppedFinal` | `PoppedAreFinal` |
| `PathsAreShortest` | `ShortestPaths` |
| `NextHopsCorrect` | `NextHopsLeadThere` |
| `TablesCorrect` (`LinkStateFifo_proofs`) | `Routing`'s `TablesOK` |
| `RoutingInherits` (`LinkStateFifo_proofs`) | `OwnSlotCurrent`, `ArmedIffUp`, `NeighboursKnown`, `ViewsMoveForward` of `LinkState`, in `Routing` |

**LinkStateFifo**. The datagrams in flight of `LinkState` are those in the queues
(`Refinement`). Each action of `LinkStateFifo` is shown to be the action of
`LinkState` of the same name: a datagram taken from the head of a queue was in
flight, and what the queues hold afterwards is among what was in flight and what
the handler sent, which is all that `Emit` asks (`LinkState` may keep a datagram
or lose it). The proof needs the types of the queues, and that a router that has
not started has no link UP and no timer armed (both in `TypeOK`): `Boot` of
`LinkStateFifo` leaves the timers alone, that of `LinkState` disarms them. The
theorems of `LinkState_proofs` then hold of the refined variables
(`FifoInherits`).

**EventLoop**. The type invariant says that timers stay in their periods
(`Periods`), the periodic ones never being off, and how much can wait in `hb_sock`:
while a replay goes on a neighbour's heartbeats come one per `HbPeriod`, so `pending`
of them took at least that many periods, less the time `sender` to the next one, and
the replay cannot have been going for longer than `MaxStall - busy`; when no replay
blocks the loop the socket is emptied before time goes on. Two statements about time
need four more facts to be inductive. A
heartbeat that waits arrived during the present replay, so it is no older than
the replay can be (`PendingIsFresh`). With nothing waiting, the time left on a
timer and the neighbour's silence add up to at most the timeout and one replay;
once the timer has run out, to the timeout and two, of which the present replay
may still take its part (`TimerCountsSilence`, which gives `DetectsDead`). From
the other side, the timer of a link that is never cut has at least the timeout
less the time since its heartbeat program last got one through (`Gap`), or, with a
heartbeat waiting, less the longest such gap and the part of the replay that is
over (`TimerRuns`); under `StallShort` that is positive, so the timer has not run
out (`LiveTimerRuns`), which gives `KeepsLive`.

**Capture**. `DumpAwaitsReplay` is inductive once the statuses are typed: only
packets of a DOWN link are captured, and the step that takes the last DOWN link
away arms the timer. For the refinement, every action of `Capture` is an action
of `PacketStore` or a stutter (`StoreStep`); all it needs to know is that
`up_iface` and the routes name an interface when they are used (`LinksTyped`).
`Bookkeeping` and `TypeOK` are inductive together. The two steps that matter count:
an interface that is not listed leaves a slot free, as none is listed twice
(`RoomForUnlisted`, the pigeonhole principle), so `capture_start_iface` always
finds one, and `capture_end_iface`, when its scan survives, has found the
interface.

**RouteControl**. What is noted is wanted, and what is wanted was just added;
so the removals take nothing wanted. With room, every unnoted route finds a slot
(`AllNoted`, a counting argument over finite sets). When everything noted is
wanted there is room for the rest (`RoomOnceSettled`), which gives
`NotedOnceSettled`. Those newly noted are among the unnoted ones up to the last of
them, of which there are no more than free slots (`NotedFit`); this bounds
`curr_routes` in `TypeOK`.

**LinkHist**. The array of change times and the log of the link are tied to the
sequence of all changes (`Inductive`): change number i is in the cell i - 1
modulo `TS_SIZE` while it is among the last `TS_SIZE`, and between changes i and
i + 1 the log shows the state that the parity of i gives. Two indices less than
a turn apart are different cells (`ModApart`), so a toggle overwrites only the
oldest. The indices of the loop are differences in `size_t`; since `TS_SIZE`
divides SIZE_MAX + 1, wrapping does not show (`SizeArithmetic`). So the loop
reads the changes L - 1, L - 2, ... (`LoopCells`), each turn adds what the log
says of two intervals, one in the present state and one in the other
(`IntervalAdds`, `RoundAdds`), and the sum telescopes to the whole
(`SameFollowsLog`). With an odd number of changes in the array the oldest
interval is of the other state and adds nothing. `DownWorsens` follows: the
numerator stands still and is not negative (`SummationFollowsLog`), the
denominator grows. Sums are a recursive function; what `Sum` computes
is proved by induction in the form of `Extrema`'s `SetInduction`, on the set of the
numbers for which a statement holds.

**Pathfind**. The invariant (`Inductive`, the part `Settled` of it also holds
inside the loop over a node's links) says that the heap is in order and holds no
node twice, that a SEEN node out of the heap is no farther than those in it and
has its links relaxed, and that no distance is below the least cost over as many
links as nodes have been popped. Two lemmas serve all loops: a table of rounds
exists (`LoopExists`), and what each round preserves holds after the last
(`LoopInvariant`). Of the heap it is shown, for arrays of any length, that
`minheap_heapify` mends one place without touching the rest (`SwapDown`,
`HeapifyCorrect`), so that `minheap_build_heap` orders any array
(`BuildHeapCorrect`), that `minheap_pop` and `minheap_insert` keep the order and
the nodes (`PoppedCorrect`, `InsertCorrect`), and that the root of a heap is
nearest (`RootNearest`). The hard step is one link (`RelaxLinkCorrect`): the
distance of a node in the heap falls and the array is out of order until it is
rebuilt; the new distance is not below that of the node just popped, so
everything popped stays nearest, and no popped node is ever lowered, which is
`PoppedAreFinal`. At the end every distance is at least the least cost; it is at
most that because every link is relaxed, by induction over the number of links
of a path (`NoFarther`).

`get_next_hop` follows predecessors without counting, so that it ends is part of
what has to be shown. Predecessors form a tree (`Tree`): each was popped before,
its link gives the distance, and no set of nodes has all its predecessors inside.
A step keeps this because only nodes in the heap get a new predecessor, the node
just popped, and nothing popped points into the heap (`TreeStep`). A walk that
went on for more rounds than there are nodes would visit one twice (`TwiceVisited`,
the pigeonhole principle) and the nodes in between would be such a set; so it ends
(`ChainEnds`), and at the source, the only node without a predecessor that has
any distance. Along the walk distances fall by the metrics of the links
(`Trail`), so the first link and the rest add up to the least cost, and the rest is
a least cost too (`NoFarther`, from any node). The metric reported is summed in
`short` without overflow as long as it fits (`SafeAddExact`); that it does not always
fit is finding 4, which is why `NextHopsLeadThere` has that condition.

**Routing**. What `pathfind` may answer are the first nodes of paths in the router's
own graph, which it cannot trust: it may be old, or tell of links that are gone. A
path departs over a link of its first node (`RoutesDepart`, over the rounds of
`Routes`), and the router's links are those of its configuration, so every hop is a
neighbour (`HopsAreNeighbours`); the kernel gets what the last iteration found.
`Routing` does not start as `LinkState` does but in a network that has been up for
long; that state satisfies `LinkState`'s invariant read through `Refinement`
(`RoutingStarts`), and every iteration is one of `LinkState` (`RoutingSimulated`),
so its safety properties hold here as well (`RoutingInherits`).

Model-checked only: the liveness properties `Converges`, `Delivers`,
`EveryoneServed` and `DumpDrains` (liveness and ENABLED are beyond this prover).
Every invariant and action property that a passing run checks is a theorem.

## 7. Plan

Modelled in this order: the core (`LinkState`), its in-order network, store and
forward, routes, histories, paths, then time (`EventLoop`), the composition
(`Routing`) and the abstract store (`PacketStore`). Every safety property of the
passing runs is proved. Left is the safety half of
`Delivers`: once every router has the graph that the links show and paths computed
from it, no packet that follows the kernels' tables comes back to a router.

## 8. Not modelled

Reading and parsing of configuration files (`core_node.c`, `fileio.c`: the result
is `Nbr`), sockets, daemonisation and logging (no state), the scripts apart from
what they do to the network. `minheap_decrease_dist`, which only a test calls. In
the modelled parts: a clock that steps back, the fraction of a metric lost in the
conversion to `short`, the contents of packets, the text of the filter
expressions, the error returns of the replay (`capture.c:301-303`, `331-333`,
`338-340`, when `popen` fails; the last two leave the dump file closed), and, in `Routing`, the subnets and the size of the table
(`RouteControl` has both).
