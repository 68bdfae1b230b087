----------------------------- MODULE EventLoop -----------------------------
(***************************************************************************)
(* One daemon in time: the descriptors its loop waits for, the order in    *)
(* which event_wait serves them, the heartbeats its neighbours send, and   *)
(* the replay, which blocks the loop until tcpreplay has ended.            *)
(*                                                                         *)
(* Timers count down; one that has reached 0 stays ready until it is set   *)
(* again, for nobody reads it.  Handlers take no time except the replay.   *)
(* A descriptor is known by its place in event_fds.                        *)
(***************************************************************************)
EXTENDS Integers, FiniteSets

CONSTANTS
  N,            \* neighbours of the daemon
  DelayTolerant,\* TRUE: dtlsr, FALSE: lsr
  Steady,       \* neighbours whose link is never cut
  HbPeriod,     \* HEARTBEAT_T
  HbTimeout,    \* HEARTBEAT_TIMEOUT
  LsaPeriod,    \* LSA_SEND_T
  ReplayDelay,  \* REPLAY_DELAY_T
  Recompute,    \* METRIC_RECOMPUTATION_T
  MaxStall,     \* longest time a replay takes
  MaxLost       \* heartbeats in a row a link that is not cut may lose

Nbr == 1 .. N

ASSUME TimingAssumption ==
  /\ N \in Nat /\ Steady \subseteq Nbr /\ DelayTolerant \in BOOLEAN
  /\ {HbPeriod, HbTimeout, LsaPeriod, ReplayDelay, Recompute} \subseteq Nat \ {0}
  /\ MaxStall \in Nat /\ MaxLost \in Nat

(***************************************************************************)
(* aggregate_fds: the heartbeat timers, then the rest.                     *)
(***************************************************************************)
HbSock == N + 1
RouterLsaSock == N + 2
LsaTimer == N + 3
NetworkLsaSock == N + 4
RequestSock == N + 5
ReplayTimer == N + 6
RecomputeTimer == N + 7

Fd == 1 .. (IF DelayTolerant THEN N + 7 ELSE N + 5)
TimerFd == Nbr \cup ({LsaTimer, ReplayTimer, RecomputeTimer} \cap Fd)
LsaSock == {RouterLsaSock, NetworkLsaSock, RequestSock}

VARIABLES
  status,   \* status[n]: link_statuses
  timer,    \* timer[t]: time left, or Off
  pending,  \* pending[n]: heartbeats of n waiting in hb_sock
  inbox,    \* other sockets that hold a datagram
  busy,     \* what is left of a replay
  sender,   \* sender[n]: time left on the timer of n's heartbeat program
  lost,     \* lost[n]: heartbeats of n lost in a row
  cut,      \* neighbours whose link is cut
  silent    \* silent[n]: time since a heartbeat of n arrived

daemon == <<status, timer, busy>>
sockets == <<pending, inbox>>
world == <<sender, lost, cut, silent>>
vars == <<status, timer, pending, inbox, busy, sender, lost, cut, silent>>

Off == -1   \* event_timer_disarm: 2^63 seconds

\* Past this nobody asks how long a neighbour has been silent.
LongSilent == HbTimeout + 2 * MaxStall + 1

Ready(fd) ==
  \/ fd \in TimerFd /\ timer[fd] = 0
  \/ fd = HbSock /\ \E n \in Nbr : pending[n] > 0
  \/ fd \in LsaSock /\ fd \in inbox

(***************************************************************************)
(* local_node_init and init_descriptors, at any point of the periods of    *)
(* the neighbours' heartbeat programs.                                     *)
(***************************************************************************)
Init ==
  /\ status = [n \in Nbr |-> "DOWN"]
  /\ timer = [t \in TimerFd |-> CASE t = LsaTimer -> LsaPeriod
                                  [] t = RecomputeTimer -> Recompute
                                  [] OTHER -> Off]
  /\ pending = [n \in Nbr |-> 0]
  /\ inbox = {}
  /\ busy = 0
  /\ sender \in [Nbr -> 1 .. HbPeriod]
  /\ lost = [n \in Nbr |-> 0]
  /\ cut = {}
  /\ silent = [n \in Nbr |-> LongSilent]

-----------------------------------------------------------------------------
\* event_wait: the first descriptor in event_fds that is ready.
EventWait(fd) ==
  /\ busy = 0 /\ Ready(fd)
  /\ \A other \in Fd : other < fd => ~Ready(other)

(***************************************************************************)
(* timeout_heartbeat.                                                      *)
(***************************************************************************)
\* (mutant: the timer is not disarmed)
HeartbeatTimeoutArmed(n) ==
  /\ EventWait(n)
  /\ status' = [status EXCEPT ![n] = "DOWN"]
  /\ UNCHANGED <<timer, busy, sockets, world>>

HeartbeatTimeout(n) ==
  /\ EventWait(n)
  /\ IF status[n] = "UP"
     THEN /\ status' = [status EXCEPT ![n] = "DOWN"]
          /\ timer' = [timer EXCEPT ![n] = Off]
     ELSE UNCHANGED <<status, timer>>
  /\ UNCHANGED <<busy, sockets, world>>

(***************************************************************************)
(* receive_heartbeat and register_heartbeat: one datagram, which re-arms   *)
(* the timer of the neighbour it is from and, if the link was DOWN, brings *)
(* it UP and arms the replay timer.                                        *)
(***************************************************************************)
\* (mutant: a heartbeat re-arms the timers of all links that are UP)
RearmAll(n) == [t \in TimerFd |-> IF t = n \/ (t \in Nbr /\ status[t] = "UP")
                                  THEN HbTimeout ELSE timer[t]]

\* (mutant: only a heartbeat that brings the link UP arms the timer)
RearmOnce(n) == IF status[n] = "DOWN" THEN [timer EXCEPT ![n] = HbTimeout] ELSE timer

Rearm(n) == [timer EXCEPT ![n] = HbTimeout]

ReceiveHeartbeat(n) ==
  /\ EventWait(HbSock) /\ pending[n] > 0
  /\ pending' = [pending EXCEPT ![n] = @ - 1]
  /\ status' = [status EXCEPT ![n] = "UP"]
  /\ timer' = IF status[n] = "DOWN" /\ DelayTolerant
              THEN [Rearm(n) EXCEPT ![ReplayTimer] = ReplayDelay]
              ELSE Rearm(n)
  /\ UNCHANGED <<inbox, busy, world>>

\* The three LSA handlers take one datagram each.
ReceiveLsa(fd) ==
  /\ fd \in LsaSock /\ EventWait(fd)
  /\ inbox' = inbox \ {fd}
  /\ UNCHANGED <<daemon, pending, world>>

\* The periodic timers are set again by their handlers.
SendLsa ==
  /\ EventWait(LsaTimer)
  /\ timer' = [timer EXCEPT ![LsaTimer] = LsaPeriod]
  /\ UNCHANGED <<status, busy, sockets, world>>

RecomputeMetrics ==
  /\ DelayTolerant /\ EventWait(RecomputeTimer)
  /\ timer' = [timer EXCEPT ![RecomputeTimer] = Recompute]
  /\ UNCHANGED <<status, busy, sockets, world>>

(***************************************************************************)
(* The replay: popen and pclose wait for tcpdump and tcpreplay.            *)
(***************************************************************************)
Replay ==
  /\ DelayTolerant /\ EventWait(ReplayTimer)
  /\ timer' = [timer EXCEPT ![ReplayTimer] = Off]
  /\ busy' \in 0 .. MaxStall
  /\ UNCHANGED <<status, sockets, world>>

Iterate ==
  \/ \E n \in Nbr : HeartbeatTimeout(n) \/ ReceiveHeartbeat(n)
  \/ \E fd \in LsaSock : ReceiveLsa(fd)
  \/ SendLsa \/ Replay \/ RecomputeMetrics

-----------------------------------------------------------------------------
(***************************************************************************)
(* One turn of the loop in heartbeat_main.c at neighbour n: the timer is   *)
(* set again and a heartbeat sent, which arrives unless it is lost.        *)
(***************************************************************************)
Beat(n) ==
  /\ sender[n] = 0
  /\ sender' = [sender EXCEPT ![n] = HbPeriod]
  /\ \/ /\ n \notin cut
        /\ pending' = [pending EXCEPT ![n] = @ + 1]
        /\ silent' = [silent EXCEPT ![n] = 0]
        /\ lost' = [lost EXCEPT ![n] = 0]
     \/ /\ n \notin cut /\ lost[n] < MaxLost
        /\ lost' = [lost EXCEPT ![n] = @ + 1]
        /\ UNCHANGED <<pending, silent>>
     \/ n \in cut /\ UNCHANGED <<pending, silent, lost>>
  /\ UNCHANGED <<daemon, inbox, cut>>

\* A link is cut or mended.
Flap(n) ==
  /\ n \notin Steady
  /\ cut' = IF n \in cut THEN cut \ {n} ELSE cut \cup {n}
  /\ UNCHANGED <<daemon, sockets, sender, lost, silent>>

(***************************************************************************)
(* Time passes while the daemon replays or waits in select; meanwhile      *)
(* datagrams arrive.                                                       *)
(***************************************************************************)
Tick ==
  /\ busy > 0 \/ \A fd \in Fd : ~Ready(fd)
  /\ \A n \in Nbr : sender[n] > 0
  /\ timer' = [t \in TimerFd |-> IF timer[t] > 0 THEN timer[t] - 1 ELSE timer[t]]
  /\ busy' = IF busy > 0 THEN busy - 1 ELSE 0
  /\ sender' = [n \in Nbr |-> sender[n] - 1]
  /\ silent' = [n \in Nbr |-> IF silent[n] < LongSilent THEN silent[n] + 1 ELSE LongSilent]
  /\ \E new \in SUBSET LsaSock : inbox' = inbox \cup new
  /\ UNCHANGED <<status, pending, lost, cut>>

Next ==
  \/ Iterate \/ Tick
  \/ \E n \in Nbr : Beat(n) \/ Flap(n)

(***************************************************************************)
(* The daemon and the heartbeat programs run when they have something to   *)
(* do, and time goes on.                                                   *)
(***************************************************************************)
Fairness == WF_vars(Iterate) /\ WF_vars(Tick) /\ \A n \in Nbr : WF_vars(Beat(n))

Spec == Init /\ [][Next]_vars /\ Fairness

-----------------------------------------------------------------------------
(***************************************************************************)
(* Type invariant.  A timer is never set beyond its period; a heartbeat    *)
(* timer is on exactly while its link is UP and a periodic timer always;   *)
(* and what waits in hb_sock is what the last replay let pile up, one      *)
(* heartbeat per period: the next is still sender[n] away.                 *)
(***************************************************************************)
Period(t) == CASE t \in Nbr -> HbTimeout
               [] t = LsaTimer -> LsaPeriod
               [] t = ReplayTimer -> ReplayDelay
               [] OTHER -> Recompute

TypeOK ==
  /\ status \in [Nbr -> {"UP", "DOWN"}]
  /\ timer \in [TimerFd -> Int] /\ \A t \in TimerFd : timer[t] \in Off .. Period(t)
  /\ \A n \in Nbr : timer[n] = Off <=> status[n] = "DOWN"
  /\ \A t \in TimerFd \cap {LsaTimer, RecomputeTimer} : timer[t] # Off
  /\ pending \in [Nbr -> Nat]
  /\ \A n \in Nbr : pending[n] > 0 => pending[n] * HbPeriod - sender[n] <= MaxStall - busy
  /\ inbox \subseteq LsaSock
  /\ busy \in 0 .. MaxStall
  /\ sender \in [Nbr -> 0 .. HbPeriod]
  /\ lost \in [Nbr -> 0 .. MaxLost]
  /\ cut \subseteq Nbr \ Steady
  /\ silent \in [Nbr -> 0 .. LongSilent]

(***************************************************************************)
(* A replay shorter than the heartbeat timeout, less the heartbeats that   *)
(* may be lost on the way, never makes the daemon declare a link DOWN that *)
(* is not cut: event_wait looks at the timers before it looks at the       *)
(* heartbeats that waited behind the replay, so everything rests on the    *)
(* timer not having run out.                                               *)
(***************************************************************************)
StallShort == (MaxLost + 1) * HbPeriod + MaxStall < HbTimeout

KeepsLive ==
  [][StallShort => \A n \in Steady : status[n] = "UP" => status'[n] = "UP"]_vars

(***************************************************************************)
(* A link is declared DOWN at the latest two replays after the timeout: a  *)
(* heartbeat may wait for the end of one replay before it re-arms the      *)
(* timer, and the timer may run out during another.                        *)
(***************************************************************************)
DetectsDead ==
  \A n \in Nbr : status[n] = "UP" => silent[n] <= HbTimeout + 2 * MaxStall

(***************************************************************************)
(* No descriptor is starved, the last in event_fds (the recomputation      *)
(* timer) included, whatever links do and in whatever order datagrams      *)
(* come, as long as the handlers but the replay take no time and a socket  *)
(* gets one LSA, and a heartbeat of each neighbour, between two ticks.     *)
(***************************************************************************)
EveryoneServed == \A fd \in Fd : Ready(fd) ~> ~Ready(fd)
=============================================================================
