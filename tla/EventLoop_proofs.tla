-------------------------- MODULE EventLoop_proofs --------------------------
(***************************************************************************)
(* Proofs about EventLoop, for any number of neighbours and any periods,   *)
(* timeouts, lengths of replays and runs of lost heartbeats, lsr and dtlsr.*)
(***************************************************************************)
EXTENDS EventLoop, TLAPS

(***************************************************************************)
(* A heartbeat that waits in the socket arrived during the present replay. *)
(***************************************************************************)
PendingIsFresh == \A n \in Nbr : pending[n] > 0 => silent[n] + busy <= MaxStall

(***************************************************************************)
(* What the timer of a link that is UP knows of its neighbour's silence.   *)
(***************************************************************************)
TimerCountsSilence ==
  \A n \in Nbr : status[n] = "UP" /\ pending[n] = 0 =>
    /\ timer[n] > 0 => silent[n] + timer[n] <= HbTimeout + MaxStall
    /\ timer[n] = 0 => silent[n] + busy <= HbTimeout + 2 * MaxStall

\* Time since the heartbeat program of n last got a heartbeat through.
Gap(n) == lost[n] * HbPeriod + HbPeriod - sender[n]
LongestGap == (MaxLost + 1) * HbPeriod

(***************************************************************************)
(* The timer of a live link has not run out.                               *)
(***************************************************************************)
TimerRuns ==
  StallShort =>
    \A n \in Steady : status[n] = "UP" =>
      /\ pending[n] = 0 => timer[n] >= HbTimeout - Gap(n)
      /\ pending[n] > 0 => timer[n] >= HbTimeout - LongestGap - (MaxStall - busy)

Inductive == TypeOK /\ PendingIsFresh /\ TimerCountsSilence /\ TimerRuns

-----------------------------------------------------------------------------
\* The places in event_fds are all different.
LEMMA FdDistinct ==
  /\ Nbr \cap {HbSock, RouterLsaSock, LsaTimer, NetworkLsaSock, RequestSock,
               ReplayTimer, RecomputeTimer} = {}
  /\ LsaTimer # ReplayTimer /\ LsaTimer # RecomputeTimer /\ ReplayTimer # RecomputeTimer
  /\ Nbr \subseteq TimerFd /\ LsaTimer \in TimerFd /\ HbSock \in Fd /\ Nbr \subseteq Fd
  /\ DelayTolerant => {ReplayTimer, RecomputeTimer} \subseteq TimerFd
  /\ TimerFd \subseteq Fd /\ Fd \subseteq Nat /\ HbSock \notin TimerFd /\ N \in Nat
BY TimingAssumption DEF Nbr, HbSock, RouterLsaSock, LsaTimer, NetworkLsaSock, RequestSock,
   ReplayTimer, RecomputeTimer, TimerFd, Fd

\* The assumptions on the periods, one by one.
LEMMA TimesAreNumbers ==
  /\ HbPeriod \in Nat /\ HbPeriod > 0 /\ HbTimeout \in Nat /\ HbTimeout > 0
  /\ LsaPeriod \in Nat /\ LsaPeriod > 0 /\ ReplayDelay \in Nat /\ ReplayDelay > 0
  /\ Recompute \in Nat /\ Recompute > 0 /\ MaxStall \in Nat /\ MaxLost \in Nat
BY TimingAssumption

\* What each timer is set to at most.
LEMMA Periods ==
  /\ \A n \in Nbr : Period(n) = HbTimeout
  /\ Period(LsaTimer) = LsaPeriod /\ Period(ReplayTimer) = ReplayDelay
  /\ Period(RecomputeTimer) = Recompute
  /\ \A t : Period(t) \in Nat \ {0}
BY FdDistinct, TimesAreNumbers DEF Period

\* Multiplication, which the provers do not do by themselves.
LEMMA MulMonotone == ASSUME NEW a \in Nat, NEW b \in Nat, NEW h \in Nat, a <= b
                     PROVE  a * h <= b * h /\ a * h \in Nat
OBVIOUS

\* However its heartbeats are lost, a neighbour is never silent for longer.
LEMMA GapBound ==
  ASSUME TypeOK, NEW n \in Nbr
  PROVE  Gap(n) \in Nat /\ Gap(n) <= LongestGap /\ LongestGap \in Nat
<1> DEFINE l == lost[n] * HbPeriod  s == sender[n]  m == MaxLost * HbPeriod
<1>1. lost[n] \in Nat /\ lost[n] <= MaxLost /\ s \in 0 .. HbPeriod
  BY TimesAreNumbers DEF TypeOK
<1>2. l \in Nat /\ l <= m /\ m \in Nat
  BY <1>1, TimesAreNumbers, MulMonotone
<1>3. LongestGap = m + HbPeriod
  BY TimesAreNumbers DEF LongestGap
<1>4. Gap(n) = l + HbPeriod - s
  BY DEF Gap
<1> HIDE DEF l, s, m
<1> QED  BY <1>1, <1>2, <1>3, <1>4, TimesAreNumbers

\* At start-up every link is DOWN and nothing waits.
THEOREM InductiveInit == Init => Inductive
<1> SUFFICES ASSUME Init PROVE Inductive
  OBVIOUS
<1>1. TypeOK
  <2>1. /\ status \in [Nbr -> {"UP", "DOWN"}] /\ pending \in [Nbr -> Nat]
        /\ inbox \subseteq LsaSock /\ busy \in 0 .. MaxStall
        /\ sender \in [Nbr -> 0 .. HbPeriod] /\ lost \in [Nbr -> 0 .. MaxLost]
        /\ cut \subseteq Nbr \ Steady /\ silent \in [Nbr -> 0 .. LongSilent]
    BY TimesAreNumbers DEF Init, LongSilent
  <2>2. \A t \in TimerFd : timer[t] \in Int /\ timer[t] \in Off .. Period(t)
    BY Periods, TimesAreNumbers DEF Init, Off
  <2>5. \A t \in TimerFd \cap {LsaTimer, RecomputeTimer} : timer[t] # Off
    BY TimesAreNumbers DEF Init, Off
  <2>6. \A n \in Nbr : pending[n] = 0
    BY DEF Init
  <2>3. timer \in [TimerFd -> Int]
    BY <2>2 DEF Init
  <2>4. \A n \in Nbr : timer[n] = Off /\ status[n] = "DOWN"
    BY FdDistinct DEF Init
  <2> QED  BY <2>1, <2>2, <2>3, <2>4, <2>5, <2>6 DEF TypeOK
<1>2. \A n \in Nbr : status[n] = "DOWN" /\ pending[n] = 0
  BY DEF Init
<1> QED  BY <1>1, <1>2, TimingAssumption DEF Inductive, PendingIsFresh, TimerCountsSilence, TimerRuns

\* The daemon's timers never run out on a live link, so none of them is served.
LEMMA LiveTimerRuns ==
  ASSUME Inductive, StallShort, NEW n \in Steady, status[n] = "UP"
  PROVE  timer[n] > 0
<1>1. n \in Nbr /\ pending[n] \in Nat /\ busy \in 0 .. MaxStall /\ timer[n] \in Int
  BY TimingAssumption, FdDistinct DEF Inductive, TypeOK
<1>2. Gap(n) \in Nat /\ Gap(n) <= LongestGap /\ LongestGap \in Nat
  BY <1>1, GapBound DEF Inductive
<1>3. LongestGap + MaxStall < HbTimeout
  BY DEF StallShort, LongestGap
<1> QED  BY <1>1, <1>2, <1>3, TimesAreNumbers DEF Inductive, TimerRuns

(***************************************************************************)
(* Every step of the daemon but the replay keeps what it does not touch:   *)
(* silence, the world outside and the time left of a replay, which is none.*)
(***************************************************************************)
LEMMA TimeoutStep ==
  ASSUME Inductive, NEW n \in Nbr, HeartbeatTimeout(n)
  PROVE  Inductive'
<1>1. n \in TimerFd /\ timer[n] = 0 /\ status[n] = "UP"
  <2>1. n \in TimerFd /\ n # HbSock /\ n \notin LsaSock
    BY FdDistinct DEF LsaSock
  <2>2. timer[n] = 0
    BY <2>1 DEF HeartbeatTimeout, EventWait, Ready
  <2> QED  BY <2>1, <2>2 DEF Inductive, TypeOK, Off
<1>2. /\ status' = [status EXCEPT ![n] = "DOWN"] /\ timer' = [timer EXCEPT ![n] = Off]
      /\ UNCHANGED <<pending, inbox, busy, sender, lost, cut, silent>>
  BY <1>1 DEF HeartbeatTimeout, sockets, world
<1>3. TypeOK'
  <2>1. timer \in [TimerFd -> Int] /\ n \notin {LsaTimer, RecomputeTimer} /\ Off \in Off .. Period(n)
    BY FdDistinct, Periods DEF Inductive, TypeOK, Off
  <2>2. \A t \in TimerFd : timer'[t] = IF t = n THEN Off ELSE timer[t]
    BY <1>1, <1>2, <2>1
  <2>3. timer' \in [TimerFd -> Int] /\ \A t \in TimerFd : timer'[t] \in Off .. Period(t)
    <3>1. Off \in Int /\ \A t \in TimerFd : timer[t] \in Off .. Period(t)
      BY DEF Inductive, TypeOK, Off
    <3> QED  BY <1>2, <2>1, <2>2, <3>1
  <2>4. \A t \in TimerFd \cap {LsaTimer, RecomputeTimer} : timer'[t] # Off
    BY <2>1, <2>2 DEF Inductive, TypeOK
  <2>5. \A k \in Nbr : timer'[k] = Off <=> status'[k] = "DOWN"
    BY <1>2, <2>2, FdDistinct DEF Inductive, TypeOK
  <2> QED  BY <1>2, <2>3, <2>4, <2>5 DEF Inductive, TypeOK
<1>4. PendingIsFresh' /\ TimerCountsSilence'
  BY <1>1, <1>2, FdDistinct DEF Inductive, TypeOK, PendingIsFresh, TimerCountsSilence
<1>5. TimerRuns'
  <2>1. StallShort => n \notin Steady
    BY <1>1, LiveTimerRuns
  <2> QED  BY <1>1, <1>2, <2>1, FdDistinct, TimingAssumption
           DEF Inductive, TypeOK, TimerRuns, Gap
<1> QED  BY <1>3, <1>4, <1>5 DEF Inductive

\* A heartbeat that waited, or did not, re-arms the timer of its neighbour.
LEMMA HeartbeatStep ==
  ASSUME Inductive, NEW n \in Nbr, ReceiveHeartbeat(n)
  PROVE  Inductive'
<1>1. /\ busy = 0 /\ pending[n] > 0
      /\ pending' = [pending EXCEPT ![n] = @ - 1] /\ status' = [status EXCEPT ![n] = "UP"]
      /\ UNCHANGED <<inbox, busy, sender, lost, cut, silent>>
  BY DEF ReceiveHeartbeat, EventWait, world
<1>2. /\ timer' \in [TimerFd -> Int] /\ timer'[n] = HbTimeout
      /\ \A t \in TimerFd : timer'[t] \in Off .. Period(t)
      /\ \A k \in Nbr \ {n} : timer'[k] = timer[k]
      /\ \A t \in TimerFd \cap {LsaTimer, RecomputeTimer} : timer'[t] = timer[t]
  <2>1. timer' = Rearm(n) \/ (DelayTolerant /\ timer' = [Rearm(n) EXCEPT ![ReplayTimer] = ReplayDelay])
    BY DEF ReceiveHeartbeat
  <2>2. timer \in [TimerFd -> Int] /\ \A t \in TimerFd : timer[t] \in Off .. Period(t)
    BY DEF Inductive, TypeOK
  <2>3. HbTimeout \in Off .. Period(n) /\ ReplayDelay \in Off .. Period(ReplayTimer)
    BY Periods, TimesAreNumbers DEF Off
  <2> QED  BY <2>1, <2>2, <2>3, FdDistinct, TimesAreNumbers DEF Rearm
<1>3. TypeOK'
  <2>1. \A k \in Nbr : pending'[k] > 0 => pending'[k] * HbPeriod - sender'[k] <= MaxStall - busy'
    <3> SUFFICES ASSUME NEW k \in Nbr, pending'[k] > 0
                 PROVE  pending'[k] * HbPeriod - sender[k] <= MaxStall - busy
      BY <1>1
    <3>1. pending'[k] \in Nat /\ pending[k] \in Nat /\ pending'[k] <= pending[k]
      BY <1>1 DEF Inductive, TypeOK
    <3>2. pending[k] * HbPeriod - sender[k] <= MaxStall - busy
      BY <3>1 DEF Inductive, TypeOK
    <3> DEFINE was == pending[k] * HbPeriod  is == pending'[k] * HbPeriod
    <3>3. is <= was /\ is \in Nat /\ was \in Nat
      BY <3>1, TimesAreNumbers, MulMonotone
    <3>4. sender[k] \in Int /\ busy \in Int
      BY DEF Inductive, TypeOK
    <3>5. was - sender[k] <= MaxStall - busy
      BY <3>2
    <3> HIDE DEF was, is
    <3>6. is - sender[k] <= MaxStall - busy
      BY <3>3, <3>4, <3>5, TimesAreNumbers
    <3> QED  BY <3>6 DEF is
  <2>2. \A k \in Nbr : timer'[k] = Off <=> status'[k] = "DOWN"
    BY <1>1, <1>2, TimesAreNumbers DEF Inductive, TypeOK, Off
  <2> QED  BY <1>1, <1>2, <2>1, <2>2 DEF Inductive, TypeOK
<1>4. PendingIsFresh'
  BY <1>1 DEF Inductive, TypeOK, PendingIsFresh
<1>5. TimerCountsSilence'
  <2> SUFFICES ASSUME NEW k \in Nbr, status'[k] = "UP", pending'[k] = 0
               PROVE  /\ timer'[k] > 0 => silent'[k] + timer'[k] <= HbTimeout + MaxStall
                      /\ timer'[k] = 0 => silent'[k] + busy' <= HbTimeout + 2 * MaxStall
    BY DEF TimerCountsSilence
  <2>1. CASE k = n
    BY <2>1, <1>1, <1>2, TimesAreNumbers DEF Inductive, TypeOK, PendingIsFresh
  <2>2. CASE k # n
    BY <2>2, <1>1, <1>2 DEF Inductive, TypeOK, TimerCountsSilence
  <2> QED  BY <2>1, <2>2
<1>6. TimerRuns'
  <2> SUFFICES ASSUME StallShort, NEW k \in Steady, status'[k] = "UP"
               PROVE  /\ pending'[k] = 0 => timer'[k] >= HbTimeout - Gap(k)'
                      /\ pending'[k] > 0 => timer'[k] >= HbTimeout - LongestGap - (MaxStall - busy')
    BY DEF TimerRuns, StallShort, LongestGap
  <2>0. k \in Nbr /\ Gap(k)' = Gap(k) /\ Gap(k) \in Nat /\ LongestGap \in Nat
    BY <1>1, GapBound, TimingAssumption DEF Inductive, Gap
  <2>1. CASE k = n
    BY <2>0, <2>1, <1>1, <1>2, TimesAreNumbers DEF Inductive, TypeOK
  <2>2. CASE k # n
    BY <2>0, <2>2, <1>1, <1>2 DEF Inductive, TypeOK, TimerRuns
  <2> QED  BY <2>1, <2>2
<1> QED  BY <1>3, <1>4, <1>5, <1>6 DEF Inductive
(***************************************************************************)
(* The other handlers set timers that are no heartbeat's and take LSAs.    *)
(***************************************************************************)
LEMMA QuietStep ==
  ASSUME Inductive,
         UNCHANGED <<status, pending, busy, sender, lost, silent>>,
         timer' \in [TimerFd -> Int], \A t \in TimerFd : timer'[t] \in Off .. Period(t),
         \A n \in Nbr : timer'[n] = timer[n],
         \A t \in TimerFd \cap {LsaTimer, RecomputeTimer} : timer'[t] # Off,
         inbox' \subseteq LsaSock, cut' \subseteq Nbr \ Steady
  PROVE  Inductive'
<1>1. TypeOK'
  BY DEF Inductive, TypeOK
<1>2. PendingIsFresh' /\ TimerCountsSilence'
  BY DEF Inductive, PendingIsFresh, TimerCountsSilence
<1>3. TimerRuns'
  BY TimingAssumption DEF Inductive, TimerRuns, Gap
<1> QED  BY <1>1, <1>2, <1>3 DEF Inductive

\* A replay starts only when no heartbeat waits and no heartbeat timer has run out.
LEMMA ReplayStep ==
  ASSUME Inductive, Replay
  PROVE  Inductive'
<1>1. \A n \in Nbr : pending[n] = 0 /\ timer[n] # 0
  <2> SUFFICES ASSUME NEW n \in Nbr PROVE pending[n] = 0 /\ timer[n] # 0
    OBVIOUS
  <2>1. n < ReplayTimer /\ HbSock < ReplayTimer
    BY TimingAssumption DEF ReplayTimer, HbSock, Nbr
  <2>2. ~Ready(n) /\ ~Ready(HbSock)
    BY <2>1, FdDistinct DEF Replay, EventWait
  <2> QED  BY <2>2, FdDistinct DEF Ready, Inductive, TypeOK
<1>2. /\ timer' = [timer EXCEPT ![ReplayTimer] = Off] /\ busy' \in 0 .. MaxStall
      /\ UNCHANGED <<status, pending, inbox, sender, lost, cut, silent>>
  BY DEF Replay, sockets, world
<1>3. \A n \in Nbr : timer'[n] = timer[n]
  BY <1>2, FdDistinct DEF Inductive, TypeOK
<1>4. TypeOK'
  <2>1. /\ timer \in [TimerFd -> Int] /\ (\A t \in TimerFd : timer[t] \in Off .. Period(t))
        /\ Off \in Int /\ \A t \in TimerFd : Off \in Off .. Period(t)
    BY Periods DEF Inductive, TypeOK, Off
  <2>2. timer' \in [TimerFd -> Int]
    BY <2>1, <1>2
  <2>3. \A t \in TimerFd : timer'[t] \in Off .. Period(t)
    <3>1. \A t \in TimerFd : timer'[t] = timer[t] \/ timer'[t] = Off
      BY <2>1, <1>2
    <3> QED  BY <2>1, <3>1
  <2>4. \A t \in TimerFd \cap {LsaTimer, RecomputeTimer} : timer'[t] = timer[t]
    BY <2>1, <1>2, FdDistinct
  <2> QED  BY <2>2, <2>3, <2>4, <1>1, <1>2, <1>3 DEF Inductive, TypeOK
<1>5. PendingIsFresh' /\ TimerCountsSilence'
  BY <1>1, <1>2, <1>3 DEF Inductive, PendingIsFresh, TimerCountsSilence
<1>6. TimerRuns'
  BY <1>1, <1>2, <1>3, TimingAssumption DEF Inductive, TimerRuns, Gap
<1> QED  BY <1>4, <1>5, <1>6 DEF Inductive

\* One case per handler.
LEMMA DaemonStep == ASSUME Inductive, Iterate PROVE Inductive'
<1>1. ASSUME NEW n \in Nbr, HeartbeatTimeout(n) \/ ReceiveHeartbeat(n) PROVE Inductive'
  BY <1>1, TimeoutStep, HeartbeatStep
<1>2. ASSUME NEW fd \in LsaSock, ReceiveLsa(fd) PROVE Inductive'
  BY <1>2, QuietStep DEF ReceiveLsa, daemon, world, Inductive, TypeOK
<1>3. CASE SendLsa
  <2>1. timer' = [timer EXCEPT ![LsaTimer] = LsaPeriod]
    BY <1>3 DEF SendLsa
  <2> QED  BY <2>1, <1>3, QuietStep, FdDistinct, Periods, TimesAreNumbers
           DEF SendLsa, sockets, world, Inductive, TypeOK, Off
<1>4. CASE RecomputeMetrics
  <2>1. timer' = [timer EXCEPT ![RecomputeTimer] = Recompute]
    BY <1>4 DEF RecomputeMetrics
  <2> QED  BY <2>1, <1>4, QuietStep, FdDistinct, Periods, TimesAreNumbers
           DEF RecomputeMetrics, sockets, world, Inductive, TypeOK, Off
<1> QED  BY <1>1, <1>2, <1>3, <1>4, ReplayStep DEF Iterate

(***************************************************************************)
(* A heartbeat that gets through ends the gap; one that is lost neither    *)
(* lengthens it nor ends it; of a link that is cut nothing is claimed.     *)
(***************************************************************************)
LEMMA BeatStep ==
  ASSUME Inductive, NEW n \in Nbr, Beat(n)
  PROVE  Inductive'
<1>1. /\ sender[n] = 0 /\ sender' = [sender EXCEPT ![n] = HbPeriod]
      /\ UNCHANGED <<status, timer, busy, inbox, cut>>
  BY DEF Beat, daemon
<1>2. CASE /\ pending' = [pending EXCEPT ![n] = @ + 1]
           /\ silent' = [silent EXCEPT ![n] = 0] /\ lost' = [lost EXCEPT ![n] = 0]
  <2>1. TypeOK'
    BY <1>1, <1>2, TimesAreNumbers DEF Inductive, TypeOK, LongSilent
  <2>2. PendingIsFresh' /\ TimerCountsSilence'
    BY <1>1, <1>2, TimesAreNumbers DEF Inductive, TypeOK, PendingIsFresh, TimerCountsSilence
  <2>3. TimerRuns'
    <3> SUFFICES ASSUME StallShort, NEW k \in Steady, status[k] = "UP"
                 PROVE  /\ pending'[k] = 0 => timer[k] >= HbTimeout - Gap(k)'
                        /\ pending'[k] > 0 => timer[k] >= HbTimeout - LongestGap - (MaxStall - busy)
      BY <1>1 DEF TimerRuns, StallShort, LongestGap
    <3>1. k \in Nbr /\ Gap(k) \in Nat /\ Gap(k) <= LongestGap /\ LongestGap \in Nat
      BY GapBound, TimingAssumption DEF Inductive
    <3>2. CASE k = n
      <4>1. timer[k] \in Int /\ busy \in 0 .. MaxStall /\ pending[k] \in Nat /\ pending'[k] > 0
        BY <3>1, <3>2, <1>2, FdDistinct DEF Inductive, TypeOK
      <4>2. \/ timer[k] >= HbTimeout - Gap(k)
            \/ timer[k] >= HbTimeout - LongestGap - (MaxStall - busy)
        BY <4>1 DEF Inductive, TimerRuns
      <4> QED  BY <3>1, <4>1, <4>2, TimesAreNumbers
    <3>3. CASE k # n
      BY <3>1, <3>3, <1>1, <1>2 DEF Inductive, TypeOK, TimerRuns, Gap
    <3> QED  BY <3>2, <3>3
  <2> QED  BY <2>1, <2>2, <2>3 DEF Inductive
<1>3. CASE /\ lost[n] < MaxLost /\ lost' = [lost EXCEPT ![n] = @ + 1]
           /\ UNCHANGED <<pending, silent>>
  <2>1. TypeOK'
    BY <1>1, <1>3, TimesAreNumbers DEF Inductive, TypeOK
  <2>2. PendingIsFresh' /\ TimerCountsSilence'
    BY <1>1, <1>3 DEF Inductive, PendingIsFresh, TimerCountsSilence
  <2>3. \A k \in Nbr : Gap(k)' = Gap(k)
    <3>1. (lost[n] + 1) * HbPeriod = lost[n] * HbPeriod + HbPeriod /\ lost[n] * HbPeriod \in Nat
      BY TimesAreNumbers DEF Inductive, TypeOK
    <3>2. Gap(n)' = (lost[n] + 1) * HbPeriod + HbPeriod - HbPeriod
      BY <1>1, <1>3 DEF Gap, Inductive, TypeOK
    <3>3. Gap(n) = lost[n] * HbPeriod + HbPeriod - 0
      BY <1>1 DEF Gap
    <3>4. Gap(n)' = Gap(n)
      BY <3>1, <3>2, <3>3, TimesAreNumbers
    <3> QED  BY <3>4, <1>1, <1>3 DEF Gap, Inductive, TypeOK
  <2>4. TimerRuns'
    BY <1>1, <1>3, <2>3, TimingAssumption DEF Inductive, TimerRuns, StallShort, LongestGap
  <2> QED  BY <2>1, <2>2, <2>4 DEF Inductive
<1>4. CASE n \in cut /\ UNCHANGED <<pending, silent, lost>>
  <2>1. TypeOK'
    BY <1>1, <1>4, TimesAreNumbers DEF Inductive, TypeOK
  <2>2. PendingIsFresh' /\ TimerCountsSilence'
    BY <1>1, <1>4 DEF Inductive, PendingIsFresh, TimerCountsSilence
  <2>3. \A k \in Steady : Gap(k)' = Gap(k)
    BY <1>1, <1>4, TimingAssumption DEF Gap, Inductive, TypeOK
  <2>4. TimerRuns'
    BY <1>1, <1>4, <2>3, TimingAssumption DEF Inductive, TimerRuns, StallShort, LongestGap
  <2> QED  BY <2>1, <2>2, <2>4 DEF Inductive
<1> QED  BY <1>2, <1>3, <1>4 DEF Beat
(***************************************************************************)
(* Time passes: a link that is UP has its timer running, or the daemon is  *)
(* in a replay, which comes nearer to its end.                             *)
(***************************************************************************)
LEMMA TickStep ==
  ASSUME Inductive, Tick
  PROVE  Inductive'
<1>1. /\ timer' = [t \in TimerFd |-> IF timer[t] > 0 THEN timer[t] - 1 ELSE timer[t]]
      /\ busy' = IF busy > 0 THEN busy - 1 ELSE 0
      /\ sender' = [n \in Nbr |-> sender[n] - 1]
      /\ silent' = [n \in Nbr |-> IF silent[n] < LongSilent THEN silent[n] + 1 ELSE LongSilent]
      /\ \A n \in Nbr : sender[n] > 0
      /\ inbox' \subseteq inbox \cup LsaSock
      /\ UNCHANGED <<status, pending, lost, cut>>
  BY DEF Tick
<1>2. \A n \in Nbr : pending[n] > 0 \/ timer[n] = 0 => busy > 0
  BY FdDistinct DEF Tick, Ready
<1>3. TypeOK
  BY DEF Inductive
<1>4. \A n \in Nbr : /\ pending[n] \in Nat /\ timer[n] \in Int /\ timer[n] >= Off
                     /\ sender[n] \in 1 .. HbPeriod /\ silent[n] \in 0 .. LongSilent
                     /\ busy \in 0 .. MaxStall
                     /\ timer[n] = Off <=> status[n] = "DOWN"
  BY <1>1, <1>3, FdDistinct, TimesAreNumbers DEF TypeOK
<1>5. \A n \in Nbr :
         /\ timer'[n] = IF timer[n] > 0 THEN timer[n] - 1 ELSE timer[n]
         /\ sender'[n] = sender[n] - 1
         /\ silent'[n] = IF silent[n] < LongSilent THEN silent[n] + 1 ELSE LongSilent
  BY <1>1, FdDistinct
<1>6. TypeOK'
  <2>1. timer' \in [TimerFd -> Int] /\ \A t \in TimerFd : timer'[t] \in Off .. Period(t)
    BY <1>1, <1>3, Periods DEF TypeOK, Off
  <2>5. \A t \in TimerFd \cap {LsaTimer, RecomputeTimer} : timer'[t] # Off
    BY <1>1, <1>3 DEF TypeOK, Off
  <2>6. \A n \in Nbr : pending'[n] > 0 => pending'[n] * HbPeriod - sender'[n] <= MaxStall - busy'
    <3> SUFFICES ASSUME NEW n \in Nbr, pending[n] > 0
                 PROVE  pending[n] * HbPeriod - sender'[n] <= MaxStall - busy'
      BY <1>1
    <3> DEFINE due == pending[n] * HbPeriod
    <3>1. due \in Nat /\ due - sender[n] <= MaxStall - busy
      BY <1>3, <1>4, TimesAreNumbers DEF TypeOK
    <3>2. sender'[n] = sender[n] - 1 /\ busy' = busy - 1
      BY <1>1, <1>2, <1>5
    <3> HIDE DEF due
    <3>3. due - sender'[n] <= MaxStall - busy'
      BY <3>1, <3>2, <1>4, TimesAreNumbers
    <3> QED  BY <3>3 DEF due
  <2>2. \A n \in Nbr : timer'[n] = Off <=> status'[n] = "DOWN"
    BY <1>1, <1>4, <1>5 DEF Off
  <2>3. busy' \in 0 .. MaxStall /\ inbox' \subseteq LsaSock
    BY <1>1, <1>3, TimesAreNumbers DEF TypeOK
  <2>4. sender' \in [Nbr -> 0 .. HbPeriod] /\ silent' \in [Nbr -> 0 .. LongSilent]
    BY <1>1, <1>4, TimesAreNumbers DEF LongSilent
  <2> QED  BY <2>1, <2>2, <2>3, <2>4, <2>5, <2>6, <1>1, <1>3 DEF TypeOK
<1>7. PendingIsFresh'
  BY <1>1, <1>2, <1>4, <1>5, TimesAreNumbers DEF Inductive, PendingIsFresh, LongSilent
<1>8. TimerCountsSilence'
  <2> SUFFICES ASSUME NEW n \in Nbr, status[n] = "UP", pending[n] = 0
               PROVE  /\ timer'[n] > 0 => silent'[n] + timer'[n] <= HbTimeout + MaxStall
                      /\ timer'[n] = 0 => silent'[n] + busy' <= HbTimeout + 2 * MaxStall
    BY <1>1 DEF TimerCountsSilence
  <2>1. /\ timer[n] > 0 => silent[n] + timer[n] <= HbTimeout + MaxStall
        /\ timer[n] = 0 => silent[n] + busy <= HbTimeout + 2 * MaxStall
    BY DEF Inductive, TimerCountsSilence
  <2>2. busy' \in 0 .. MaxStall /\ (busy > 0 => busy' = busy - 1) /\ silent'[n] <= silent[n] + 1
    BY <1>1, <1>4, <1>5, TimesAreNumbers DEF LongSilent
  <2>3. timer[n] >= 0
    BY <1>4 DEF Off
  <2>4. silent'[n] \in Int /\ silent[n] \in Int
    BY <1>6, <1>3 DEF TypeOK
  <2> QED  BY <2>1, <2>2, <2>3, <2>4, <1>2, <1>4, <1>5, TimesAreNumbers
<1>9. TimerRuns'
  <2> SUFFICES ASSUME StallShort, NEW n \in Steady, status[n] = "UP"
               PROVE  /\ pending[n] = 0 => timer'[n] >= HbTimeout - Gap(n)'
                      /\ pending[n] > 0 => timer'[n] >= HbTimeout - LongestGap - (MaxStall - busy')
    BY <1>1 DEF TimerRuns, StallShort, LongestGap
  <2>1. n \in Nbr /\ timer[n] > 0
    BY LiveTimerRuns, TimingAssumption
  <2>2. /\ pending[n] = 0 => timer[n] >= HbTimeout - Gap(n)
        /\ pending[n] > 0 => timer[n] >= HbTimeout - LongestGap - (MaxStall - busy)
    BY DEF Inductive, TimerRuns
  <2>3. Gap(n) \in Nat /\ LongestGap \in Nat
    BY <1>3, <2>1, GapBound
  <2>4. Gap(n)' = Gap(n) + 1
    <3>1. lost[n] * HbPeriod \in Nat
      BY <1>3, <2>1, TimesAreNumbers DEF TypeOK
    <3>2. Gap(n)' = lost[n] * HbPeriod + HbPeriod - (sender[n] - 1)
      BY <1>1, <1>5, <2>1 DEF Gap
    <3>3. Gap(n) = lost[n] * HbPeriod + HbPeriod - sender[n]
      BY DEF Gap
    <3> DEFINE l == lost[n] * HbPeriod
    <3>4. l \in Nat /\ Gap(n)' = l + HbPeriod - (sender[n] - 1) /\ Gap(n) = l + HbPeriod - sender[n]
      BY <3>1, <3>2, <3>3
    <3> HIDE DEF l
    <3> QED  BY <3>4, <1>4, <2>1, TimesAreNumbers
  <2> QED  BY <2>1, <2>2, <2>3, <2>4, <1>1, <1>2, <1>4, <1>5, TimesAreNumbers
<1> QED  BY <1>6, <1>7, <1>8, <1>9 DEF Inductive

\* The daemon, the heartbeat programs, the links, and time.
THEOREM InductiveStep ==
  ASSUME Inductive, [Next]_vars
  PROVE  Inductive'
<1>1. CASE Iterate
  BY <1>1, DaemonStep
<1>2. CASE Tick
  BY <1>2, TickStep
<1>3. ASSUME NEW n \in Nbr, Beat(n) PROVE Inductive'
  BY <1>3, BeatStep
<1>4. ASSUME NEW n \in Nbr, Flap(n) PROVE Inductive'
  BY <1>4, QuietStep DEF Flap, daemon, sockets, Inductive, TypeOK
<1>5. CASE UNCHANGED vars
  BY <1>5, QuietStep DEF vars, Inductive, TypeOK
<1> QED  BY <1>1, <1>2, <1>3, <1>4, <1>5 DEF Next

\* The four parts of Inductive hold throughout.
THEOREM InductiveInvariant == Spec => []Inductive
BY InductiveInit, InductiveStep, PTL DEF Spec

-----------------------------------------------------------------------------
(***************************************************************************)
(* Timers follow statuses and are never set beyond their periods, and what *)
(* waits in hb_sock arrived during one replay: no more heartbeats of a     *)
(* neighbour than it sends in MaxStall.                                    *)
(***************************************************************************)
THEOREM TypeCorrect == Spec => []TypeOK
<1>1. Inductive => TypeOK
  BY DEF Inductive
<1> QED  BY <1>1, InductiveInvariant, PTL

(***************************************************************************)
(* A dead neighbour is noticed at the latest two replays after the         *)
(* heartbeat timeout.                                                      *)
(***************************************************************************)
THEOREM DeadAreDetected == Spec => []DetectsDead
<1>1. Inductive => DetectsDead
  <2> SUFFICES ASSUME Inductive, NEW n \in Nbr, status[n] = "UP"
               PROVE  silent[n] <= HbTimeout + 2 * MaxStall
    BY DEF DetectsDead
  <2>1. /\ pending[n] \in Nat /\ timer[n] \in Int /\ timer[n] >= Off /\ timer[n] # Off
        /\ silent[n] \in Int /\ busy \in 0 .. MaxStall
    BY FdDistinct DEF Inductive, TypeOK
  <2>2. CASE pending[n] > 0
    BY <2>1, <2>2, TimesAreNumbers DEF Inductive, PendingIsFresh
  <2>3. CASE pending[n] = 0
    BY <2>1, <2>3, TimesAreNumbers DEF Inductive, TimerCountsSilence, Off
  <2> QED  BY <2>1, <2>2, <2>3
<1> QED  BY <1>1, InductiveInvariant, PTL

(***************************************************************************)
(* No replay shorter than the timeout less the heartbeats that may be lost *)
(* makes the daemon give up a neighbour that is there.                     *)
(***************************************************************************)
THEOREM LiveAreKept == Spec => KeepsLive
<1>1. ASSUME Inductive, [Next]_vars, StallShort, NEW n \in Steady, status[n] = "UP"
      PROVE  status'[n] = "UP"
  <2>0. n \in Nbr /\ timer[n] > 0
    BY <1>1, LiveTimerRuns, TimingAssumption
  <2>1. ASSUME NEW k \in Nbr, HeartbeatTimeout(k) PROVE status'[n] = "UP"
    <3>1. timer[k] = 0
      BY <2>1, FdDistinct DEF HeartbeatTimeout, EventWait, Ready, LsaSock
    <3> QED  BY <2>0, <2>1, <3>1, <1>1 DEF HeartbeatTimeout, Inductive, TypeOK
  <2>2. ASSUME NEW k \in Nbr, ReceiveHeartbeat(k) PROVE status'[n] = "UP"
    BY <2>0, <2>2, <1>1 DEF ReceiveHeartbeat, Inductive, TypeOK
  <2>3. CASE Tick \/ SendLsa \/ Replay \/ RecomputeMetrics \/ UNCHANGED vars
    BY <2>3, <1>1 DEF Tick, SendLsa, Replay, RecomputeMetrics, vars
  <2>4. CASE \E k \in Nbr : Beat(k) \/ Flap(k)
    BY <2>4, <1>1 DEF Beat, Flap, daemon
  <2>5. CASE \E fd \in LsaSock : ReceiveLsa(fd)
    BY <2>5, <1>1 DEF ReceiveLsa, daemon
  <2> QED  BY <2>1, <2>2, <2>3, <2>4, <2>5, <1>1 DEF Next, Iterate
<1>2. Inductive /\ [Next]_vars
        => [StallShort => \A n \in Steady : status[n] = "UP" => status'[n] = "UP"]_vars
  BY <1>1
<1> QED  BY <1>2, InductiveInvariant, PTL DEF Spec, KeepsLive
=============================================================================
