------------------------------ MODULE LinkHist ------------------------------
(***************************************************************************)
(* link_hist.c: the history of one link of a dtlsr node, a circular array  *)
(* of the times at which the link changed, and the average uptime the      *)
(* metric of a DOWN link is computed from.                                 *)
(*                                                                         *)
(* The two averages of the source differ only in the integral they sum:    *)
(* the length of an interval (ts_average_uptime) or a difference of        *)
(* exponentials (ts_weighted_average_uptime).  Both are a difference of    *)
(* weights of the two ends; the factor exp(-now/falloff) is common to all  *)
(* and cancels, and so does taking the power when averages are compared.   *)
(* A weight is a number that grows with the time: Weight is any set of     *)
(* such functions.                                                         *)
(***************************************************************************)
EXTENDS Integers, Sequences

CONSTANTS
  TS_SIZE,    \* length of the circular array
  SIZE_MAX1,  \* SIZE_MAX + 1: size_t arithmetic is modulo this
  Weight,     \* the weights averages are taken with
  MaxClock,   \* bound: last value of the clock
  MaxToggles  \* bound: link changes

ASSUME HistoryAssumption ==
  /\ TS_SIZE \in Nat \ {0}
  /\ SIZE_MAX1 \in Nat \ {0} /\ SIZE_MAX1 % TS_SIZE = 0
  /\ MaxClock \in Nat /\ MaxToggles \in Nat
  /\ \A w \in Weight : /\ w \in [0 .. MaxClock -> Int]
                      /\ \A t \in 1 .. MaxClock : w[t - 1] <= w[t]

VARIABLES
  now,         \* the millisecond clock
  timestamps,  \* timestamps[0 .. TS_SIZE - 1]
  front, n_states, full, curr_link_state,
  changes,     \* every change so far, oldest first (history)
  log          \* log[t + 1]: the state of the link from t to t + 1 (history)

ts == <<timestamps, front, n_states, full, curr_link_state>>
vars == <<now, ts, changes, log>>

Toggled(s) == IF s = "UP" THEN "DOWN" ELSE "UP"
Add(a, b) == (a + b) % SIZE_MAX1   \* size_t addition

\* ts_init at time 0: the first cell holds the time the daemon started.
Init ==
  /\ now = 0
  /\ timestamps = [i \in 0 .. TS_SIZE - 1 |-> 0]
  /\ front = IF TS_SIZE = 1 THEN 0 ELSE 1
  /\ n_states = 1
  /\ full = (TS_SIZE = 1)
  /\ curr_link_state = "DOWN"
  /\ changes = <<0>>
  /\ log = <<>>

Tick ==
  /\ now < MaxClock
  /\ now' = now + 1
  /\ log' = Append(log, curr_link_state)
  /\ UNCHANGED <<ts, changes>>

\* ts_toggle_state.
\* (mutant: n_states counts on when the array is full)
ToggleCounting ==
  /\ Len(changes) < MaxToggles
  /\ curr_link_state' = Toggled(curr_link_state)
  /\ timestamps' = [timestamps EXCEPT ![front] = now]
  /\ front' = IF front + 1 = TS_SIZE THEN 0 ELSE front + 1
  /\ full' = (full \/ front + 1 = TS_SIZE)
  /\ n_states' = n_states + 1
  /\ changes' = Append(changes, now)
  /\ UNCHANGED <<now, log>>

\* (mutant: front moves on before the time is noted)
ToggleAdvanced ==
  /\ Len(changes) < MaxToggles
  /\ curr_link_state' = Toggled(curr_link_state)
  /\ front' = IF front + 1 = TS_SIZE THEN 0 ELSE front + 1
  /\ timestamps' = [timestamps EXCEPT ![front'] = now]
  /\ full' = (full \/ front + 1 = TS_SIZE)
  /\ n_states' = IF full THEN n_states ELSE n_states + 1
  /\ changes' = Append(changes, now)
  /\ UNCHANGED <<now, log>>

Toggle ==
  /\ Len(changes) < MaxToggles
  /\ curr_link_state' = Toggled(curr_link_state)
  /\ timestamps' = [timestamps EXCEPT ![front] = now]
  /\ front' = IF front + 1 = TS_SIZE THEN 0 ELSE front + 1
  /\ full' = (full \/ front + 1 = TS_SIZE)
  /\ n_states' = IF full THEN n_states ELSE n_states + 1
  /\ changes' = Append(changes, now)
  /\ UNCHANGED <<now, log>>

\* ts_compute_metric reads the history and leaves it alone.
ComputeMetric == UNCHANGED vars

Next == Tick \/ Toggle \/ ComputeMetric
Spec == Init /\ [][Next]_vars

-----------------------------------------------------------------------------
(***************************************************************************)
(* The averages, over a function w of weights.                             *)
(***************************************************************************)
FirstIdx == Add(front, SIZE_MAX1 - 1) % TS_SIZE

\* last_idx.  (mutant: the array is never full)
LastIdxUnwrapped == 0
LastIdx == IF full THEN front % TS_SIZE ELSE 0

\* idx_left and idx_right for i = -2 * k.
Back(k, d) == Add(FirstIdx, SIZE_MAX1 - 2 * k - d) % TS_SIZE

Total(w) == w[now] - w[timestamps[LastIdx]]

\* d[1] + ... + d[n].
Sum(d, n) ==
  LET s[k \in 0 .. n] == IF k = 0 THEN 0 ELSE s[k - 1] + d[k]
  IN  s[n]

\* The time spent in the present state: since the last change, and between
\* every second pair of changes before it.  Round k of the loop has
\* i = -2 * (k - 1), and there is one for every i > 2 - n_states.
Rounds == (n_states - 1) \div 2

Round(w) ==
  [k \in 1 .. Rounds |-> w[timestamps[Back(k - 1, 1)]] - w[timestamps[Back(k - 1, 2)]]]

Same(w) == (w[now] - w[timestamps[FirstIdx]]) + Sum(Round(w), Rounds)

\* (mutant: DOWN time is not turned into UP time)
SummationUnturned(w) == Same(w)

Summation(w) == IF curr_link_state = "DOWN" THEN Total(w) - Same(w) ELSE Same(w)

\* ts_average_uptime and ts_weighted_average_uptime, as a fraction.
Uptime(w) ==
  IF n_states = 1 THEN [num |-> IF curr_link_state = "UP" THEN 1 ELSE 0, den |-> 1]
  ELSE [num |-> Summation(w), den |-> Total(w)]

-----------------------------------------------------------------------------
\* Type invariant.
TypeOK ==
  /\ now \in 0 .. MaxClock
  /\ timestamps \in [0 .. TS_SIZE - 1 -> 0 .. MaxClock]
  /\ front \in 0 .. TS_SIZE - 1
  /\ n_states \in 1 .. TS_SIZE
  /\ full \in BOOLEAN
  /\ curr_link_state \in {"UP", "DOWN"}
  /\ log \in Seq({"UP", "DOWN"})

(***************************************************************************)
(* "Pushing to a full time series overwrites the oldest data"              *)
(* (link_hist.h:20): the average is the share of UP time, as a log of the  *)
(* link tells it, since the oldest of the last TS_SIZE changes, before and *)
(* after the array has wrapped and with several changes in a millisecond.  *)
(***************************************************************************)
Oldest == changes[IF Len(changes) > TS_SIZE THEN Len(changes) - TS_SIZE + 1 ELSE 1]

\* What each millisecond since then adds to the time spent in the state st.
Gained(w, st) ==
  [i \in 1 .. now - Oldest |->
     IF log[Oldest + i] = st THEN w[Oldest + i] - w[Oldest + i - 1] ELSE 0]

UpTime(w) == Sum(Gained(w, "UP"), now - Oldest)

UptimeFollowsHistory ==
  \A w \in Weight :
    n_states > 1 => Uptime(w) = [num |-> UpTime(w), den |-> w[now] - w[Oldest]]

(***************************************************************************)
(* Why it is.  The array holds the last TS_SIZE changes, each in the cell  *)
(* of its number modulo TS_SIZE, and every second interval of the history  *)
(* was UP.                                                                 *)
(***************************************************************************)
StateOf(i) == IF i % 2 = 1 THEN "DOWN" ELSE "UP"   \* after the i-th change
End(i) == IF i = Len(changes) THEN now ELSE changes[i + 1]

ChangesInOrder ==
  /\ changes \in Seq(Nat) /\ changes # <<>> /\ changes[1] = 0
  /\ \A i \in 1 .. Len(changes) : changes[i] <= End(i) /\ End(i) <= now

RingHoldsLast ==
  /\ n_states = IF Len(changes) < TS_SIZE THEN Len(changes) ELSE TS_SIZE
  /\ full <=> Len(changes) >= TS_SIZE
  /\ front = Len(changes) % TS_SIZE
  /\ \A i \in 1 .. Len(changes) :
       i > Len(changes) - TS_SIZE => timestamps[(i - 1) % TS_SIZE] = changes[i]

LogAlternates ==
  /\ Len(log) = now
  /\ curr_link_state = StateOf(Len(changes))
  /\ \A i \in 1 .. Len(changes) : \A t \in changes[i] + 1 .. End(i) : log[t] = StateOf(i)

Inductive == TypeOK /\ ChangesInOrder /\ RingHoldsLast /\ LogAlternates

(***************************************************************************)
(* While a link stays DOWN its uptime never rises, so its metric never     *)
(* falls: the longer a link has been DOWN, the less a path over it is      *)
(* worth.                                                                  *)
(***************************************************************************)
DownOnlyGetsWorse ==
  [][curr_link_state = "DOWN" /\ UNCHANGED ts
       => \A w \in Weight :
            Uptime(w)'.num * Uptime(w).den <= Uptime(w).num * Uptime(w)'.den]_vars
=============================================================================
