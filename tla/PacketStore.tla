---------------------------- MODULE PacketStore ----------------------------
(***************************************************************************)
(* What store and forward promises, whatever its records look like: a      *)
(* packet that goes over a link is seen there; it is kept only if that     *)
(* link is down when the store looks; what is kept leaves in a replay and  *)
(* in no other way; a replay is due after a link has come up, and only     *)
(* then.  Capture implements it.                                           *)
(***************************************************************************)
CONSTANTS Link, Packet

VARIABLES
  running,  \* FALSE: the store has stopped, with what it kept
  down,     \* the links that are down
  wire,     \* wire[l]: packets that went over l since the store last looked
  kept,     \* packets waiting for a replay
  due,      \* TRUE: a replay is due
  out       \* packets replayed

vars == <<running, down, wire, kept, due, out>>

Init ==
  /\ running = TRUE
  /\ down = Link
  /\ wire = [l \in Link |-> {}]
  /\ kept = {}
  /\ due = FALSE
  /\ out = {}

\* The store looks at every link and keeps some of what it sees on down links.
Look(seen, old) ==
  /\ \E new \in SUBSET UNION {seen[l] : l \in down'} : kept' = old \cup new
  /\ wire' = [l \in Link |-> {}]

Pass(l, p) ==
  /\ running
  /\ wire' = [wire EXCEPT ![l] = @ \cup {p}]
  /\ UNCHANGED <<running, down, kept, due, out>>

LinkUp(l) ==
  /\ running /\ l \in down
  /\ down' = down \ {l} /\ due' = TRUE
  /\ Look(wire, kept)
  /\ UNCHANGED <<running, out>>

LinkDown(l) ==
  /\ running /\ l \notin down
  /\ down' = down \cup {l}
  /\ Look(wire, kept)
  /\ UNCHANGED <<running, due, out>>

Idle ==
  /\ running
  /\ Look(wire, kept)
  /\ UNCHANGED <<running, down, due, out>>

\* Everything kept leaves, some of it over l, where the store sees it again.
Replay(l) ==
  /\ running /\ due
  /\ due' = FALSE
  /\ \E go \in SUBSET kept :
       /\ out' = out \cup go
       /\ \E again \in SUBSET go : Look([wire EXCEPT ![l] = @ \cup again], {})
  /\ UNCHANGED <<running, down>>

Stop(l) ==
  /\ running /\ l \in down
  /\ running' = FALSE
  /\ down' = down \ {l}
  /\ UNCHANGED <<wire, kept, due, out>>

Next ==
  \/ Idle
  \/ \E l \in Link :
       \/ LinkUp(l) \/ LinkDown(l) \/ Replay(l) \/ Stop(l)
       \/ \E p \in Packet : Pass(l, p)

Spec == Init /\ [][Next]_vars
=============================================================================
