----------------------------- MODULE MCPathfind -----------------------------
(***************************************************************************)
(* Graphs for Pathfind.                                                    *)
(***************************************************************************)
EXTENDS Pathfind

\* Four nodes in a ring with a chord between 2 and 4.
Nbrs == <<{2, 4}, {1, 3, 4}, {2, 4}, {1, 2, 3}>>

Up == [status |-> "UP", metric |-> 1]
DtlsrDown == [status |-> "DOWN", metric |-> 3]
LsrDown == [status |-> "DOWN", metric |-> 1]    \* lsr charges one for any link

RECURSIVE InOrder(_)
InOrder(S) == IF S = {} THEN <<>> ELSE <<Min(S)>> \o InOrder(S \ {Min(S)})

Node(x, st, up, down) ==
  [state |-> st,
   links |-> [k \in 1 .. Cardinality(Nbrs[x]) |->
                LET y == InOrder(Nbrs[x])[k]
                    l == IF y \in up THEN Up ELSE down
                IN  [to |-> y, status |-> l.status, metric |-> l.metric]]]

\* Every way the links can be UP and DOWN, seen from either end, and every
\* way the other nodes can be known: neighbours of a SEEN node are not UNSEEN.
Rings(down) ==
  {[x \in 1 .. 4 |-> Node(x, IF x = 1 THEN "SEEN" ELSE st[x], up[x], down)] :
     st \in {s \in [2 .. 4 -> {"SEEN", "OPAQUE", "UNSEEN"}] :
               /\ s[2] # "UNSEEN" /\ s[4] # "UNSEEN"
               /\ s[3] = "UNSEEN" => s[2] = "OPAQUE" /\ s[4] = "OPAQUE"},
     up \in {u \in [1 .. 4 -> SUBSET (1 .. 4)] : \A x \in 1 .. 4 : u[x] \subseteq Nbrs[x]}}

RingGraphs(dt) == Rings(IF dt THEN DtlsrDown ELSE LsrDown)

\* A line of five nodes cut link by link from its far end, long ago: the
\* average uptime of each link has decayed to 0 and it costs 1.0 / 0.0001.
Decayed(y) == [to |-> y, status |-> "DOWN", metric |-> 10000]
DownLine(dt) ==
  {[x \in 1 .. 5 |->
      [state |-> "SEEN",
       links |-> IF x = 1 THEN <<Decayed(2)>> ELSE IF x = 5 THEN <<Decayed(4)>>
                 ELSE <<Decayed(x - 1), Decayed(x + 1)>>]]}
=============================================================================
