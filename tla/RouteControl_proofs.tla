------------------------ MODULE RouteControl_proofs ------------------------
(***************************************************************************)
(* Proofs about RouteControl, for any number of slots, neighbours, subnets *)
(* and metrics, with and without restarts.                                 *)
(***************************************************************************)
EXTENDS RouteControl, Extrema, FiniteSetTheorems, TLAPS

\* A route is only noted because it is wanted.
LEMMA NotedWanted == ASSUME NEW hops PROVE Noted(hops) \subseteq Wanted(hops)
BY DEF Noted, Unnoted, Wanted

(***************************************************************************)
(* update_routing_table never removes what it wants, and notes nothing     *)
(* that is not in the kernel afterwards.                                   *)
(***************************************************************************)
LEMMA UpdateInstalls ==
  ASSUME NEW hops, UpdateRoutingTable(hops)
  PROVE  /\ Wanted(hops) \ {ZeroRoute} \subseteq kernel'
         /\ NotedAreInstalled'
<1>1. Noted(hops) \subseteq Wanted(hops)
  BY NotedWanted
<1>2. Wanted(hops) \ {ZeroRoute} \subseteq kernel'
  BY DEF UpdateRoutingTable, AddRoutes
<1>3. curr_routes' \subseteq Wanted(hops)
  BY <1>1 DEF UpdateRoutingTable
<1> QED  BY <1>2, <1>3 DEF NotedAreInstalled

\* Every iteration starts with update_routing_table on the present paths.
LEMMA IterateUpdates == Iterate => UpdateRoutingTable(next_hops)
BY DEF Iterate, Idle, Recompute

(***************************************************************************)
(* curr_routes never notes a route the kernel does not have, however full  *)
(* it is and however often the daemon is restarted.                        *)
(***************************************************************************)
THEOREM NotedAlwaysInstalled == Spec => []NotedAreInstalled
<1>1. Init => NotedAreInstalled
  BY DEF Init, NotedAreInstalled
<1>2. NotedAreInstalled /\ [Next]_vars => NotedAreInstalled'
  <2> SUFFICES ASSUME NotedAreInstalled, [Next]_vars PROVE NotedAreInstalled'
    OBVIOUS
  <2>1. CASE Iterate
    BY <2>1, IterateUpdates, UpdateInstalls
  <2>2. CASE Restart
    BY <2>2 DEF Restart, NotedAreInstalled
  <2>3. CASE UNCHANGED vars
    BY <2>3 DEF vars, NotedAreInstalled
  <2> QED  BY <2>1, <2>2, <2>3 DEF Next
<1> QED  BY <1>1, <1>2, PTL DEF Spec

(***************************************************************************)
(* After every iteration the kernel has every path of the iteration: the   *)
(* removals that follow the additions take none of them away.              *)
(***************************************************************************)
THEOREM PathsAlwaysInstalled == Spec => PathsInstalled
<1>1. Iterate => Wanted(next_hops) \ {ZeroRoute} \subseteq kernel'
  BY IterateUpdates, UpdateInstalls
<1> QED  BY <1>1, PTL DEF Spec, PathsInstalled

\* There are finitely many slots, hence finitely many routes from them.
LEMMA UnnotedFinite ==
  ASSUME NEW hops
  PROVE  IsFiniteSet(Kept(hops)) /\ IsFiniteSet(Unnoted(hops)) /\ IsFiniteSet(Wanted(hops))
<1>1. IsFiniteSet(Slot)
  BY RouteAssumption, FS_Interval DEF Slot
<1>2. IsFiniteSet(Kept(hops)) /\ IsFiniteSet(Unnoted(hops))
  <2>1. Kept(hops) \subseteq Slot /\ Unnoted(hops) \subseteq Slot
    BY DEF Kept, Unnoted
  <2> QED  BY <1>1, <2>1, FS_Subset
<1>3. IsFiniteSet(Wanted(hops))
  <2> DEFINE f == [i \in Kept(hops) |-> RouteOf(hops[i])]
  <2>1. f \in Surjection(Kept(hops), Wanted(hops))
    BY DEF Wanted, Surjection
  <2> QED  BY <1>2, <2>1, FS_Surjection
<1> QED  BY <1>2, <1>3

(***************************************************************************)
(* With room for them, all wanted routes are noted: a route not yet in     *)
(* curr_routes has at most all the unnoted ones up to itself before it.    *)
(***************************************************************************)
LEMMA AllNoted ==
  ASSUME NEW hops, IsFiniteSet(curr_routes),
         Cardinality(curr_routes) + Cardinality(Unnoted(hops)) <= MAX_NODE_NUM
  PROVE  Wanted(hops) = (curr_routes \cap Wanted(hops)) \cup Noted(hops)
<1>1. \A i \in Unnoted(hops) : RouteOf(hops[i]) \in Noted(hops)
  <2> SUFFICES ASSUME NEW i \in Unnoted(hops)
               PROVE  Cardinality({k \in Unnoted(hops) : k <= i})
                        + Cardinality(curr_routes) <= MAX_NODE_NUM
    BY DEF Noted
  <2> DEFINE upto == {k \in Unnoted(hops) : k <= i}
  <2>1. upto \subseteq Unnoted(hops)
    OBVIOUS
  <2>2. /\ IsFiniteSet(upto) /\ Cardinality(upto) <= Cardinality(Unnoted(hops))
    BY <2>1, UnnotedFinite, FS_Subset
  <2>3. /\ Cardinality(upto) \in Nat /\ Cardinality(Unnoted(hops)) \in Nat
        /\ Cardinality(curr_routes) \in Nat
    BY <2>2, UnnotedFinite, FS_CardinalityType
  <2> HIDE DEF upto
  <2>4. Cardinality(upto) + Cardinality(curr_routes) <= MAX_NODE_NUM
    BY <2>2, <2>3, RouteAssumption
  <2> QED  BY <2>4 DEF upto
<1>2. Wanted(hops) \subseteq curr_routes \cup Noted(hops)
  BY <1>1 DEF Wanted, Unnoted
<1> QED  BY <1>2, NotedWanted

(***************************************************************************)
(* While curr_routes and the kernel agree and there is room, an iteration  *)
(* makes the kernel hold exactly the paths, and they agree again: no stale *)
(* route can appear before a table overflow or a restart.                  *)
(***************************************************************************)
THEOREM ExactlyThePaths == Spec => ExactWhileItFits
<1> DEFINE Finite == IsFiniteSet(curr_routes)
<1>1. Init => Finite
  BY FS_EmptySet DEF Init
<1>2. Finite /\ [Next]_vars => Finite'
  <2> SUFFICES ASSUME Finite, [Next]_vars PROVE Finite'
    OBVIOUS
  <2>1. CASE Iterate
    <3>1. UpdateRoutingTable(next_hops)
      BY <2>1, IterateUpdates
    <3>2. curr_routes' \subseteq Wanted(next_hops)
      BY <3>1, NotedWanted DEF UpdateRoutingTable
    <3> QED  BY <3>2, UnnotedFinite, FS_Subset
  <2>2. CASE Restart
    BY <2>2, FS_EmptySet DEF Restart
  <2>3. CASE UNCHANGED vars
    BY <2>3 DEF vars
  <2> QED  BY <2>1, <2>2, <2>3 DEF Next
<1>3. Finite /\ Iterate /\ Agree /\ Fits
        => kernel' = Wanted(next_hops) \ {ZeroRoute} /\ Agree'
  <2> SUFFICES ASSUME Finite, Iterate, Agree, Fits
               PROVE  kernel' = Wanted(next_hops) \ {ZeroRoute} /\ Agree'
    OBVIOUS
  <2>1. UpdateRoutingTable(next_hops)
    BY IterateUpdates
  <2>2. curr_routes' = Wanted(next_hops)
    BY <2>1, AllNoted DEF UpdateRoutingTable, Fits
  <2>3. kernel' = Wanted(next_hops) \ {ZeroRoute}
    BY <2>1 DEF UpdateRoutingTable, AddRoutes, Agree
  <2> QED  BY <2>2, <2>3 DEF Agree
<1> QED  BY <1>1, <1>2, <1>3, PTL DEF Spec, ExactWhileItFits

(***************************************************************************)
(* When everything noted is wanted there is room for the rest: there are   *)
(* no more wanted routes than slots.                                       *)
(***************************************************************************)
LEMMA RoomOnceSettled ==
  ASSUME NEW hops, curr_routes \subseteq Wanted(hops)
  PROVE  Cardinality(curr_routes) + Cardinality(Unnoted(hops)) <= MAX_NODE_NUM
<1> DEFINE old == Kept(hops) \ Unnoted(hops)
           f == [i \in old |-> RouteOf(hops[i])]
<1>1. f \in Surjection(old, curr_routes)
  BY DEF Surjection, Wanted, Unnoted
<1>2. IsFiniteSet(Kept(hops)) /\ IsFiniteSet(Unnoted(hops)) /\ Unnoted(hops) \subseteq Kept(hops)
  BY UnnotedFinite DEF Unnoted
<1>3. IsFiniteSet(old) /\ Cardinality(old) = Cardinality(Kept(hops)) - Cardinality(Unnoted(hops))
  <2>1. Kept(hops) \cap Unnoted(hops) = Unnoted(hops)
    BY <1>2
  <2> QED  BY <1>2, <2>1, FS_Difference
<1>4. IsFiniteSet(curr_routes) /\ Cardinality(curr_routes) <= Cardinality(old)
  <2> HIDE DEF old, f
  <2> QED  BY <1>1, <1>3, FS_Surjection
<1>5. Cardinality(Kept(hops)) <= MAX_NODE_NUM
  <2>1. IsFiniteSet(Slot) /\ Cardinality(Slot) = MAX_NODE_NUM
    BY RouteAssumption, FS_Interval DEF Slot
  <2>2. Kept(hops) \subseteq Slot
    BY DEF Kept
  <2> QED  BY <2>1, <2>2, FS_Subset
<1>6. /\ Cardinality(curr_routes) \in Nat /\ Cardinality(Unnoted(hops)) \in Nat
      /\ Cardinality(Kept(hops)) \in Nat
  BY <1>2, <1>4, FS_CardinalityType
<1> HIDE DEF old
<1> QED  BY <1>3, <1>4, <1>5, <1>6, RouteAssumption

(***************************************************************************)
(* A table that overflowed notes everything wanted as soon as it finds     *)
(* nothing to remove.                                                      *)
(***************************************************************************)
THEOREM SettledTablesAreComplete == Spec => NotedOnceSettled
<1>1. Iterate /\ curr_routes \subseteq Wanted(next_hops) => curr_routes' = Wanted(next_hops)
  <2> SUFFICES ASSUME Iterate, curr_routes \subseteq Wanted(next_hops)
               PROVE  curr_routes' = Wanted(next_hops)
    OBVIOUS
  <2>1. UpdateRoutingTable(next_hops)
    BY IterateUpdates
  <2>2. Cardinality(curr_routes) + Cardinality(Unnoted(next_hops)) <= MAX_NODE_NUM
    BY RoomOnceSettled
  <2>3. IsFiniteSet(curr_routes)
    BY UnnotedFinite, FS_Subset
  <2> QED  BY <2>1, <2>2, <2>3, AllNoted DEF UpdateRoutingTable
<1> QED  BY <1>1, PTL DEF Spec, NotedOnceSettled

-----------------------------------------------------------------------------
(***************************************************************************)
(* No more routes are noted than there are slots: those newly noted have   *)
(* at most the free slots' number of unnoted ones up to the last of them.  *)
(***************************************************************************)
LEMMA NotedFit ==
  ASSUME NEW hops, IsFiniteSet(curr_routes), Cardinality(curr_routes) <= MAX_NODE_NUM
  PROVE  LET curr == (curr_routes \cap Wanted(hops)) \cup Noted(hops)
         IN  IsFiniteSet(curr) /\ Cardinality(curr) <= MAX_NODE_NUM
<1> DEFINE upto(j) == {k \in Unnoted(hops) : k <= j}
           new == {j \in Unnoted(hops) : Cardinality(upto(j)) + Cardinality(curr_routes) <= MAX_NODE_NUM}
           old == curr_routes \cap Wanted(hops)
<1>1. /\ MAX_NODE_NUM \in Nat /\ Cardinality(curr_routes) \in Nat
      /\ IsFiniteSet(Unnoted(hops)) /\ Unnoted(hops) \subseteq 0 .. MAX_NODE_NUM
  <2>1. Unnoted(hops) \subseteq Slot /\ Slot \subseteq 0 .. MAX_NODE_NUM
    BY RouteAssumption DEF Unnoted, Kept, Slot
  <2>2. MAX_NODE_NUM \in Nat /\ Cardinality(curr_routes) \in Nat /\ IsFiniteSet(Unnoted(hops))
    BY RouteAssumption, UnnotedFinite, FS_CardinalityType
  <2> QED  BY <2>1, <2>2
<1>2. IsFiniteSet(new) /\ Cardinality(new) \in Nat
  <2>1. new \subseteq Unnoted(hops)
    OBVIOUS
  <2> HIDE DEF new
  <2> QED  BY <1>1, <2>1, FS_Subset, FS_CardinalityType
<1>3. Cardinality(new) + Cardinality(curr_routes) <= MAX_NODE_NUM
  <2>1. CASE new = {}
    <3> HIDE DEF new
    <3> QED  BY <1>1, <2>1, FS_EmptySet
  <2>2. CASE new # {}
    <3>1. new \in SUBSET (0 .. MAX_NODE_NUM)
      BY <1>1
    <3>2. PICK m \in new : \A j \in new : j <= m
      <4> HIDE DEF new
      <4> QED  BY <1>1, <2>2, <3>1, GreatestExists
    <3>3. new \subseteq upto(m) /\ upto(m) \subseteq Unnoted(hops)
      BY <3>2
    <3>4. Cardinality(upto(m)) + Cardinality(curr_routes) <= MAX_NODE_NUM
      BY <3>2
    <3> HIDE DEF new, upto
    <3>5. IsFiniteSet(upto(m)) /\ Cardinality(upto(m)) \in Nat
      BY <1>1, <3>3, FS_Subset, FS_CardinalityType
    <3>6. Cardinality(new) <= Cardinality(upto(m))
      BY <3>3, <3>5, FS_Subset
    <3> QED  BY <1>1, <1>2, <3>4, <3>5, <3>6
  <2> QED  BY <2>1, <2>2
<1>4. IsFiniteSet(Noted(hops)) /\ Cardinality(Noted(hops)) <= Cardinality(new)
  <2> DEFINE f == [i \in new |-> RouteOf(hops[i])]
  <2>1. f \in Surjection(new, Noted(hops))
    BY DEF Noted, Surjection
  <2> HIDE DEF new, f
  <2> QED  BY <1>2, <2>1, FS_Surjection
<1>5. IsFiniteSet(old) /\ Cardinality(old) <= Cardinality(curr_routes) /\ Cardinality(old) \in Nat
  BY FS_Subset, FS_CardinalityType
<1>6. Cardinality(Noted(hops)) \in Nat
  BY <1>4, FS_CardinalityType
<1> HIDE DEF new, old
<1>7. /\ IsFiniteSet(old \cup Noted(hops))
      /\ Cardinality(old \cup Noted(hops)) <= Cardinality(old) + Cardinality(Noted(hops))
  <2>1. /\ IsFiniteSet(old \cup Noted(hops)) /\ IsFiniteSet(old \cap Noted(hops))
        /\ Cardinality(old \cup Noted(hops))
             = Cardinality(old) + Cardinality(Noted(hops)) - Cardinality(old \cap Noted(hops))
    BY <1>4, <1>5, FS_Union, FS_Intersection
  <2>2. Cardinality(old \cap Noted(hops)) \in Nat
    BY <2>1, FS_CardinalityType
  <2> QED  BY <1>5, <1>6, <2>1, <2>2
<1>8. Cardinality(old \cup Noted(hops)) \in Nat
  BY <1>7, FS_CardinalityType
<1>9. Cardinality(old \cup Noted(hops)) <= MAX_NODE_NUM
  BY <1>1, <1>2, <1>3, <1>4, <1>5, <1>6, <1>7, <1>8
<1> QED  BY <1>7, <1>9 DEF old

\* Paths lead to nodes or nowhere, and give routes.
LEMMA PathsTyped == Paths \subseteq [Slot -> Hop \cup {NoHop, ZeroHop}]
BY DEF Paths, Hop

LEMMA WantedTyped ==
  ASSUME NEW hops \in [Slot -> Hop \cup {NoHop, ZeroHop}]
  PROVE  Wanted(hops) \subseteq Route \cup {ZeroRoute}
<1>1. \A h \in Hop \cup {ZeroHop} : RouteOf(h) \in Route \cup {ZeroRoute}
  BY DEF Hop, Route, RouteOf
<1>2. \A i \in Kept(hops) : hops[i] \in Hop \cup {ZeroHop}
  BY DEF Kept
<1> QED  BY <1>1, <1>2 DEF Wanted

(***************************************************************************)
(* curr_routes never holds more than its slots, and the kernel never gets  *)
(* the zero route.                                                         *)
(***************************************************************************)
THEOREM RoutesTypeCorrect == Spec => []TypeOK
<1> DEFINE Inv == TypeOK /\ IsFiniteSet(curr_routes)
<1>1. Init => Inv
  BY RouteAssumption, FS_EmptySet DEF Init, TypeOK
<1>2. Inv /\ [Next]_vars => Inv'
  <2> SUFFICES ASSUME TypeOK, IsFiniteSet(curr_routes), [Next]_vars PROVE Inv'
    OBVIOUS
  <2>1. CASE Iterate
    <3>1. UpdateRoutingTable(next_hops)
      BY <2>1, IterateUpdates
    <3>2. Wanted(next_hops) \subseteq Route \cup {ZeroRoute} /\ Noted(next_hops) \subseteq Wanted(next_hops)
      BY WantedTyped, NotedWanted DEF TypeOK
    <3>3. kernel' \subseteq Route /\ curr_routes' \subseteq Route \cup {ZeroRoute}
      BY <3>1, <3>2 DEF UpdateRoutingTable, AddRoutes, TypeOK
    <3>4. IsFiniteSet(curr_routes') /\ Cardinality(curr_routes') <= MAX_NODE_NUM
      BY <3>1, NotedFit DEF UpdateRoutingTable, TypeOK
    <3>5. next_hops' \in [Slot -> Hop \cup {NoHop, ZeroHop}]
      BY <2>1, PathsTyped DEF Iterate, Idle, Recompute, TypeOK
    <3> QED  BY <3>3, <3>4, <3>5 DEF TypeOK
  <2>2. CASE Restart
    BY <2>2, RouteAssumption, FS_EmptySet DEF Restart, TypeOK
  <2>3. CASE UNCHANGED vars
    BY <2>3 DEF vars, TypeOK
  <2> QED  BY <2>1, <2>2, <2>3 DEF Next
<1> QED  BY <1>1, <1>2, PTL DEF Spec
=============================================================================
