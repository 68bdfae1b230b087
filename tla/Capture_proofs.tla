--------------------------- MODULE Capture_proofs ---------------------------
(***************************************************************************)
(* Proofs about Capture, for any number of interfaces and destinations.    *)
(***************************************************************************)
EXTENDS Capture, Extrema, FiniteSetTheorems, TLAPS

StatusTyped == status \in [Iface -> {"UP", "DOWN"}]

\* What capture_packets adds to the dump comes from the handle of a DOWN link.
LEMMA CapturedFromDown ==
  ASSUME NEW before, NEW file, CapturePackets(before, file)
  PROVE  dump' # {} => file # {} \/ \E i \in Iface : status'[i] = "DOWN"
BY DEF CapturePackets

\* At start-up the dump is empty and every link DOWN.
THEOREM DumpInit == Init => StatusTyped /\ DumpAwaitsReplay
BY DEF Init, StatusTyped, DumpAwaitsReplay

(***************************************************************************)
(* One step per action.  Only a step that empties the timer (Replay) also  *)
(* replaces the file; LinkUp, which may take the last DOWN link away, arms *)
(* the timer; LinkDown makes a DOWN link.                                  *)
(***************************************************************************)
THEOREM DumpStep ==
  ASSUME StatusTyped, DumpAwaitsReplay, [Next]_vars
  PROVE  StatusTyped' /\ DumpAwaitsReplay'
<1>1. CASE Replay
  <2>1. status' = status
    BY <1>1 DEF Replay, links
  <2>2. dump' # {} => \E i \in Iface : status'[i] = "DOWN"
    <3>1. \E before : CapturePackets(before, {})
      BY <1>1 DEF Replay
    <3> QED  BY <3>1, CapturedFromDown
  <2> QED  BY <2>1, <2>2 DEF StatusTyped, DumpAwaitsReplay
<1>2. CASE OtherEvent
  <2>1. status' = status /\ replay' = replay /\ running' = running /\ CapturePackets(ring, dump)
    BY <1>2 DEF OtherEvent, timer
  <2>2. running
    BY <1>2 DEF OtherEvent
  <2>3. dump' # {} => dump # {} \/ \E i \in Iface : status'[i] = "DOWN"
    BY <2>1, CapturedFromDown
  <2> QED  BY <2>1, <2>2, <2>3 DEF StatusTyped, DumpAwaitsReplay
<1>3. ASSUME NEW i \in Iface, LinkUp(i)
      PROVE  StatusTyped' /\ DumpAwaitsReplay'
  BY <1>3 DEF LinkUp, StatusTyped, DumpAwaitsReplay
<1>4. ASSUME NEW i \in Iface, LinkUpCrash(i)
      PROVE  StatusTyped' /\ DumpAwaitsReplay'
  BY <1>4 DEF LinkUpCrash, StatusTyped, DumpAwaitsReplay
<1>5. ASSUME NEW i \in Iface, LinkDown(i)
      PROVE  StatusTyped' /\ DumpAwaitsReplay'
  <2>1. status' = [status EXCEPT ![i] = "DOWN"]
    BY <1>5 DEF LinkDown
  <2>2. StatusTyped' /\ status'[i] = "DOWN"
    BY <2>1 DEF StatusTyped
  <2> QED  BY <2>2 DEF DumpAwaitsReplay
<1>6. ASSUME NEW d \in Dest, KernelSends(d)
      PROVE  StatusTyped' /\ DumpAwaitsReplay'
  BY <1>6 DEF KernelSends, links, timer, StatusTyped, DumpAwaitsReplay
<1>7. CASE UNCHANGED vars
  BY <1>7 DEF vars, links, timer, StatusTyped, DumpAwaitsReplay
<1> QED  BY <1>1, <1>2, <1>3, <1>4, <1>5, <1>6, <1>7 DEF Next

(***************************************************************************)
(* While the daemon runs, captured packets always have a replay coming:    *)
(* the timer is armed, or a link is DOWN and will arm it when it comes UP. *)
(***************************************************************************)
THEOREM DumpAlwaysAwaitsReplay == Spec => []DumpAwaitsReplay
<1>1. Init => StatusTyped /\ DumpAwaitsReplay
  BY DumpInit
<1>2. StatusTyped /\ DumpAwaitsReplay /\ [Next]_vars => (StatusTyped /\ DumpAwaitsReplay)'
  BY DumpStep
<1> QED  BY <1>1, <1>2, PTL DEF Spec

-----------------------------------------------------------------------------
(***************************************************************************)
(* The implementation of PacketStore.  A step of Capture is a step of the  *)
(* store by the definitions, except that the store replays over a link and *)
(* passes packets over links: up_iface and the routes must name one.       *)
(***************************************************************************)
LinksTyped ==
  /\ status \in [Iface -> {"UP", "DOWN"}]
  /\ next_hops \in [Dest -> Iface \cup {NULL}]
  /\ route \in [Dest -> Iface \cup {NULL}]
  /\ replay \in BOOLEAN
  /\ replay => up_iface \in Iface

\* The variables that LinksTyped is about keep their types in every step.
LEMMA LinksStayTyped ==
  ASSUME LinksTyped, [Next]_vars
  PROVE  LinksTyped'
<1>1. CASE Replay
  BY <1>1 DEF Replay, UpdateRoutingTable, links, LinksTyped
<1>2. CASE OtherEvent
  BY <1>2 DEF OtherEvent, UpdateRoutingTable, Pathfind, timer, LinksTyped
<1>3. ASSUME NEW i \in Iface, LinkUp(i)
      PROVE  LinksTyped'
  BY <1>3 DEF LinkUp, UpdateRoutingTable, Pathfind, LinksTyped
<1>4. ASSUME NEW i \in Iface, LinkUpCrash(i)
      PROVE  LinksTyped'
  BY <1>4 DEF LinkUpCrash, UpdateRoutingTable, timer, LinksTyped
<1>5. ASSUME NEW i \in Iface, LinkDown(i)
      PROVE  LinksTyped'
  BY <1>5 DEF LinkDown, UpdateRoutingTable, Pathfind, timer, LinksTyped
<1>6. ASSUME NEW d \in Dest, KernelSends(d)
      PROVE  LinksTyped'
  BY <1>6 DEF KernelSends, links, timer, LinksTyped
<1>7. CASE UNCHANGED vars
  BY <1>7 DEF vars, links, timer, LinksTyped
<1> QED  BY <1>1, <1>2, <1>3, <1>4, <1>5, <1>6, <1>7 DEF Next

(***************************************************************************)
(* Store!Look, spelled out: what capture_packets does, whatever the filter *)
(* has taken out of the handles before.                                    *)
(***************************************************************************)
Looks(seen, file) ==
  /\ \E new \in SUBSET UNION {seen[i] : i \in {j \in Iface : status'[j] = "DOWN"}} :
       dump' = file \cup new
  /\ ring' = [i \in Iface |-> {}]

\* capture_packets is the store's Look.
LEMMA CapturingIsLooking ==
  ASSUME NEW before, NEW seen, NEW file, CapturePackets(before, file),
         \A i \in Iface : before[i] \subseteq seen[i]
  PROVE  Looks(seen, file)
<1> DEFINE new == IF is_capturing' THEN UNION {before[i] : i \in {j \in Iface : status'[j] = "DOWN"}}
                  ELSE {}
<1>1. new \in SUBSET UNION {seen[i] : i \in {j \in Iface : status'[j] = "DOWN"}}
  OBVIOUS
<1>2. dump' = file \cup new /\ ring' = [i \in Iface |-> {}]
  BY DEF CapturePackets
<1> QED  BY <1>1, <1>2 DEF Looks

\* Capture starts where the store starts.
LEMMA StoreInit == Init => LinksTyped /\ Store!Init
<1> SUFFICES ASSUME Init PROVE LinksTyped /\ Store!Init
  OBVIOUS
<1>1. LinksTyped
  BY DEF Init, LinksTyped
<1>2. {i \in Iface : status[i] = "DOWN"} = Iface
  BY DEF Init
<1> QED  BY <1>1, <1>2 DEF Init, Store!Init

\* Every step of Capture is one of the store, or one it does not see.
LEMMA StoreStep ==
  ASSUME LinksTyped, [Next]_vars
  PROVE  [Store!Next]_(Store!vars)
<1> DEFINE Down == {i \in Iface : status[i] = "DOWN"}
<1>1. CASE Replay
  <2> DEFINE go == {d \in dump : next_hops[d] = up_iface}
             again == {d \in go : Passes(d, filter)}
  <2>1. up_iface \in Iface /\ running /\ replay
    BY <1>1 DEF Replay, LinksTyped
  <2>2. CapturePackets([ring EXCEPT ![up_iface] = @ \cup again], {})
    BY <1>1 DEF Replay
  <2>3. Looks([ring EXCEPT ![up_iface] = @ \cup again], {})
    BY <2>2, CapturingIsLooking
  <2>4. go \in SUBSET dump /\ again \in SUBSET go /\ replayed' = replayed \cup go
    BY <1>1 DEF Replay
  <2>5. replay' = FALSE /\ running' = running /\ Down' = Down
    BY <1>1 DEF Replay, links
  <2> HIDE DEF go, again
  <2>6. \E l \in Iface : Store!Replay(l)
    BY <2>1, <2>3, <2>4, <2>5 DEF Looks, Store!Replay, Store!Look
  <2> QED  BY <2>6 DEF Store!Next
<1>2. CASE OtherEvent
  <2>1. running /\ CapturePackets(ring, dump)
    BY <1>2 DEF OtherEvent
  <2>2. Looks(ring, dump)
    BY <2>1, CapturingIsLooking
  <2>3. UNCHANGED <<running, status, replay, replayed>>
    BY <1>2 DEF OtherEvent, timer
  <2> QED  BY <2>1, <2>2, <2>3 DEF Looks, Store!Look, Store!Idle, Store!Next
<1>3. ASSUME NEW i \in Iface, LinkUp(i)
      PROVE  Store!Next
  <2>1. running /\ i \in Down /\ replay' = TRUE /\ CapturePackets(ring, dump)
    BY <1>3 DEF LinkUp
  <2>2. Looks(ring, dump)
    BY <2>1, CapturingIsLooking
  <2>3. Down' = Down \ {i}
    BY <1>3 DEF LinkUp, LinksTyped
  <2>4. UNCHANGED <<running, replayed>>
    BY <1>3 DEF LinkUp
  <2> QED  BY <2>1, <2>2, <2>3, <2>4 DEF Looks, Store!Look, Store!LinkUp, Store!Next
<1>4. ASSUME NEW i \in Iface, LinkUpCrash(i)
      PROVE  Store!Next
  <2>1. running /\ running' = FALSE /\ i \in Down
    BY <1>4 DEF LinkUpCrash
  <2>2. Down' = Down \ {i}
    BY <1>4 DEF LinkUpCrash, LinksTyped
  <2>3. UNCHANGED <<ring, dump, replay, replayed>>
    BY <1>4 DEF LinkUpCrash, timer
  <2> QED  BY <2>1, <2>2, <2>3 DEF Store!Stop, Store!Next
<1>5. ASSUME NEW i \in Iface, LinkDown(i)
      PROVE  Store!Next
  <2>1. running /\ i \notin Down /\ CapturePackets(Refilter(filter'), dump)
    BY <1>5 DEF LinkDown
  <2>2. \A j \in Iface : Refilter(filter')[j] \subseteq ring[j]
    BY DEF Refilter
  <2>3. Looks(ring, dump)
    BY <2>1, <2>2, CapturingIsLooking
  <2>4. Down' = Down \cup {i}
    BY <1>5 DEF LinkDown, LinksTyped
  <2>5. UNCHANGED <<running, replay, replayed>>
    BY <1>5 DEF LinkDown, timer
  <2> QED  BY <2>1, <2>3, <2>4, <2>5 DEF Looks, Store!Look, Store!LinkDown, Store!Next
<1>6. ASSUME NEW d \in Dest, KernelSends(d)
      PROVE  [Store!Next]_(Store!vars)
  <2>1. running /\ route[d] \in Iface
    BY <1>6 DEF KernelSends, LinksTyped
  <2>2. UNCHANGED <<running, status, dump, replay, replayed>>
    BY <1>6 DEF KernelSends, links, timer
  <2>3. CASE Passes(d, filter)
    <3>1. ring' = [ring EXCEPT ![route[d]] = @ \cup {d}]
      BY <1>6, <2>3 DEF KernelSends
    <3> QED  BY <2>1, <2>2, <3>1 DEF Store!Pass, Store!Next
  <2>4. CASE ~Passes(d, filter)
    <3>1. ring' = ring
      BY <1>6, <2>4 DEF KernelSends
    <3> QED  BY <2>2, <3>1 DEF Store!vars
  <2> QED  BY <2>3, <2>4
<1>7. CASE UNCHANGED vars
  BY <1>7 DEF vars, links, timer, Store!vars
<1> QED  BY <1>1, <1>2, <1>3, <1>4, <1>5, <1>6, <1>7 DEF Next

(***************************************************************************)
(* Store and forward implements the packet store: for any interfaces and   *)
(* destinations, and whether its own records agree or not.                 *)
(***************************************************************************)
THEOREM StoreImplemented == Spec => StoresAndForwards
<1>1. Init => LinksTyped /\ Store!Init
  BY StoreInit
<1>2. LinksTyped /\ [Next]_vars => LinksTyped' /\ [Store!Next]_(Store!vars)
  BY LinksStayTyped, StoreStep
<1> QED  BY <1>1, <1>2, PTL DEF Spec, StoresAndForwards, Store!Spec

-----------------------------------------------------------------------------
(***************************************************************************)
(* The records of which links are down.  TypeOK bounds the counter, so it  *)
(* is proved together with Bookkeeping.                                    *)
(***************************************************************************)
Listed == Slot \ Empties

Records ==
  /\ \A k \in Slot : down_ifaces[k] # NULL => status[down_ifaces[k]] = "DOWN"
  /\ \A j, k \in Slot : down_ifaces[j] = down_ifaces[k] /\ down_ifaces[j] # NULL => j = k
  /\ n_down_ifaces = Cardinality(Listed)
  /\ is_capturing <=> n_down_ifaces > 0

ArrayTyped ==
  /\ is_capturing \in BOOLEAN
  /\ down_ifaces \in [Slot -> Iface \cup {NULL}]
  /\ n_down_ifaces \in 0 .. Cardinality(Iface)

\* There are as many slots as interfaces.
LEMMA SlotFacts ==
  /\ Cardinality(Iface) \in Nat /\ Slot = 1 .. Cardinality(Iface)
  /\ IsFiniteSet(Slot) /\ Cardinality(Slot) = Cardinality(Iface)
<1>1. Cardinality(Iface) \in Nat
  BY CaptureAssumption, FS_CardinalityType
<1>2. IsFiniteSet(1 .. Cardinality(Iface)) /\ Cardinality(1 .. Cardinality(Iface)) = Cardinality(Iface)
  BY <1>1, FS_Interval
<1> QED  BY <1>1, <1>2 DEF Slot

\* The first of some slots is one of them.
LEMMA FirstIsOne ==
  ASSUME NEW S \in SUBSET Slot, S # {}
  PROVE  First(S) \in S
<1>1. S \in SUBSET Nat
  BY SlotFacts
<1>2. \E k \in S : \A j \in S : k <= j
  BY <1>1, LeastExists
<1> QED  BY <1>2 DEF First

\* Any set of slots is finite.
LEMMA SlotsFinite ==
  ASSUME NEW S \in SUBSET Slot
  PROVE  /\ IsFiniteSet(S) /\ Cardinality(S) \in Nat
         /\ Cardinality(S) <= Cardinality(Iface)
         /\ Cardinality(S) = 0 <=> S = {}
BY SlotFacts, FS_Subset, FS_EmptySet, FS_CardinalityType

(***************************************************************************)
(* While an interface is not listed a slot is free, as no interface is     *)
(* listed twice.                                                           *)
(***************************************************************************)
LEMMA RoomForUnlisted ==
  ASSUME ArrayTyped, Records, NEW i \in Iface, Hits(i) = {}
  PROVE  Empties # {}
<1> SUFFICES ASSUME Empties = {} PROVE FALSE
  OBVIOUS
<1>1. down_ifaces \in [Slot -> Iface \ {i}]
  BY DEF ArrayTyped, Empties, Hits
<1>2. IsFiniteSet(Iface \ {i}) /\ Cardinality(Iface \ {i}) = Cardinality(Iface) - 1
  BY CaptureAssumption, FS_RemoveElement
<1>3. Cardinality(Iface \ {i}) < Cardinality(Slot)
  BY <1>2, SlotFacts
<1>4. \E x, y \in Slot : x # y /\ down_ifaces[x] = down_ifaces[y]
  BY <1>1, <1>2, <1>3, SlotFacts, FS_PigeonHole
<1> QED  BY <1>4 DEF Records, Empties

(***************************************************************************)
(* capture_end_iface takes the interface off every record.  A scan that    *)
(* survives has found it: otherwise it would have met a free slot.         *)
(***************************************************************************)
LEMMA EndKeepsRecords ==
  ASSUME ArrayTyped, Records, status \in [Iface -> {"UP", "DOWN"}], NEW i \in Iface,
         ScanSurvives(i), CaptureEndIface(i), status' = [status EXCEPT ![i] = "UP"]
  PROVE  ArrayTyped' /\ Records'
<1>0. NULL \notin Iface /\ Cardinality(Iface) \in Nat /\ Slot = 1 .. Cardinality(Iface)
  BY CaptureAssumption, SlotFacts
<1>1. CASE n_down_ifaces = 0
  <2>1. UNCHANGED <<is_capturing, down_ifaces, n_down_ifaces>>
    BY <1>1 DEF CaptureEndIface
  <2>2. Listed = {}
    BY <1>1, SlotsFinite DEF Records, Listed
  <2>3. \A k \in Slot : down_ifaces[k] = NULL
    BY <2>2 DEF Listed, Empties
  <2>4. Listed' = Listed
    BY <2>1 DEF Listed, Empties
  <2> QED  BY <2>1, <2>3, <2>4 DEF ArrayTyped, Records
<1>2. CASE n_down_ifaces # 0
  <2>1. n_down_ifaces > 0
    BY <1>0, <1>2 DEF ArrayTyped
  <2>2. Hits(i) # {}
    BY <2>1, RoomForUnlisted DEF ScanSurvives
  <2> DEFINE k == First(Hits(i))
  <2>3. k \in Slot /\ down_ifaces[k] = i
    BY <2>2, FirstIsOne DEF Hits
  <2> HIDE DEF k
  <2>4. /\ down_ifaces' = [down_ifaces EXCEPT ![k] = NULL]
        /\ n_down_ifaces' = n_down_ifaces - 1
        /\ is_capturing' = (is_capturing /\ n_down_ifaces' > 0)
    BY <1>2, <2>2 DEF CaptureEndIface, k
  <2>5. Listed' = Listed \ {k} /\ k \in Listed
    BY <1>0, <2>3, <2>4 DEF Listed, Empties, ArrayTyped
  <2>6. Cardinality(Listed') = Cardinality(Listed) - 1
    BY <2>5, SlotsFinite, FS_RemoveElement DEF Listed
  <2>7. n_down_ifaces' = Cardinality(Listed')
    BY <2>4, <2>6 DEF Records
  <2>8. \A j \in Slot : j # k => down_ifaces[j] # i
    BY <1>0, <2>3 DEF Records
  <2>9. ArrayTyped'
    BY <1>0, <2>1, <2>3, <2>4 DEF ArrayTyped
  <2>10. is_capturing' <=> n_down_ifaces' > 0
    BY <2>1, <2>4 DEF Records
  <2>11. \A j \in Slot : down_ifaces'[j] # NULL => down_ifaces'[j] = down_ifaces[j] /\ j # k
    BY <2>3, <2>4 DEF ArrayTyped
  <2>12. \A j \in Slot : down_ifaces'[j] # NULL => status'[down_ifaces'[j]] = "DOWN"
    <3> SUFFICES ASSUME NEW j \in Slot, down_ifaces'[j] # NULL
                 PROVE  status'[down_ifaces'[j]] = "DOWN"
      OBVIOUS
    <3>1. down_ifaces'[j] \in Iface \ {i} /\ status[down_ifaces'[j]] = "DOWN"
      BY <2>8, <2>11 DEF ArrayTyped, Records
    <3> QED  BY <3>1
  <2>13. \A j, l \in Slot : down_ifaces'[j] = down_ifaces'[l] /\ down_ifaces'[j] # NULL => j = l
    BY <2>11 DEF Records
  <2> QED  BY <2>7, <2>9, <2>10, <2>12, <2>13 DEF Records
<1> QED  BY <1>1, <1>2

(***************************************************************************)
(* capture_start_iface puts an interface that was UP, hence not listed, on *)
(* every record.                                                           *)
(***************************************************************************)
LEMMA StartKeepsRecords ==
  ASSUME ArrayTyped, Records, status \in [Iface -> {"UP", "DOWN"}], NEW i \in Iface,
         status[i] = "UP", CaptureStartIface(i), status' = [status EXCEPT ![i] = "DOWN"]
  PROVE  ArrayTyped' /\ Records'
<1>0. NULL \notin Iface /\ Cardinality(Iface) \in Nat /\ Slot = 1 .. Cardinality(Iface)
  BY CaptureAssumption, SlotFacts
<1>1. \A j \in Slot : down_ifaces[j] # i
  BY <1>0 DEF Records
<1>2. Empties # {}
  BY <1>1, RoomForUnlisted DEF Hits
<1> DEFINE k == First(Empties)
<1>3. k \in Slot /\ down_ifaces[k] = NULL
  BY <1>2, FirstIsOne DEF Empties
<1> HIDE DEF k
<1>4. /\ down_ifaces' = [down_ifaces EXCEPT ![k] = i]
      /\ n_down_ifaces' = n_down_ifaces + 1
      /\ is_capturing' = TRUE
  BY <1>2 DEF CaptureStartIface, k
<1>5. Listed' = Listed \cup {k} /\ k \notin Listed
  BY <1>0, <1>3, <1>4 DEF Listed, Empties, ArrayTyped
<1>6. Cardinality(Listed') = Cardinality(Listed) + 1
  BY <1>5, SlotsFinite, FS_AddElement DEF Listed
<1>7. n_down_ifaces' = Cardinality(Listed')
  BY <1>4, <1>6 DEF Records
<1>8. Cardinality(Listed') \in Nat /\ Cardinality(Listed') <= Cardinality(Iface)
  <2>1. Listed' \in SUBSET Slot
    BY <1>3, <1>5 DEF Listed
  <2> QED  BY <2>1, SlotsFinite
<1>9. ArrayTyped'
  BY <1>0, <1>3, <1>4, <1>7, <1>8 DEF ArrayTyped
<1>10. is_capturing' <=> n_down_ifaces' > 0
  BY <1>0, <1>4 DEF ArrayTyped
<1>11. \A j \in Slot : down_ifaces'[j] = IF j = k THEN i ELSE down_ifaces[j]
  BY <1>4 DEF ArrayTyped
<1>12. \A j \in Slot : down_ifaces'[j] # NULL => status'[down_ifaces'[j]] = "DOWN"
  <2> SUFFICES ASSUME NEW j \in Slot, down_ifaces'[j] # NULL
               PROVE  status'[down_ifaces'[j]] = "DOWN"
    OBVIOUS
  <2>1. CASE j = k
    BY <1>11, <2>1
  <2>2. CASE j # k
    <3>1. down_ifaces'[j] \in Iface /\ status[down_ifaces'[j]] = "DOWN"
      BY <1>11, <2>2 DEF ArrayTyped, Records
    <3> QED  BY <3>1
  <2> QED  BY <2>1, <2>2
<1>13. \A j, l \in Slot : down_ifaces'[j] = down_ifaces'[l] /\ down_ifaces'[j] # NULL => j = l
  BY <1>1, <1>11 DEF Records
<1> QED  BY <1>7, <1>9, <1>10, <1>12, <1>13 DEF Records

\* The rest of the types: what passes through the handles are packets.
PacketsTyped ==
  /\ running \in BOOLEAN
  /\ filter \subseteq Dest
  /\ ring \in [Iface -> SUBSET Dest]
  /\ dump \subseteq Dest
  /\ up_iface \in Iface \cup {NULL}
  /\ sent \subseteq Dest /\ replayed \subseteq Dest

\* TypeOK is the types of links, records and packets.
LEMMA TypesTogether == TypeOK <=> LinksTyped /\ ArrayTyped /\ PacketsTyped
BY CaptureAssumption DEF TypeOK, LinksTyped, ArrayTyped, PacketsTyped

\* Bookkeeping is about the records while the daemon runs.
LEMMA BookkeepingIsRecords == Bookkeeping <=> (running => Records)
BY DEF Bookkeeping, Records, Listed

\* capture_packets moves packets and nothing else.
LEMMA CapturedTyped ==
  ASSUME NEW before \in [Iface -> SUBSET Dest], NEW file \in SUBSET Dest,
         CapturePackets(before, file)
  PROVE  ring' \in [Iface -> SUBSET Dest] /\ dump' \subseteq Dest
BY DEF CapturePackets

\* Packets stay packets in every step.
LEMMA PacketsStayTyped ==
  ASSUME LinksTyped, PacketsTyped, [Next]_vars
  PROVE  PacketsTyped'
<1> USE DEF PacketsTyped
<1>1. CASE Replay
  <2> DEFINE go == {d \in dump : next_hops[d] = up_iface}
             before == [ring EXCEPT ![up_iface] = @ \cup {d \in go : Passes(d, filter)}]
  <2>1. CapturePackets(before, {}) /\ replayed' = replayed \cup go
    BY <1>1 DEF Replay
  <2>2. before \in [Iface -> SUBSET Dest]
    OBVIOUS
  <2>3. ring' \in [Iface -> SUBSET Dest] /\ dump' \subseteq Dest
    <3> HIDE DEF before
    <3> QED  BY <2>1, <2>2, CapturedTyped
  <2>4. UNCHANGED <<running, filter, up_iface, sent>>
    BY <1>1 DEF Replay, capture
  <2> QED  BY <2>1, <2>3, <2>4
<1>2. CASE OtherEvent
  <2>1. ring' \in [Iface -> SUBSET Dest] /\ dump' \subseteq Dest
    BY <1>2, CapturedTyped DEF OtherEvent
  <2> QED  BY <1>2, <2>1 DEF OtherEvent, capture, timer
<1>3. ASSUME NEW i \in Iface, LinkUp(i)
      PROVE  PacketsTyped'
  <2>1. ring' \in [Iface -> SUBSET Dest] /\ dump' \subseteq Dest
    BY <1>3, CapturedTyped DEF LinkUp
  <2> QED  BY <1>3, <2>1 DEF LinkUp
<1>4. ASSUME NEW i \in Iface, LinkUpCrash(i)
      PROVE  PacketsTyped'
  BY <1>4 DEF LinkUpCrash, capture, timer
<1>5. ASSUME NEW i \in Iface, LinkDown(i)
      PROVE  PacketsTyped'
  <2>1. Refilter(filter') \in [Iface -> SUBSET Dest] /\ CapturePackets(Refilter(filter'), dump)
    BY <1>5 DEF Refilter, LinkDown
  <2>2. ring' \in [Iface -> SUBSET Dest] /\ dump' \subseteq Dest
    BY <2>1, CapturedTyped
  <2>3. filter' \subseteq Dest
    BY <1>5 DEF LinkDown, CaptureStartIface, FilterFor
  <2> QED  BY <1>5, <2>2, <2>3 DEF LinkDown, timer
<1>6. ASSUME NEW d \in Dest, KernelSends(d)
      PROVE  PacketsTyped'
  BY <1>6 DEF KernelSends, capture, timer, LinksTyped
<1>7. CASE UNCHANGED vars
  BY <1>7 DEF vars, capture, timer
<1> QED  BY <1>1, <1>2, <1>3, <1>4, <1>5, <1>6, <1>7 DEF Next

(***************************************************************************)
(* The records agree after every step that the daemon survives.            *)
(***************************************************************************)
LEMMA RecordsStay ==
  ASSUME LinksTyped, ArrayTyped, running => Records, [Next]_vars
  PROVE  ArrayTyped' /\ (running' => Records')
<1> DEFINE Same == UNCHANGED <<running, status, is_capturing, down_ifaces, n_down_ifaces>>
<1>0. ASSUME Same
      PROVE  ArrayTyped' /\ (running' => Records')
  BY <1>0 DEF ArrayTyped, Records, Listed, Empties
<1>1. CASE Replay
  BY <1>0, <1>1 DEF Replay, links, capture
<1>2. CASE OtherEvent
  BY <1>0, <1>2 DEF OtherEvent, capture
<1>3. ASSUME NEW i \in Iface, LinkUp(i)
      PROVE  ArrayTyped' /\ (running' => Records')
  BY <1>3, EndKeepsRecords DEF LinkUp, LinksTyped
<1>4. ASSUME NEW i \in Iface, LinkUpCrash(i)
      PROVE  ArrayTyped' /\ (running' => Records')
  BY <1>4 DEF LinkUpCrash, capture, ArrayTyped
<1>5. ASSUME NEW i \in Iface, LinkDown(i)
      PROVE  ArrayTyped' /\ (running' => Records')
  BY <1>5, StartKeepsRecords DEF LinkDown, LinksTyped
<1>6. ASSUME NEW d \in Dest, KernelSends(d)
      PROVE  ArrayTyped' /\ (running' => Records')
  BY <1>0, <1>6 DEF KernelSends, links, capture
<1>7. CASE UNCHANGED vars
  BY <1>0, <1>7 DEF vars, links, capture
<1> QED  BY <1>1, <1>2, <1>3, <1>4, <1>5, <1>6, <1>7 DEF Next

\* At start-up nothing is listed, although every link is DOWN.
LEMMA CaptureInit == Init => TypeOK /\ Bookkeeping
<1> SUFFICES ASSUME Init PROVE TypeOK /\ Bookkeeping
  OBVIOUS
<1>1. Listed = {}
  BY DEF Init, Listed, Empties
<1>2. Cardinality(Listed) = 0
  BY <1>1, FS_EmptySet
<1>3. LinksTyped /\ PacketsTyped
  BY DEF Init, LinksTyped, PacketsTyped
<1>4. ArrayTyped
  <2>1. is_capturing \in BOOLEAN /\ down_ifaces \in [Slot -> Iface \cup {NULL}] /\ n_down_ifaces = 0
    BY DEF Init
  <2>2. Cardinality(Iface) \in Nat
    BY SlotFacts
  <2>3. 0 \in 0 .. Cardinality(Iface)
    BY <2>2
  <2> QED  BY <2>1, <2>3 DEF ArrayTyped
<1>5. TypeOK
  BY <1>3, <1>4, TypesTogether
<1>6. Records
  BY <1>2 DEF Init, Records
<1> QED  BY <1>5, <1>6, BookkeepingIsRecords

\* TypeOK and Bookkeeping together are inductive.
LEMMA CaptureStep == TypeOK /\ Bookkeeping /\ [Next]_vars => (TypeOK /\ Bookkeeping)'
<1> SUFFICES ASSUME TypeOK, Bookkeeping, [Next]_vars
             PROVE  TypeOK' /\ Bookkeeping'
  OBVIOUS
<1>1. LinksTyped /\ ArrayTyped /\ PacketsTyped /\ (running => Records)
  BY TypesTogether, BookkeepingIsRecords
<1>2. LinksTyped' /\ PacketsTyped' /\ ArrayTyped' /\ (running' => Records')
  BY <1>1, LinksStayTyped, PacketsStayTyped, RecordsStay
<1>3. TypeOK' <=> LinksTyped' /\ ArrayTyped' /\ PacketsTyped'
  BY TypesTogether, PTL
<1>4. Bookkeeping' <=> (running' => Records')
  BY BookkeepingIsRecords, PTL
<1> QED  BY <1>2, <1>3, <1>4

\* Every variable of the daemon keeps its type; the counter stays in range.
THEOREM CaptureTypeCorrect == Spec => []TypeOK
BY CaptureInit, CaptureStep, PTL DEF Spec

(***************************************************************************)
(* The array, the counter and the flag of capture.c agree with each other  *)
(* and with the link statuses, in whichever order the links of any number  *)
(* of interfaces change, for as long as the daemon survives.               *)
(***************************************************************************)
THEOREM RecordsAlwaysAgree == Spec => []Bookkeeping
BY CaptureInit, CaptureStep, PTL DEF Spec
=============================================================================
