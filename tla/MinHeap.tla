------------------------------ MODULE MinHeap ------------------------------
(***************************************************************************)
(* heap.c: the priority queue of dijkstra.  A heap h is the array          *)
(* node_ptrs, here a sequence of node ids numbered from 1; d is the        *)
(* tent_dist of the nodes it points to.  minheap_decrease_dist, which the  *)
(* program never calls, is left out.                                       *)
(*                                                                         *)
(* A loop is a function of the number of its rounds.  Where the source     *)
(* stops at a condition, the rounds left over change nothing.              *)
(***************************************************************************)
EXTENDS Naturals, Sequences

Swap(h, i, j) == [h EXCEPT ![i] = h[j], ![j] = h[i]]
Parent(i) == i \div 2
Left(i) == 2 * i
Right(i) == 2 * i + 1

\* One round of the loop of minheap_insert, at the place p.i of the heap p.h.
SiftUp(p, d) ==
  IF p.i > 1 /\ d[p.h[Parent(p.i)]] > d[p.h[p.i]]
  THEN [h |-> Swap(p.h, p.i, Parent(p.i)), i |-> Parent(p.i)] ELSE p

\* minheap_insert.
Insert(h, d, n) ==
  LET up[k \in 0 .. Len(h) + 1] ==
        IF k = 0 THEN [h |-> Append(h, n), i |-> Len(h) + 1] ELSE SiftUp(up[k - 1], d)
  IN  up[Len(h) + 1].h

(***************************************************************************)
(* minheap_heapify: the smaller child of i moves up if it is smaller than  *)
(* i, the left one when they are equal.                                    *)
(***************************************************************************)
Smallest(h, d, i) ==
  LET s == IF Left(i) <= Len(h) /\ d[h[Left(i)]] < d[h[i]] THEN Left(i) ELSE i
  IN  IF Right(i) <= Len(h) /\ d[h[Right(i)]] < d[h[s]] THEN Right(i) ELSE s

SiftDown(p, d) == LET s == Smallest(p.h, d, p.i) IN [h |-> Swap(p.h, p.i, s), i |-> s]

Heapify(h, d, i) ==
  LET down[k \in 0 .. Len(h)] == IF k = 0 THEN [h |-> h, i |-> i] ELSE SiftDown(down[k - 1], d)
  IN  down[Len(h)].h

\* minheap_build_heap: from the last inner node down to the root.
\* (mutant: the last inner node is left out)
BuildHeapShort(h, d) ==
  LET built[k \in 0 .. Len(h)] ==
        IF k = 0 THEN h ELSE Heapify(built[k - 1], d, Len(h) \div 2 - k)
  IN  built[IF Len(h) < 4 THEN 0 ELSE Len(h) \div 2 - 1]

BuildHeap(h, d) ==
  LET built[k \in 0 .. Len(h) \div 2] ==
        IF k = 0 THEN h ELSE Heapify(built[k - 1], d, Len(h) \div 2 - k + 1)
  IN  built[Len(h) \div 2]

\* minheap_pop: the root is Head(h); what is left of the heap.
Popped(h, d) ==
  IF Len(h) = 1 THEN <<>>
  ELSE Heapify([SubSeq(h, 1, Len(h) - 1) EXCEPT ![1] = h[Len(h)]], d, 1)

\* In the first n places no node is farther than its children.
IsHeap(h, d, n) == \A j \in 2 .. n : d[h[Parent(j)]] <= d[h[j]]
=============================================================================
