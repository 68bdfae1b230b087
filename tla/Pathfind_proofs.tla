-------------------------- MODULE Pathfind_proofs --------------------------
(***************************************************************************)
(* Proofs about Pathfind and the heap it uses: dijkstra gives every node   *)
(* its least cost, in every graph.                                         *)
(***************************************************************************)
EXTENDS Pathfind, Extrema, FiniteSetTheorems, TLAPS

-----------------------------------------------------------------------------
(***************************************************************************)
(* The heap.  A heap of n places is a function from 1 .. n.                *)
(***************************************************************************)
\* Such a function is a sequence of length n.
LEMMA HeapLen ==
  ASSUME NEW n \in Nat, NEW S, NEW h \in [1 .. n -> S]
  PROVE  Len(h) = n /\ h \in Seq(S) /\ DOMAIN h = 1 .. n
OBVIOUS

\* A sequence is such a function.
LEMMA SeqHeap ==
  ASSUME NEW S, NEW h \in Seq(S)
  PROVE  Len(h) \in Nat /\ h \in [1 .. Len(h) -> S]
OBVIOUS

\* g holds the nodes of h in another order.
Rearranges(g, h, n, S) ==
  /\ g \in [1 .. n -> S]
  /\ \A k \in 1 .. n : (\E m \in 1 .. n : g[k] = h[m]) /\ (\E m \in 1 .. n : h[k] = g[m])
  /\ IsInjective(h) => IsInjective(g)

\* From the place lo on, no parent is farther than its children.
HeapFrom(h, d, n, lo) == \A j \in 2 .. n : Parent(j) >= lo => d[h[Parent(j)]] <= d[h[j]]

\* Swapping two places.
Swapped(g, h, i, j, n, S) ==
  /\ Rearranges(g, h, n, S) /\ g[i] = h[j] /\ g[j] = h[i]
  /\ \A k \in 1 .. n : k # i /\ k # j => g[k] = h[k]

\* Swap does so.
LEMMA SwapRearranges ==
  ASSUME NEW n \in Nat, NEW S, NEW h \in [1 .. n -> S], NEW i \in 1 .. n, NEW j \in 1 .. n,
         NEW g, g = Swap(h, i, j)
  PROVE  Swapped(g, h, i, j, n, S)
<1>1. /\ g \in [1 .. n -> S] /\ g[i] = h[j] /\ g[j] = h[i]
      /\ \A k \in 1 .. n : k # i /\ k # j => g[k] = h[k]
  BY DEF Swap
<1>2. DOMAIN g = 1 .. n /\ DOMAIN h = 1 .. n
  BY <1>1
<1>3. ASSUME NEW k \in 1 .. n PROVE (\E m \in 1 .. n : g[k] = h[m]) /\ (\E m \in 1 .. n : h[k] = g[m])
  <2>1. CASE k = i
    BY <1>1, <2>1
  <2>2. CASE k = j
    BY <1>1, <2>2
  <2>3. CASE k # i /\ k # j
    BY <1>1, <2>3
  <2> QED  BY <2>1, <2>2, <2>3
<1>4. IsInjective(h) => IsInjective(g)
  BY <1>1, <1>2 DEF IsInjective
<1> QED  BY <1>1, <1>3, <1>4 DEF Rearranges, Swapped

\* Rearranging not at all.
LEMMA RearrangesSame ==
  ASSUME NEW n \in Nat, NEW S, NEW h \in [1 .. n -> S]
  PROVE  Rearranges(h, h, n, S)
BY DEF Rearranges

\* Rearranging twice.
LEMMA RearrangesAgain ==
  ASSUME NEW n \in Nat, NEW S, NEW f, NEW g, NEW h, Rearranges(f, g, n, S), Rearranges(g, h, n, S)
  PROVE  Rearranges(f, h, n, S)
<1>1. ASSUME NEW k \in 1 .. n PROVE (\E m \in 1 .. n : f[k] = h[m]) /\ (\E m \in 1 .. n : h[k] = f[m])
  <2>1. PICK j \in 1 .. n : f[k] = g[j]
    BY DEF Rearranges
  <2>2. PICK m \in 1 .. n : g[j] = h[m]
    BY DEF Rearranges
  <2>3. PICK i \in 1 .. n : h[k] = g[i]
    BY DEF Rearranges
  <2>4. PICK l \in 1 .. n : g[i] = f[l]
    BY DEF Rearranges
  <2> QED  BY <2>1, <2>2, <2>3, <2>4
<1>2. f \in [1 .. n -> S] /\ (IsInjective(h) => IsInjective(f))
  BY DEF Rearranges
<1> QED  BY <1>1, <1>2 DEF Rearranges

-----------------------------------------------------------------------------
(***************************************************************************)
(* minheap_heapify.                                                        *)
(***************************************************************************)
\* The states of the loops of heap.c over a heap of n places.
Places(n, S) == [h : [1 .. n -> S], i : 1 .. n]

\* The place that Smallest yields: i when no child is nearer, and otherwise the
\* child that is nearer than i and no farther than its sibling.
Nearest(s, h, d, i, n) ==
  /\ s \in 1 .. n
  /\ s = i => \A j \in 2 .. n : Parent(j) = i => d[h[i]] <= d[h[j]]
  /\ s # i => /\ s >= 2 /\ s > i /\ Parent(s) = i
              /\ \A j \in 2 .. n : Parent(j) = i => d[h[s]] <= d[h[j]]
              /\ d[h[s]] < d[h[i]]

\* Smallest yields that place.
LEMMA SmallestChild ==
  ASSUME NEW n \in Nat, NEW S, NEW h \in [1 .. n -> S], NEW d \in [S -> Nat], NEW i \in 1 .. n,
         NEW s, s = Smallest(h, d, i)
  PROVE  Nearest(s, h, d, i, n)
<1>1. Len(h) = n
  BY HeapLen
<1>2. \A k \in 1 .. n : d[h[k]] \in Nat
  OBVIOUS
<1>3. /\ Left(i) \in Nat /\ Right(i) \in Nat /\ Left(i) > i /\ Right(i) > i /\ Left(i) >= 2 /\ Right(i) >= 2
      /\ Parent(Left(i)) = i /\ Parent(Right(i)) = i
      /\ \A j \in 2 .. n : Parent(j) = i => j = Left(i) \/ j = Right(i)
  BY DEF Parent, Left, Right
<1>4. CASE Left(i) <= n /\ d[h[Left(i)]] < d[h[i]]
  <2>1. s = IF Right(i) <= n /\ d[h[Right(i)]] < d[h[Left(i)]] THEN Right(i) ELSE Left(i)
    BY <1>1, <1>4 DEF Smallest
  <2>2. CASE Right(i) <= n /\ d[h[Right(i)]] < d[h[Left(i)]]
    <3>1. s = Right(i) /\ s # i /\ d[h[s]] < d[h[i]] /\ s \in 1 .. n /\ Left(i) \in 1 .. n
      BY <1>2, <1>3, <1>4, <2>1, <2>2
    <3>2. ASSUME NEW j \in 2 .. n, Parent(j) = i PROVE d[h[s]] <= d[h[j]]
      BY <1>2, <1>3, <2>2, <3>1, <3>2
    <3> QED  BY <1>3, <3>1, <3>2 DEF Nearest
  <2>3. CASE ~(Right(i) <= n /\ d[h[Right(i)]] < d[h[Left(i)]])
    <3>1. s = Left(i) /\ s # i /\ d[h[s]] < d[h[i]] /\ s \in 1 .. n
      BY <1>3, <1>4, <2>1, <2>3
    <3>2. ASSUME NEW j \in 2 .. n, Parent(j) = i PROVE d[h[s]] <= d[h[j]]
      <4>1. j \in 1 .. n /\ (j = Left(i) \/ j = Right(i))
        BY <1>3, <3>2
      <4>2. CASE j = Right(i)
        BY <1>2, <2>3, <3>1, <4>1, <4>2
      <4>3. CASE j = Left(i)
        BY <1>2, <3>1, <4>1, <4>3
      <4> QED  BY <4>1, <4>2, <4>3
    <3> QED  BY <1>3, <3>1, <3>2 DEF Nearest
  <2> QED  BY <2>2, <2>3
<1>5. CASE ~(Left(i) <= n /\ d[h[Left(i)]] < d[h[i]])
  <2>1. s = IF Right(i) <= n /\ d[h[Right(i)]] < d[h[i]] THEN Right(i) ELSE i
    BY <1>1, <1>5 DEF Smallest
  <2>2. CASE Right(i) <= n /\ d[h[Right(i)]] < d[h[i]]
    <3>1. s = Right(i) /\ s # i
      BY <1>3, <2>1, <2>2
    <3>2. ASSUME NEW j \in 2 .. n, Parent(j) = i PROVE d[h[s]] <= d[h[j]]
      <4>1. j \in 1 .. n /\ (j = Left(i) \/ j = Right(i)) /\ Right(i) \in 1 .. n
        BY <1>3, <2>2, <3>2
      <4>2. CASE j = Right(i)
        BY <1>2, <3>1, <4>1, <4>2
      <4>3. CASE j = Left(i)
        <5>1. d[h[i]] <= d[h[j]]
          BY <1>2, <1>5, <4>1, <4>3
        <5> QED  BY <1>2, <2>2, <3>1, <4>1, <5>1
      <4> QED  BY <4>1, <4>2, <4>3
    <3> QED  BY <1>2, <1>3, <2>2, <3>1, <3>2 DEF Nearest
  <2>3. CASE ~(Right(i) <= n /\ d[h[Right(i)]] < d[h[i]])
    <3>1. s = i
      BY <2>1, <2>3
    <3>2. ASSUME NEW j \in 2 .. n, Parent(j) = i PROVE d[h[i]] <= d[h[j]]
      <4>1. j \in 1 .. n /\ (j = Left(i) \/ j = Right(i))
        BY <1>3, <3>2
      <4>2. CASE j = Right(i)
        BY <1>2, <2>3, <4>1, <4>2
      <4>3. CASE j = Left(i)
        BY <1>2, <1>5, <4>1, <4>3
      <4> QED  BY <4>1, <4>2, <4>3
    <3> QED  BY <3>1, <3>2 DEF Nearest
  <2> QED  BY <2>2, <2>3
<1> QED  BY <1>4, <1>5

\* One round stays within the heap.
LEMMA SiftDownType ==
  ASSUME NEW n \in Nat, NEW S, NEW d \in [S -> Nat], NEW p \in Places(n, S)
  PROVE  SiftDown(p, d) \in Places(n, S)
<1> PICK h, i, s : h = p.h /\ i = p.i /\ s = Smallest(h, d, i)
  OBVIOUS
<1>1. h \in [1 .. n -> S] /\ i \in 1 .. n
  BY DEF Places
<1>2. s \in 1 .. n
  BY <1>1, SmallestChild DEF Nearest
<1> PICK g : g = Swap(h, i, s)
  OBVIOUS
<1>3. g \in [1 .. n -> S]
  BY <1>1, <1>2, SwapRearranges DEF Swapped, Rearranges
<1>4. SiftDown(p, d) = [h |-> g, i |-> s]
  BY DEF SiftDown
<1> QED  BY <1>2, <1>3, <1>4 DEF Places

\* The table of the loop.
Sinks(t, h, d, lo, n) ==
  /\ t[0] = [h |-> h, i |-> lo]
  /\ \A k \in 1 .. n : t[k] = SiftDown(t[k - 1], d)
  /\ Heapify(h, d, lo) = t[n].h

\* The loop has a table, and stays within the heap.
LEMMA HeapifyLoop ==
  ASSUME NEW n \in Nat, NEW S, NEW h \in [1 .. n -> S], NEW d \in [S -> Nat], NEW lo \in 1 .. n
  PROVE  \E t \in [0 .. n -> Places(n, S)] : Sinks(t, h, d, lo, n)
<1> DEFINE F == [q \in (1 .. n) \X Places(n, S) |-> SiftDown(q[2], d)]
           x == [h |-> h, i |-> lo]
           Table(t) == t = [k \in 0 .. n |-> IF k = 0 THEN x ELSE SiftDown(t[k - 1], d)]
           down == CHOOSE t : Table(t)
<1>1. F \in [(1 .. n) \X Places(n, S) -> Places(n, S)] /\ x \in Places(n, S)
  BY SiftDownType DEF Places
<1>2. PICK t \in [0 .. n -> Places(n, S)] : IsTable(t, n, x, F)
  <2> HIDE DEF F, x
  <2> QED  BY <1>1, LoopExists
<1>3. ASSUME NEW k \in 1 .. n PROVE F[<<k, t[k - 1]>>] = SiftDown(t[k - 1], d)
  <2>1. k - 1 \in 0 .. n
    OBVIOUS
  <2> QED  BY <1>2, <2>1
<1>4. Table(t)
  <2>1. \A k \in 0 .. n : k = 0 \/ k \in 1 .. n
    OBVIOUS
  <2>2. \A k \in 0 .. n : (IF k = 0 THEN x ELSE F[<<k, t[k - 1]>>]) = (IF k = 0 THEN x ELSE SiftDown(t[k - 1], d))
    <3> HIDE DEF F, x
    <3> QED  BY <2>1, <1>3
  <2> HIDE DEF F, x
  <2> QED  BY <1>2, <2>2 DEF IsTable
<1>5. Table(down)
  <2> HIDE DEF Table
  <2> QED  BY <1>4
<1>6. Heapify(h, d, lo) = down[n].h
  <2>1. Len(h) = n
    BY HeapLen
  <2> QED  BY <2>1 DEF Heapify
<1> HIDE DEF down, F
<1>7. down = [k \in 0 .. n |-> IF k = 0 THEN x ELSE SiftDown(down[k - 1], d)]
  BY <1>5
<1> HIDE DEF x
<1>8. down[0] = x
  BY <1>7
<1>9. ASSUME NEW k \in 1 .. n PROVE down[k] = SiftDown(down[k - 1], d)
  BY <1>7
<1>10. \A k \in 0 .. n : down[k] \in Places(n, S)
  <2> DEFINE I == [k \in 0 .. n |-> Places(n, S)]
  <2>1. down[0] \in I[0]
    BY <1>1, <1>8
  <2>2. ASSUME NEW k \in 1 .. n, down[k - 1] \in I[k - 1] PROVE down[k] \in I[k]
    <3>1. k - 1 \in 0 .. n /\ k \in 0 .. n
      OBVIOUS
    <3>2. SiftDown(down[k - 1], d) \in Places(n, S)
      BY <2>2, <3>1, SiftDownType
    <3> QED  BY <1>9, <3>1, <3>2
  <2> HIDE DEF I
  <2>3. \A k \in 0 .. n : down[k] \in I[k]
    <3>1. Keeps(down, I, n)
      BY <2>1, <2>2 DEF Keeps
    <3> QED  BY <3>1, LoopInvariant
  <2> QED  BY <2>3 DEF I
<1>11. down \in [0 .. n -> Places(n, S)]
  BY <1>7, <1>10
<1> QED  BY <1>6, <1>8, <1>9, <1>11 DEF Sinks, x

\* On the way down, at place i: only the children of i may be nearer than
\* their parent, and they are no nearer than the parent of i.
OrderedBut(h, d, n, lo, i) ==
  \A j \in 2 .. n : Parent(j) >= lo /\ Parent(j) # i => d[h[Parent(j)]] <= d[h[j]]
Bridged(h, d, n, lo, i) ==
  i >= 2 /\ Parent(i) >= lo => \A j \in 2 .. n : Parent(j) = i => d[h[Parent(i)]] <= d[h[j]]

\* Swapping i with its nearest child.
Down(s, g, h, d, n, lo, i, S) ==
  /\ s \in 1 .. n /\ s >= lo /\ Rearranges(g, h, n, S)
  /\ OrderedBut(g, d, n, lo, s) /\ Bridged(g, d, n, lo, s)
  /\ HeapFrom(g, d, n, lo) \/ (s >= i + 1 /\ ~HeapFrom(h, d, n, lo))

\* A swap with the child that Smallest yields does so.
LEMMA SwapDown ==
  ASSUME NEW n \in Nat, NEW S, NEW h \in [1 .. n -> S], NEW d \in [S -> Nat], NEW lo \in 1 .. n,
         NEW i \in 1 .. n, i >= lo, OrderedBut(h, d, n, lo, i), Bridged(h, d, n, lo, i),
         NEW s, s = Smallest(h, d, i), NEW g, g = Swap(h, i, s)
  PROVE  Down(s, g, h, d, n, lo, i, S)
<1>0. Nearest(s, h, d, i, n)
  BY SmallestChild
<1>1. s \in 1 .. n
  BY <1>0 DEF Nearest
<1>2. /\ Rearranges(g, h, n, S) /\ g[i] = h[s] /\ g[s] = h[i]
      /\ \A k \in 1 .. n : k # i /\ k # s => g[k] = h[k]
  <2>1. Swapped(g, h, i, s, n, S)
    BY <1>1, SwapRearranges
  <2> QED  BY <2>1 DEF Swapped
<1>3. \A j \in 2 .. n : j \in 1 .. n /\ Parent(j) \in 1 .. n /\ Parent(j) < j
  BY DEF Parent
<1>4. \A k \in 1 .. n : d[h[k]] \in Nat
  OBVIOUS
<1>5. CASE s = i
  <2>1. \A j \in 2 .. n : Parent(j) = i => d[h[i]] <= d[h[j]]
    BY <1>0, <1>5 DEF Nearest
  <2>2. \A k \in 1 .. n : g[k] = h[k]
    BY <1>2, <1>5
  <2>3. HeapFrom(h, d, n, lo)
    BY <2>1 DEF HeapFrom, OrderedBut
  <2>4. HeapFrom(g, d, n, lo)
    BY <1>3, <2>2, <2>3 DEF HeapFrom
  <2>5. OrderedBut(g, d, n, lo, s)
    BY <2>4 DEF HeapFrom, OrderedBut
  <2>6. Bridged(g, d, n, lo, s)
    <3> SUFFICES ASSUME i >= 2, Parent(i) >= lo, NEW j \in 2 .. n, Parent(j) = i
                 PROVE  d[g[Parent(i)]] <= d[g[j]]
      BY <1>5 DEF Bridged
    <3>1. d[h[Parent(i)]] <= d[h[j]] /\ Parent(i) \in 1 .. n
      BY <1>3 DEF Bridged
    <3> QED  BY <1>3, <2>2, <3>1
  <2> QED  BY <1>1, <1>2, <1>5, <2>4, <2>5, <2>6 DEF Down
<1>6. CASE s # i
  <2>1. /\ s \in 2 .. n /\ s >= i + 1 /\ Parent(s) = i /\ d[h[s]] < d[h[i]]
        /\ \A j \in 2 .. n : Parent(j) = i => d[h[s]] <= d[h[j]]
    BY <1>0, <1>6 DEF Nearest
  <2>2. ~HeapFrom(h, d, n, lo)
    BY <1>4, <2>1 DEF HeapFrom
  <2>3. ASSUME NEW j \in 2 .. n, Parent(j) >= lo, Parent(j) # s PROVE d[g[Parent(j)]] <= d[g[j]]
    <3>1. CASE j = s
      <4>1. g[Parent(j)] = h[s] /\ g[j] = h[i]
        BY <1>2, <2>1, <3>1
      <4> QED  BY <1>4, <2>1, <4>1
    <3>2. CASE j # s /\ Parent(j) = i
      <4>1. g[Parent(j)] = h[s] /\ g[j] = h[j]
        BY <1>2, <1>3, <3>2
      <4> QED  BY <2>1, <3>2, <4>1
    <3>3. CASE j = i
      <4>1. d[h[Parent(i)]] <= d[h[s]]
        BY <2>1, <2>3, <3>3 DEF Bridged
      <4>2. g[Parent(j)] = h[Parent(i)] /\ g[j] = h[s]
        BY <1>2, <1>3, <2>3, <3>3
      <4> QED  BY <4>1, <4>2
    <3>4. CASE j # s /\ j # i /\ Parent(j) # i
      <4>1. g[Parent(j)] = h[Parent(j)] /\ g[j] = h[j]
        BY <1>2, <1>3, <2>3, <3>4
      <4>2. d[h[Parent(j)]] <= d[h[j]]
        BY <2>3, <3>4 DEF OrderedBut
      <4> QED  BY <4>1, <4>2
    <3> QED  BY <3>1, <3>2, <3>3, <3>4
  <2>4. OrderedBut(g, d, n, lo, s)
    BY <2>3 DEF OrderedBut
  <2>5. ASSUME NEW j \in 2 .. n, Parent(j) = s PROVE d[g[Parent(s)]] <= d[g[j]]
    <3>1. j # s /\ j # i
      <4>1. Parent(j) < j /\ j \in Nat /\ s \in Nat /\ i \in Nat /\ s > i
        BY <1>3, <2>1
      <4> QED  BY <2>5, <4>1
    <3>2. g[Parent(s)] = h[s] /\ g[j] = h[j]
      BY <1>2, <2>1, <3>1
    <3>3. d[h[Parent(j)]] <= d[h[j]]
      BY <1>6, <2>1, <2>5 DEF OrderedBut
    <3> QED  BY <2>5, <3>2, <3>3
  <2>6. Bridged(g, d, n, lo, s)
    BY <2>5 DEF Bridged
  <2> QED  BY <1>1, <1>2, <2>1, <2>2, <2>4, <2>6 DEF Down
<1> QED  BY <1>5, <1>6

\* In order from the root on is in order.
LEMMA WholeHeap ==
  ASSUME NEW n \in Nat, NEW h, NEW d, HeapFrom(h, d, n, 1)
  PROVE  IsHeap(h, d, n)
<1>1. \A j \in 2 .. n : Parent(j) >= 1
  BY DEF Parent
<1> QED  BY <1>1 DEF HeapFrom, IsHeap

\* minheap_heapify: the heap is in order from lo on if it was so below lo.
LEMMA HeapifyCorrect ==
  ASSUME NEW n \in Nat, NEW S, NEW h \in [1 .. n -> S], NEW d \in [S -> Nat], NEW lo \in 1 .. n,
         HeapFrom(h, d, n, lo + 1)
  PROVE  /\ Rearranges(Heapify(h, d, lo), h, n, S)
         /\ HeapFrom(Heapify(h, d, lo), d, n, lo)
<1>0. PICK t \in [0 .. n -> Places(n, S)] : Sinks(t, h, d, lo, n)
  BY HeapifyLoop
<1>1. /\ t[0] = [h |-> h, i |-> lo]
      /\ \A k \in 1 .. n : t[k] = SiftDown(t[k - 1], d)
      /\ Heapify(h, d, lo) = t[n].h
  BY <1>0 DEF Sinks
<1> DEFINE Sunk(p, k) == /\ Rearranges(p.h, h, n, S) /\ p.i \in 1 .. n /\ p.i >= lo
                         /\ OrderedBut(p.h, d, n, lo, p.i) /\ Bridged(p.h, d, n, lo, p.i)
                         /\ HeapFrom(p.h, d, n, lo) \/ p.i >= lo + k
           I == [k \in 0 .. n |-> {p \in Places(n, S) : Sunk(p, k)}]
<1>2. t[0] \in I[0]
  <2>1. Rearranges(h, h, n, S)
    BY RearrangesSame
  <2>2. OrderedBut(h, d, n, lo, lo)
    BY DEF OrderedBut, HeapFrom, Parent
  <2>3. Bridged(h, d, n, lo, lo)
    BY DEF Bridged, Parent
  <2>4. [h |-> h, i |-> lo] \in Places(n, S)
    BY DEF Places
  <2> QED  BY <1>1, <2>1, <2>2, <2>3, <2>4
<1>3. ASSUME NEW k \in 1 .. n, t[k - 1] \in I[k - 1] PROVE t[k] \in I[k]
  <2>1. k - 1 \in 0 .. n /\ k \in 0 .. n
    OBVIOUS
  <2>2. PICK p \in Places(n, S) : p = t[k - 1] /\ Sunk(p, k - 1)
    BY <1>3, <2>1
  <2>3. p.h \in [1 .. n -> S]
    BY DEF Places
  <2>4. PICK i, s, g, f : f = p.h /\ i = p.i /\ s = Smallest(f, d, i) /\ g = Swap(f, i, s)
    OBVIOUS
  <2>5. t[k] = [h |-> g, i |-> s]
    BY <1>1, <2>2, <2>4 DEF SiftDown
  <2>6. /\ f \in [1 .. n -> S] /\ i \in 1 .. n /\ i >= lo /\ Rearranges(f, h, n, S)
        /\ OrderedBut(f, d, n, lo, i) /\ Bridged(f, d, n, lo, i)
        /\ HeapFrom(f, d, n, lo) \/ i >= lo + (k - 1)
    BY <2>2, <2>3, <2>4
  <2>7. /\ s \in 1 .. n /\ s >= lo /\ Rearranges(g, f, n, S)
        /\ OrderedBut(g, d, n, lo, s) /\ Bridged(g, d, n, lo, s)
        /\ HeapFrom(g, d, n, lo) \/ (s >= i + 1 /\ ~HeapFrom(f, d, n, lo))
    <3>1. Down(s, g, f, d, n, lo, i, S)
      BY <2>4, <2>6, SwapDown
    <3> QED  BY <3>1 DEF Down
  <2>8. Rearranges(g, h, n, S)
    BY <2>6, <2>7, RearrangesAgain
  <2>9. HeapFrom(g, d, n, lo) \/ s >= lo + k
    BY <2>6, <2>7
  <2>10. t[k] \in Places(n, S)
    BY <2>1
  <2> QED  BY <2>1, <2>5, <2>7, <2>8, <2>9, <2>10
<1>4. t[n] \in I[n]
  <2> HIDE DEF I
  <2>1. \A k \in 0 .. n : t[k] \in I[k]
    <3>1. Keeps(t, I, n)
      BY <1>2, <1>3 DEF Keeps
    <3> QED  BY <3>1, LoopInvariant
  <2>2. n \in 0 .. n
    OBVIOUS
  <2> QED  BY <2>1, <2>2, Zenon
<1>5. Sunk(t[n], n)
  BY <1>4
<1>6. HeapFrom(t[n].h, d, n, lo)
  BY <1>5
<1> QED  BY <1>1, <1>5, <1>6

\* minheap_heapify keeps the size of the heap.
LEMMA HeapifyType ==
  ASSUME NEW n \in Nat, NEW S, NEW h \in [1 .. n -> S], NEW d \in [S -> Nat], NEW lo \in 1 .. n
  PROVE  Heapify(h, d, lo) \in [1 .. n -> S]
<1>1. PICK t \in [0 .. n -> Places(n, S)] : Sinks(t, h, d, lo, n)
  BY HeapifyLoop
<1>2. t[n] \in Places(n, S)
  OBVIOUS
<1> QED  BY <1>1, <1>2 DEF Sinks, Places

-----------------------------------------------------------------------------
(***************************************************************************)
(* minheap_build_heap.                                                     *)
(***************************************************************************)
\* The table of the loop.
Rebuilds(t, h, d, m) ==
  /\ t[0] = h
  /\ \A k \in 1 .. m : t[k] = Heapify(t[k - 1], d, m - k + 1)
  /\ BuildHeap(h, d) = t[m]

\* The loop of minheap_build_heap has a table.
LEMMA BuildHeapLoop ==
  ASSUME NEW n \in Nat, NEW S, NEW h \in [1 .. n -> S], NEW d \in [S -> Nat],
         NEW m \in Nat, m = n \div 2
  PROVE  \E t \in [0 .. m -> [1 .. n -> S]] : Rebuilds(t, h, d, m)
<1> DEFINE H == [1 .. n -> S]
           F == [q \in (1 .. m) \X H |-> Heapify(q[2], d, m - q[1] + 1)]
           Table(t) == t = [k \in 0 .. m |-> IF k = 0 THEN h ELSE Heapify(t[k - 1], d, m - k + 1)]
           built == CHOOSE t : Table(t)
<1>0. \A k \in 1 .. m : m - k + 1 \in 1 .. n
  OBVIOUS
<1>1. \A k \in 1 .. m : \A g \in H : Heapify(g, d, m - k + 1) \in H
  BY <1>0, HeapifyType
<1>2. F \in [(1 .. m) \X H -> H]
  <2> HIDE DEF H
  <2>1. \A q \in (1 .. m) \X H : Heapify(q[2], d, m - q[1] + 1) \in H
    BY <1>1
  <2> QED  BY <2>1
<1>3. PICK t \in [0 .. m -> H] : IsTable(t, m, h, F)
  <2> HIDE DEF F, H
  <2>1. h \in H
    BY DEF H
  <2> QED  BY <1>2, <2>1, LoopExists
<1>4. Table(t)
  <2>1. ASSUME NEW k \in 1 .. m PROVE F[<<k, t[k - 1]>>] = Heapify(t[k - 1], d, m - k + 1)
    <3>1. t[k - 1] \in H
      <4> HIDE DEF H
      <4> QED  BY <1>3
    <3> HIDE DEF H
    <3> QED  BY <3>1
  <2> HIDE DEF F, H
  <2>2. \A k \in 0 .. m : k = 0 \/ k \in 1 .. m
    OBVIOUS
  <2>3. \A k \in 0 .. m : (IF k = 0 THEN h ELSE F[<<k, t[k - 1]>>]) = (IF k = 0 THEN h ELSE Heapify(t[k - 1], d, m - k + 1))
    BY <2>1, <2>2
  <2> QED  BY <1>3, <2>3 DEF IsTable
<1>5. Table(built)
  <2> HIDE DEF Table
  <2> QED  BY <1>4
<1>6. BuildHeap(h, d) = built[m]
  <2>1. Len(h) = n
    BY HeapLen
  <2> QED  BY <2>1 DEF BuildHeap
<1> HIDE DEF built, F, H
<1>7. built = [k \in 0 .. m |-> IF k = 0 THEN h ELSE Heapify(built[k - 1], d, m - k + 1)]
  BY <1>5
<1>8. built[0] = h
  BY <1>7
<1>9. ASSUME NEW k \in 1 .. m PROVE built[k] = Heapify(built[k - 1], d, m - k + 1)
  BY <1>7
<1>10. \A k \in 0 .. m : built[k] \in H
  <2> DEFINE I == [k \in 0 .. m |-> H]
  <2>1. built[0] \in I[0]
    BY <1>8 DEF H
  <2>2. ASSUME NEW k \in 1 .. m, built[k - 1] \in I[k - 1] PROVE built[k] \in I[k]
    <3>1. k - 1 \in 0 .. m /\ k \in 0 .. m
      OBVIOUS
    <3> QED  BY <1>1, <1>9, <2>2, <3>1
  <2> HIDE DEF I
  <2>3. \A k \in 0 .. m : built[k] \in I[k]
    <3>1. Keeps(built, I, m)
      BY <2>1, <2>2 DEF Keeps
    <3> QED  BY <3>1, LoopInvariant
  <2> QED  BY <2>3 DEF I
<1>11. built \in [0 .. m -> H]
  BY <1>7, <1>10
<1> QED  BY <1>6, <1>8, <1>9, <1>11 DEF Rebuilds, H

\* minheap_build_heap puts the nodes in order, whatever their order was.
LEMMA BuildHeapCorrect ==
  ASSUME NEW n \in Nat, NEW S, NEW h \in [1 .. n -> S], NEW d \in [S -> Nat]
  PROVE  Rearranges(BuildHeap(h, d), h, n, S) /\ IsHeap(BuildHeap(h, d), d, n)
<1> PICK m \in Nat : m = n \div 2
  OBVIOUS
<1>0. PICK t \in [0 .. m -> [1 .. n -> S]] : Rebuilds(t, h, d, m)
  BY BuildHeapLoop
<1>1. /\ t[0] = h
      /\ \A k \in 1 .. m : t[k] = Heapify(t[k - 1], d, m - k + 1)
      /\ BuildHeap(h, d) = t[m]
  BY <1>0 DEF Rebuilds
<1> DEFINE I == [k \in 0 .. m |-> {g \in [1 .. n -> S] : /\ Rearranges(g, h, n, S)
                                                         /\ HeapFrom(g, d, n, m - k + 1)}]
<1>2. t[0] \in I[0]
  <2>1. Rearranges(h, h, n, S)
    BY RearrangesSame
  <2>2. HeapFrom(h, d, n, m - 0 + 1)
    BY DEF HeapFrom, Parent
  <2> QED  BY <1>1, <2>1, <2>2
<1>3. ASSUME NEW k \in 1 .. m, t[k - 1] \in I[k - 1] PROVE t[k] \in I[k]
  <2>1. k - 1 \in 0 .. m /\ k \in 0 .. m
    OBVIOUS
  <2> PICK lo \in 1 .. n : lo = m - k + 1
    OBVIOUS
  <2>2. m - (k - 1) + 1 = lo + 1
    OBVIOUS
  <2>3. PICK g \in [1 .. n -> S] : g = t[k - 1] /\ Rearranges(g, h, n, S) /\ HeapFrom(g, d, n, lo + 1)
    BY <1>3, <2>1, <2>2
  <2> PICK f : f = Heapify(g, d, lo)
    OBVIOUS
  <2>4. Rearranges(f, g, n, S) /\ HeapFrom(f, d, n, lo)
    BY <2>3, HeapifyCorrect
  <2>5. t[k] = f
    BY <1>1, <2>3
  <2>6. Rearranges(f, h, n, S)
    BY <2>3, <2>4, RearrangesAgain
  <2>7. t[k] \in [1 .. n -> S]
    BY <2>1
  <2>8. HeapFrom(t[k], d, n, m - k + 1)
    BY <2>4, <2>5
  <2> QED  BY <2>1, <2>5, <2>6, <2>7, <2>8
<1>4. t[m] \in I[m]
  <2> HIDE DEF I
  <2>1. \A k \in 0 .. m : t[k] \in I[k]
    <3>1. Keeps(t, I, m)
      BY <1>2, <1>3 DEF Keeps
    <3> QED  BY <3>1, LoopInvariant
  <2>2. m \in 0 .. m
    OBVIOUS
  <2> QED  BY <2>1, <2>2, Zenon
<1>5. Rearranges(t[m], h, n, S) /\ HeapFrom(t[m], d, n, m - m + 1)
  BY <1>4
<1>6. m - m + 1 = 1
  OBVIOUS
<1>7. HeapFrom(t[m], d, n, 1)
  BY <1>5, <1>6
<1>8. IsHeap(t[m], d, n)
  BY <1>7, WholeHeap
<1> QED  BY <1>1, <1>5, <1>8

-----------------------------------------------------------------------------
(***************************************************************************)
(* minheap_pop.                                                            *)
(***************************************************************************)
\* The root is the nearest node.
LEMMA RootNearest ==
  ASSUME NEW n \in Nat, NEW S, NEW h \in [1 .. n -> S], NEW d \in [S -> Nat], IsHeap(h, d, n)
  PROVE  \A j \in 1 .. n : d[h[1]] <= d[h[j]]
<1> DEFINE B == {j \in 1 .. n : ~(d[h[1]] <= d[h[j]])}
<1> SUFFICES ASSUME B # {} PROVE FALSE
  OBVIOUS
<1>1. PICK k \in B : \A j \in B : k <= j
  <2>1. B \in SUBSET Nat
    OBVIOUS
  <2> HIDE DEF B
  <2> QED  BY <2>1, LeastExists
<1>2. \A j \in 1 .. n : d[h[j]] \in Nat
  OBVIOUS
<1>3. k \in 2 .. n
  BY <1>2
<1>4. Parent(k) \in 1 .. n /\ Parent(k) < k
  BY <1>3 DEF Parent
<1>5. d[h[Parent(k)]] <= d[h[k]]
  BY <1>3 DEF IsHeap
<1>6. Parent(k) \notin B
  BY <1>1, <1>4
<1>7. d[h[1]] <= d[h[Parent(k)]]
  BY <1>4, <1>6
<1>8. ~(d[h[1]] <= d[h[k]]) /\ 1 \in 1 .. n /\ k \in 1 .. n
  OBVIOUS
<1> HIDE DEF B
<1> QED  BY <1>2, <1>4, <1>5, <1>7, <1>8

\* g is h without its root.
Shortens(g, h, n, S) ==
  /\ g \in [1 .. n - 1 -> S]
  /\ \A k \in 1 .. n - 1 : \E m \in 2 .. n : g[k] = h[m]
  /\ \A m \in 2 .. n : \E k \in 1 .. n - 1 : g[k] = h[m]
  /\ IsInjective(h) => IsInjective(g)

\* minheap_pop keeps the other nodes, in order.
LEMMA PoppedCorrect ==
  ASSUME NEW n \in Nat, n >= 1, NEW S, NEW h \in [1 .. n -> S], NEW d \in [S -> Nat], IsHeap(h, d, n)
  PROVE  Shortens(Popped(h, d), h, n, S) /\ IsHeap(Popped(h, d), d, n - 1)
<1>1. Len(h) = n
  BY HeapLen
<1>2. CASE n = 1
  <2>1. Popped(h, d) = <<>>
    BY <1>1, <1>2 DEF Popped
  <2>2. \A k \in 1 .. n - 1 : FALSE
    BY <1>2
  <2>3. \A k \in 2 .. n : FALSE
    BY <1>2
  <2>4. <<>> \in [1 .. n - 1 -> S]
    BY <1>2
  <2>5. IsInjective(<<>>)
    BY DEF IsInjective
  <2>6. \A k \in 2 .. n - 1 : FALSE
    BY <1>2
  <2> QED  BY <2>1, <2>2, <2>3, <2>4, <2>5, <2>6 DEF Shortens, IsHeap
<1>3. CASE n # 1
  <2> PICK g : g = [SubSeq(h, 1, n - 1) EXCEPT ![1] = h[n]]
    OBVIOUS
  <2> PICK l \in Nat : l = n - 1
    OBVIOUS
  <2>1. /\ g \in [1 .. l -> S] /\ g[1] = h[n]
        /\ \A k \in 2 .. l : g[k] = h[k]
    <3> DEFINE u == SubSeq(h, 1, n - 1)
    <3>1. u = [k \in 1 .. l |-> h[k]]
      <4>1. h \in Seq(S)
        BY HeapLen
      <4>2. SubSeq(h, 1, l) = [k \in 1 .. l - 1 + 1 |-> h[k + 1 - 1]]
        BY <1>1, <4>1
      <4>3. \A k \in 1 .. l : k + 1 - 1 = k
        OBVIOUS
      <4> QED  BY <4>2, <4>3
    <3>2. h[n] \in S /\ 1 \in 1 .. l /\ \A k \in 1 .. l : h[k] \in S
      BY <1>3
    <3>3. g = [u EXCEPT ![1] = h[n]]
      OBVIOUS
    <3> HIDE DEF u
    <3>4. g = [k \in 1 .. l |-> IF k = 1 THEN h[n] ELSE h[k]]
      BY <3>1, <3>2, <3>3
    <3>5. g[1] = h[n]
      BY <3>2, <3>4
    <3>6. ASSUME NEW k \in 2 .. l PROVE g[k] = h[k]
      <4>1. k \in 1 .. l /\ k # 1
        OBVIOUS
      <4> QED  BY <3>4, <4>1
    <3>7. g \in [1 .. l -> S]
      <4>1. \A k \in 1 .. l : (IF k = 1 THEN h[n] ELSE h[k]) \in S
        BY <3>2
      <4> QED  BY <3>4, <4>1
    <3> QED  BY <3>5, <3>6, <3>7
  <2>2. HeapFrom(g, d, l, 1 + 1)
    <3> SUFFICES ASSUME NEW j \in 2 .. l, Parent(j) >= 2 PROVE d[g[Parent(j)]] <= d[g[j]]
      BY DEF HeapFrom
    <3>1. Parent(j) \in 2 .. l /\ j \in 2 .. n
      BY DEF Parent
    <3>2. d[h[Parent(j)]] <= d[h[j]]
      BY <3>1 DEF IsHeap
    <3> QED  BY <2>1, <3>1, <3>2
  <2> PICK f : f = Heapify(g, d, 1)
    OBVIOUS
  <2>3. Rearranges(f, g, l, S) /\ HeapFrom(f, d, l, 1)
    <3>1. 1 \in 1 .. l
      BY <1>3
    <3> QED  BY <2>1, <2>2, <3>1, HeapifyCorrect
  <2>4. Popped(h, d) = f
    BY <1>1, <1>3 DEF Popped
  <2>5. IsHeap(f, d, l)
    BY <2>3, WholeHeap
  <2>6. \A k \in 1 .. l : \E m \in 2 .. n : g[k] = h[m]
    <3> TAKE k \in 1 .. l
    <3>1. CASE k = 1
      BY <1>3, <2>1, <3>1
    <3>2. CASE k # 1
      BY <2>1, <3>2
    <3> QED  BY <3>1, <3>2
  <2>7. \A m \in 2 .. n : \E k \in 1 .. l : g[k] = h[m]
    <3> TAKE m \in 2 .. n
    <3>1. CASE m = n
      BY <1>3, <2>1, <3>1
    <3>2. CASE m # n
      BY <2>1, <3>2
    <3> QED  BY <3>1, <3>2
  <2>8. ASSUME IsInjective(h) PROVE IsInjective(g)
    <3>1. DOMAIN g = 1 .. l /\ DOMAIN h = 1 .. n
      BY <2>1
    <3>2. ASSUME NEW i \in 1 .. l, NEW j \in 1 .. l, g[i] = g[j] PROVE i = j
      <4> DEFINE p(k) == IF k = 1 THEN n ELSE k
      <4>1. \A k \in 1 .. l : p(k) \in 1 .. n /\ g[k] = h[p(k)]
        BY <2>1
      <4>2. p(i) = p(j)
        BY <2>8, <3>1, <3>2, <4>1 DEF IsInjective
      <4> QED  BY <4>2
    <3> QED  BY <3>1, <3>2 DEF IsInjective
  <2>9. Shortens(f, h, n, S)
    <3>1. f \in [1 .. l -> S]
      BY <2>3 DEF Rearranges
    <3>2. ASSUME NEW k \in 1 .. l PROVE \E m \in 2 .. n : f[k] = h[m]
      <4>1. PICK j \in 1 .. l : f[k] = g[j]
        BY <2>3 DEF Rearranges
      <4> QED  BY <2>6, <4>1
    <3>3. ASSUME NEW m \in 2 .. n PROVE \E k \in 1 .. l : f[k] = h[m]
      <4>1. PICK j \in 1 .. l : g[j] = h[m]
        BY <2>7
      <4>2. PICK k \in 1 .. l : g[j] = f[k]
        BY <2>3 DEF Rearranges
      <4> QED  BY <4>1, <4>2
    <3>4. IsInjective(h) => IsInjective(f)
      BY <2>3, <2>8 DEF Rearranges
    <3> QED  BY <3>1, <3>2, <3>3, <3>4 DEF Shortens
  <2> QED  BY <2>4, <2>5, <2>9
<1> QED  BY <1>2, <1>3

-----------------------------------------------------------------------------
(***************************************************************************)
(* minheap_insert.                                                         *)
(***************************************************************************)
\* On the way up, at place i: only i may be nearer than its parent, which is
\* no farther than the children of i.
UpBut(h, d, n, i) == \A j \in 2 .. n : j # i => d[h[Parent(j)]] <= d[h[j]]
UpBridged(h, d, n, i) ==
  i >= 2 => \A j \in 2 .. n : Parent(j) = i => d[h[Parent(i)]] <= d[h[j]]
Up(h, d, n, i) == UpBut(h, d, n, i) /\ UpBridged(h, d, n, i)

\* Swapping i with its parent, which is farther.
LEMMA SwapUp ==
  ASSUME NEW n \in Nat, NEW S, NEW h \in [1 .. n -> S], NEW d \in [S -> Nat],
         NEW i \in 2 .. n, Up(h, d, n, i), NEW s, s = Parent(i), d[h[s]] > d[h[i]],
         NEW g, g = Swap(h, i, s)
  PROVE  Rearranges(g, h, n, S) /\ Up(g, d, n, s)
<1>1. \A j \in 2 .. n : j \in 1 .. n /\ Parent(j) \in 1 .. n /\ Parent(j) < j
  BY DEF Parent
<1>2. s \in 1 .. n /\ i \in 1 .. n /\ s < i
  BY <1>1
<1>3. /\ Rearranges(g, h, n, S) /\ g[i] = h[s] /\ g[s] = h[i]
      /\ \A k \in 1 .. n : k # i /\ k # s => g[k] = h[k]
  <2>1. Swapped(g, h, i, s, n, S)
    BY <1>2, SwapRearranges
  <2> QED  BY <2>1 DEF Swapped
<1>4. \A k \in 1 .. n : d[h[k]] \in Nat
  OBVIOUS
<1>5. ASSUME NEW j \in 2 .. n, j # s PROVE d[g[Parent(j)]] <= d[g[j]]
  <2>1. CASE j = i
    BY <1>2, <1>3, <1>4, <2>1
  <2>2. CASE j # i /\ Parent(j) = i
    <3>1. d[h[s]] <= d[h[j]]
      BY <2>2 DEF Up, UpBridged
    <3> QED  BY <1>1, <1>3, <1>5, <2>2, <3>1
  <2>3. CASE j # i /\ Parent(j) = s
    <3>1. d[h[s]] <= d[h[j]]
      BY <2>3 DEF Up, UpBut
    <3>2. g[Parent(j)] = h[i] /\ g[j] = h[j]
      BY <1>1, <1>3, <1>5, <2>3
    <3>3. j \in 1 .. n
      OBVIOUS
    <3> QED  BY <1>2, <1>4, <3>1, <3>2, <3>3
  <2>4. CASE j # i /\ Parent(j) # i /\ Parent(j) # s
    <3>1. d[h[Parent(j)]] <= d[h[j]]
      BY <2>4 DEF Up, UpBut
    <3> QED  BY <1>1, <1>3, <1>5, <2>4, <3>1
  <2> QED  BY <2>1, <2>2, <2>3, <2>4
<1>6. ASSUME s >= 2, NEW j \in 2 .. n, Parent(j) = s PROVE d[g[Parent(s)]] <= d[g[j]]
  <2>1. s \in 2 .. n /\ s # i /\ Parent(s) \in 1 .. n /\ Parent(s) # s /\ Parent(s) # i
    BY <1>1, <1>2, <1>6
  <2>2. d[h[Parent(s)]] <= d[h[s]]
    BY <2>1 DEF Up, UpBut
  <2>3. g[Parent(s)] = h[Parent(s)]
    BY <1>3, <2>1
  <2>4. CASE j = i
    BY <1>3, <2>2, <2>3, <2>4
  <2>5. CASE j # i
    <3>1. d[h[s]] <= d[h[j]]
      BY <1>6, <2>5 DEF Up, UpBut
    <3>2. j # s /\ j \in 1 .. n
      BY <1>1, <1>6
    <3>3. g[j] = h[j]
      BY <1>3, <2>5, <3>2
    <3> QED  BY <1>2, <1>4, <2>1, <2>2, <2>3, <3>1, <3>2, <3>3
  <2> QED  BY <2>4, <2>5
<1>7. Up(g, d, n, s)
  BY <1>5, <1>6 DEF Up, UpBut, UpBridged
<1> QED  BY <1>3, <1>7

\* One round of the loop of minheap_insert.
Raised(q, p, d, n, S) ==
  /\ q \in Places(n, S) /\ Rearranges(q.h, p.h, n, S)
  /\ Up(p.h, d, n, p.i) => /\ Up(q.h, d, n, q.i)
                           /\ IsHeap(q.h, d, n) \/ (q.i < p.i /\ ~IsHeap(p.h, d, n))

\* A round swaps the place with a farther parent, or changes nothing.
LEMMA SiftUpRaises ==
  ASSUME NEW n \in Nat, NEW S, NEW d \in [S -> Nat], NEW p \in Places(n, S), NEW q, q = SiftUp(p, d)
  PROVE  Raised(q, p, d, n, S)
<1> PICK h, i : h = p.h /\ i = p.i
  OBVIOUS
<1>1. h \in [1 .. n -> S] /\ i \in 1 .. n
  BY DEF Places
<1> PICK s : s = Parent(i)
  OBVIOUS
<1>2. i >= 2 => s \in 1 .. n /\ s < i
  BY <1>1 DEF Parent
<1>3. CASE i > 1 /\ d[h[s]] > d[h[i]]
  <2>1. i \in 2 .. n
    BY <1>1, <1>3
  <2> PICK g : g = Swap(h, i, s)
    OBVIOUS
  <2>2. q = [h |-> g, i |-> s]
    BY <1>3 DEF SiftUp
  <2>3. Rearranges(g, h, n, S)
    <3>1. Swapped(g, h, i, s, n, S)
      BY <1>1, <1>2, <2>1, SwapRearranges
    <3> QED  BY <3>1 DEF Swapped
  <2>4. Up(h, d, n, i) => Up(g, d, n, s)
    BY <1>1, <1>3, <2>1, SwapUp
  <2>5. ~IsHeap(h, d, n)
    BY <1>1, <1>2, <1>3, <2>1 DEF IsHeap
  <2>6. g \in [1 .. n -> S]
    BY <2>3 DEF Rearranges
  <2>7. q \in Places(n, S) /\ q.h = g /\ q.i = s /\ s < i
    BY <1>2, <2>1, <2>2, <2>6 DEF Places
  <2> QED  BY <2>3, <2>4, <2>5, <2>7 DEF Raised
<1>4. CASE ~(i > 1 /\ d[h[s]] > d[h[i]])
  <2>1. q = p
    BY <1>4 DEF SiftUp
  <2>2. Rearranges(h, h, n, S)
    BY <1>1, RearrangesSame
  <2>3. ASSUME Up(h, d, n, i) PROVE IsHeap(h, d, n)
    <3> SUFFICES ASSUME NEW j \in 2 .. n PROVE d[h[Parent(j)]] <= d[h[j]]
      BY DEF IsHeap
    <3>1. CASE j = i
      BY <1>1, <1>2, <1>4, <3>1
    <3>2. CASE j # i
      BY <2>3, <3>2 DEF Up, UpBut
    <3> QED  BY <3>1, <3>2
  <2> QED  BY <2>1, <2>2, <2>3 DEF Raised
<1> QED  BY <1>3, <1>4

\* The heap with a node behind its last one.
Longer(a, h, x, m, n, S) == a \in [1 .. n -> S] /\ a[n] = x /\ \A k \in 1 .. m : a[k] = h[k]

\* Append makes it so.
LEMMA AppendLonger ==
  ASSUME NEW m \in Nat, NEW n \in Nat, n = m + 1, NEW S, NEW h \in [1 .. m -> S], NEW x \in S
  PROVE  Longer(Append(h, x), h, x, m, n, S)
<1>1. Len(h) = m /\ h \in Seq(S)
  BY HeapLen
<1>2. Append(h, x) \in Seq(S) /\ Len(Append(h, x)) = n
  BY <1>1
<1>3. Append(h, x) \in [1 .. n -> S]
  <2> PICK a : a = Append(h, x)
    OBVIOUS
  <2>1. a \in Seq(S) /\ Len(a) = n
    BY <1>2
  <2>2. a \in [1 .. Len(a) -> S]
    BY <2>1, SeqHeap
  <2> QED  BY <2>1, <2>2
<1>4. Append(h, x)[n] = x /\ \A k \in 1 .. m : Append(h, x)[k] = h[k]
  BY <1>1
<1> QED  BY <1>3, <1>4 DEF Longer

\* The table of the loop.
Rises(t, h, d, x, n) ==
  /\ t[0] = [h |-> Append(h, x), i |-> n]
  /\ \A k \in 1 .. n : t[k] = SiftUp(t[k - 1], d)
  /\ Insert(h, d, x) = t[n].h

\* The loop of minheap_insert has a table.
LEMMA InsertLoop ==
  ASSUME NEW m \in Nat, NEW n \in Nat, n = m + 1, NEW S, NEW h \in [1 .. m -> S], NEW d \in [S -> Nat],
         NEW x \in S
  PROVE  \E t \in [0 .. n -> Places(n, S)] : Rises(t, h, d, x, n)
<1> DEFINE F == [q \in (1 .. n) \X Places(n, S) |-> SiftUp(q[2], d)]
           p == [h |-> Append(h, x), i |-> n]
           Table(t) == t = [k \in 0 .. n |-> IF k = 0 THEN p ELSE SiftUp(t[k - 1], d)]
           up == CHOOSE t : Table(t)
<1>1. \A q \in Places(n, S) : SiftUp(q, d) \in Places(n, S)
  BY SiftUpRaises DEF Raised
<1>2. F \in [(1 .. n) \X Places(n, S) -> Places(n, S)]
  BY <1>1
<1>3. p \in Places(n, S)
  <2>1. Append(h, x) \in [1 .. n -> S]
    BY AppendLonger DEF Longer
  <2> QED  BY <2>1 DEF Places
<1>4. PICK t \in [0 .. n -> Places(n, S)] : IsTable(t, n, p, F)
  <2> HIDE DEF F, p
  <2> QED  BY <1>2, <1>3, LoopExists
<1>5. Table(t)
  <2>1. ASSUME NEW k \in 1 .. n PROVE F[<<k, t[k - 1]>>] = SiftUp(t[k - 1], d)
    <3>1. k - 1 \in 0 .. n
      OBVIOUS
    <3> QED  BY <1>4, <3>1
  <2> HIDE DEF F, p
  <2>2. \A k \in 0 .. n : k = 0 \/ k \in 1 .. n
    OBVIOUS
  <2>3. \A k \in 0 .. n : (IF k = 0 THEN p ELSE F[<<k, t[k - 1]>>]) = (IF k = 0 THEN p ELSE SiftUp(t[k - 1], d))
    BY <2>1, <2>2
  <2> QED  BY <1>4, <2>3 DEF IsTable
<1>6. Table(up)
  <2> HIDE DEF Table
  <2> QED  BY <1>5
<1>7. Insert(h, d, x) = up[n].h
  <2>1. Len(h) + 1 = n
    BY HeapLen
  <2> QED  BY <2>1 DEF Insert
<1> HIDE DEF up, F
<1>8. up = [k \in 0 .. n |-> IF k = 0 THEN p ELSE SiftUp(up[k - 1], d)]
  BY <1>6
<1> HIDE DEF p
<1>9. up[0] = p
  BY <1>8
<1>10. ASSUME NEW k \in 1 .. n PROVE up[k] = SiftUp(up[k - 1], d)
  BY <1>8
<1>11. \A k \in 0 .. n : up[k] \in Places(n, S)
  <2> DEFINE I == [k \in 0 .. n |-> Places(n, S)]
  <2>1. up[0] \in I[0]
    BY <1>3, <1>9
  <2>2. ASSUME NEW k \in 1 .. n, up[k - 1] \in I[k - 1] PROVE up[k] \in I[k]
    <3>1. k - 1 \in 0 .. n /\ k \in 0 .. n
      OBVIOUS
    <3> QED  BY <1>1, <1>10, <2>2, <3>1
  <2> HIDE DEF I
  <2>3. \A k \in 0 .. n : up[k] \in I[k]
    <3>1. Keeps(up, I, n)
      BY <2>1, <2>2 DEF Keeps
    <3> QED  BY <3>1, LoopInvariant
  <2> QED  BY <2>3 DEF I
<1>12. up \in [0 .. n -> Places(n, S)]
  BY <1>8, <1>11
<1> QED  BY <1>7, <1>9, <1>10, <1>12 DEF Rises, p

\* minheap_insert adds the node and keeps the heap in order.
LEMMA InsertCorrect ==
  ASSUME NEW m \in Nat, NEW n \in Nat, n = m + 1, NEW S, NEW h \in [1 .. m -> S], NEW d \in [S -> Nat],
         NEW x \in S, IsHeap(h, d, m)
  PROVE  Rearranges(Insert(h, d, x), Append(h, x), n, S) /\ IsHeap(Insert(h, d, x), d, n)
<1>0. PICK t \in [0 .. n -> Places(n, S)] : Rises(t, h, d, x, n)
  BY InsertLoop
<1> PICK a : a = Append(h, x)
  OBVIOUS
<1>1. /\ t[0] = [h |-> a, i |-> n]
      /\ \A k \in 1 .. n : t[k] = SiftUp(t[k - 1], d)
      /\ Insert(h, d, x) = t[n].h
  BY <1>0 DEF Rises
<1>2. a \in [1 .. n -> S] /\ \A k \in 1 .. m : a[k] = h[k]
  <2>1. Longer(a, h, x, m, n, S)
    BY AppendLonger
  <2> QED  BY <2>1 DEF Longer
<1> DEFINE Rose(p, k) == /\ Rearranges(p.h, a, n, S) /\ Up(p.h, d, n, p.i)
                         /\ IsHeap(p.h, d, n) \/ p.i <= n - k
           I == [k \in 0 .. n |-> {p \in Places(n, S) : Rose(p, k)}]
<1>3. t[0] \in I[0]
  <2>1. Rearranges(a, a, n, S)
    BY <1>2, RearrangesSame
  <2>2. UpBut(a, d, n, n)
    <3> SUFFICES ASSUME NEW j \in 2 .. n, j # n PROVE d[a[Parent(j)]] <= d[a[j]]
      BY DEF UpBut
    <3>1. j \in 2 .. m /\ j \in 1 .. m /\ Parent(j) \in 1 .. m
      BY DEF Parent
    <3>2. d[h[Parent(j)]] <= d[h[j]]
      BY <3>1 DEF IsHeap
    <3> QED  BY <1>2, <3>1, <3>2
  <2>3. UpBridged(a, d, n, n)
    <3>1. \A j \in 2 .. n : Parent(j) # n
      BY DEF Parent
    <3> QED  BY <3>1 DEF UpBridged
  <2>4. [h |-> a, i |-> n] \in Places(n, S)
    BY <1>2 DEF Places
  <2> PICK p : p = [h |-> a, i |-> n]
    OBVIOUS
  <2>5. p.h = a /\ p.i = n /\ p \in Places(n, S) /\ t[0] = p
    BY <1>1, <2>4
  <2>6. Rose(p, 0)
    BY <2>1, <2>2, <2>3, <2>5 DEF Up
  <2> HIDE DEF Rose
  <2> QED  BY <2>5, <2>6
<1>4. ASSUME NEW k \in 1 .. n, t[k - 1] \in I[k - 1] PROVE t[k] \in I[k]
  <2>1. k - 1 \in 0 .. n /\ k \in 0 .. n
    OBVIOUS
  <2>2. PICK p \in Places(n, S) : p = t[k - 1] /\ Rose(p, k - 1)
    BY <1>4, <2>1
  <2> PICK q : q = SiftUp(p, d)
    OBVIOUS
  <2>3. Raised(q, p, d, n, S)
    BY SiftUpRaises
  <2>4. t[k] = q
    BY <1>1, <2>2
  <2>5. /\ q \in Places(n, S) /\ Rearranges(q.h, p.h, n, S) /\ Up(q.h, d, n, q.i)
        /\ IsHeap(q.h, d, n) \/ (q.i < p.i /\ ~IsHeap(p.h, d, n))
    BY <2>2, <2>3 DEF Raised
  <2> PICK f, g : f = q.h /\ g = p.h
    OBVIOUS
  <2>6. Rearranges(f, a, n, S)
    BY <2>2, <2>5, RearrangesAgain
  <2>7. IsHeap(q.h, d, n) \/ q.i <= n - k
    <3>1. p.i \in Nat /\ q.i \in Nat
      <4>1. \A r \in Places(n, S) : r.i \in Nat
        BY DEF Places
      <4> QED  BY <2>5, <4>1
    <3> QED  BY <2>2, <2>5, <3>1
  <2> QED  BY <2>1, <2>4, <2>5, <2>6, <2>7
<1>5. t[n] \in I[n]
  <2> HIDE DEF I
  <2>1. \A k \in 0 .. n : t[k] \in I[k]
    <3>1. Keeps(t, I, n)
      BY <1>3, <1>4 DEF Keeps
    <3> QED  BY <3>1, LoopInvariant
  <2>2. n \in 0 .. n
    OBVIOUS
  <2> QED  BY <2>1, <2>2, Zenon
<1>6. Rose(t[n], n) /\ t[n] \in Places(n, S)
  BY <1>5
<1>7. IsHeap(t[n].h, d, n)
  BY <1>6 DEF Places
<1> QED  BY <1>1, <1>6, <1>7

-----------------------------------------------------------------------------
(***************************************************************************)
(* heap_init.                                                              *)
(***************************************************************************)
\* g holds the SEEN nodes up to x, once each and in order.
Filled(g, x) ==
  /\ g \in Seq(Id) /\ Len(g) <= x /\ IsInjective(g) /\ IsHeap(g, tent_dist, Len(g))
  /\ \A i \in DOMAIN g : IsSeen(g[i]) /\ g[i] <= x
  /\ \A y \in 1 .. x : IsSeen(y) => \E i \in DOMAIN g : g[i] = y

\* minheap_insert yields a heap.
LEMMA InsertType ==
  ASSUME NEW m \in Nat, NEW n \in Nat, n = m + 1, NEW S, NEW h \in [1 .. m -> S], NEW d \in [S -> Nat],
         NEW x \in S
  PROVE  Insert(h, d, x) \in Seq(S)
<1>1. PICK t \in [0 .. n -> Places(n, S)] : Rises(t, h, d, x, n)
  BY InsertLoop
<1>2. Insert(h, d, x) = t[n].h
  BY <1>1 DEF Rises
<1>3. t[n] \in Places(n, S)
  OBVIOUS
<1> PICK f : f = t[n].h
  OBVIOUS
<1>4. f \in [1 .. n -> S]
  BY <1>3 DEF Places
<1>5. f \in Seq(S)
  BY <1>4, HeapLen
<1> QED  BY <1>2, <1>5

\* A round of heap_init for a SEEN node.
LEMMA InsertFills ==
  ASSUME tent_dist \in [Id -> Nat], NEW x \in Id, IsSeen(x), NEW g, Filled(g, x - 1),
         NEW f, f = Insert(g, tent_dist, x)
  PROVE  Filled(f, x)
<1> PICK m \in Nat : m = Len(g)
  BY SeqHeap DEF Filled
<1> PICK n \in Nat : n = m + 1
  OBVIOUS
<1> PICK a : a = Append(g, x)
  OBVIOUS
<1>1. /\ g \in [1 .. m -> Id] /\ DOMAIN g = 1 .. m /\ IsHeap(g, tent_dist, m) /\ m <= x - 1
      /\ IsInjective(g)
  <2>1. g \in Seq(Id) /\ IsHeap(g, tent_dist, m) /\ m <= x - 1 /\ IsInjective(g)
    BY DEF Filled
  <2>2. g \in [1 .. m -> Id]
    BY <2>1, SeqHeap
  <2> QED  BY <2>1, <2>2
<1>2. Rearranges(f, a, n, Id) /\ IsHeap(f, tent_dist, n)
  BY <1>1, InsertCorrect
<1>3. a \in [1 .. n -> Id] /\ a[n] = x /\ \A k \in 1 .. m : a[k] = g[k]
  <2>1. Longer(a, g, x, m, n, Id)
    BY <1>1, AppendLonger
  <2> QED  BY <2>1 DEF Longer
<1>4. /\ f \in [1 .. n -> Id] /\ DOMAIN f = 1 .. n /\ Len(f) = n /\ f \in Seq(Id)
  <2>1. f \in [1 .. n -> Id]
    BY <1>2 DEF Rearranges
  <2> QED  BY <2>1, HeapLen
<1>5. x \in Nat /\ \A k \in 1 .. n : k = n \/ k \in 1 .. m
  BY PathAssumption DEF Id
<1>6. \A i \in 1 .. m : IsSeen(g[i]) /\ g[i] <= x - 1 /\ g[i] \in Nat /\ g[i] # x
  <2>1. \A i \in 1 .. m : IsSeen(g[i]) /\ g[i] <= x - 1
    BY <1>1 DEF Filled
  <2>2. \A i \in 1 .. m : g[i] \in Nat
    <3>1. \A y \in Id : y \in Nat
      BY PathAssumption DEF Id
    <3> QED  BY <1>1, <3>1
  <2> QED  BY <1>5, <2>1, <2>2
<1>7. IsInjective(a)
  BY <1>1, <1>3, <1>5, <1>6 DEF IsInjective
<1>8. \A k \in 1 .. n : IsSeen(a[k]) /\ a[k] <= x
  BY <1>3, <1>5, <1>6
<1>9. \A i \in 1 .. n : IsSeen(f[i]) /\ f[i] <= x
  <2> TAKE i \in 1 .. n
  <2>1. PICK k \in 1 .. n : f[i] = a[k]
    BY <1>2 DEF Rearranges
  <2> QED  BY <1>8, <2>1
<1>10. ASSUME NEW y \in 1 .. x, IsSeen(y) PROVE \E i \in 1 .. n : f[i] = y
  <2>1. \E k \in 1 .. n : a[k] = y
    <3>1. CASE y = x
      BY <1>3, <3>1
    <3>2. CASE y # x
      <4>1. y \in 1 .. x - 1
        BY <1>5, <3>2
      <4>2. PICK i \in 1 .. m : g[i] = y
        BY <1>1, <1>10, <4>1 DEF Filled
      <4> QED  BY <1>3, <4>2
    <3> QED  BY <3>1, <3>2
  <2>2. PICK k \in 1 .. n : a[k] = y
    BY <2>1
  <2>3. PICK i \in 1 .. n : a[k] = f[i]
    BY <1>2 DEF Rearranges
  <2> QED  BY <2>2, <2>3
<1>11. IsInjective(f)
  BY <1>2, <1>7 DEF Rearranges
<1>12. n <= x
  BY <1>1, <1>5
<1> QED  BY <1>2, <1>4, <1>9, <1>10, <1>11, <1>12 DEF Filled

\* A round of heap_init for another node.
LEMMA SkipFills ==
  ASSUME NEW x \in Id, ~IsSeen(x), NEW g, Filled(g, x - 1)
  PROVE  Filled(g, x)
<1>1. x \in Nat /\ \A y \in 1 .. x : y = x \/ y \in 1 .. x - 1
  BY PathAssumption DEF Id
<1>2. /\ g \in Seq(Id) /\ Len(g) <= x - 1 /\ IsInjective(g) /\ IsHeap(g, tent_dist, Len(g))
      /\ \A i \in DOMAIN g : IsSeen(g[i]) /\ g[i] <= x - 1
      /\ \A y \in 1 .. x - 1 : IsSeen(y) => \E i \in DOMAIN g : g[i] = y
  BY DEF Filled
<1>3. Len(g) \in Nat /\ g \in [1 .. Len(g) -> Id]
  BY <1>2, SeqHeap
<1>4. \A i \in DOMAIN g : g[i] \in Nat
  BY <1>3, PathAssumption DEF Id
<1>5. Len(g) <= x
  BY <1>1, <1>2, <1>3
<1>6. \A i \in DOMAIN g : g[i] <= x
  BY <1>1, <1>2, <1>4
<1>7. \A y \in 1 .. x : IsSeen(y) => \E i \in DOMAIN g : g[i] = y
  BY <1>1, <1>2
<1> QED  BY <1>2, <1>5, <1>6, <1>7 DEF Filled

\* heap_init puts every SEEN node into the heap.
LEMMA HeapInitFills ==
  ASSUME tent_dist \in [Id -> Nat]
  PROVE  Filled(HeapInit, MAX_NODE_NUM)
<1> PICK n \in Nat : n = MAX_NODE_NUM
  BY PathAssumption
<1> DEFINE Step(x, g) == IF IsSeen(x) THEN Insert(g, tent_dist, x) ELSE g
           H == Seq(Id)
           F == [q \in (1 .. n) \X H |-> Step(q[1], q[2])]
           Table(t) == t = [x \in 0 .. n |-> IF x = 0 THEN <<>> ELSE Step(x, t[x - 1])]
           inserted == CHOOSE t : Table(t)
<1>1. \A x \in 1 .. n : x \in Id
  BY DEF Id
<1>2. ASSUME NEW x \in 1 .. n, NEW g \in H PROVE Step(x, g) \in H
  <2>1. PICK m \in Nat : m = Len(g)
    OBVIOUS
  <2>2. PICK l \in Nat : l = m + 1
    OBVIOUS
  <2>3. g \in [1 .. m -> Id] /\ x \in Id
    BY <1>1, <2>1, SeqHeap
  <2>4. Insert(g, tent_dist, x) \in Seq(Id)
    BY <2>2, <2>3, InsertType
  <2> QED  BY <2>4
<1>3. F \in [(1 .. n) \X H -> H]
  <2> HIDE DEF H, Step
  <2>1. \A q \in (1 .. n) \X H : Step(q[1], q[2]) \in H
    BY <1>2
  <2> QED  BY <2>1
<1>4. PICK t \in [0 .. n -> H] : IsTable(t, n, <<>>, F)
  <2>1. <<>> \in H
    OBVIOUS
  <2> HIDE DEF F, H
  <2> QED  BY <1>3, <2>1, LoopExists
<1>5. Table(t)
  <2>1. ASSUME NEW x \in 1 .. n PROVE F[<<x, t[x - 1]>>] = Step(x, t[x - 1])
    <3>1. t[x - 1] \in H
      <4> HIDE DEF H
      <4> QED  BY <1>4
    <3> HIDE DEF H, Step
    <3> QED  BY <3>1
  <2> HIDE DEF F, H, Step
  <2>2. \A x \in 0 .. n : x = 0 \/ x \in 1 .. n
    OBVIOUS
  <2>3. \A x \in 0 .. n : (IF x = 0 THEN <<>> ELSE F[<<x, t[x - 1]>>]) = (IF x = 0 THEN <<>> ELSE Step(x, t[x - 1]))
    BY <2>1, <2>2
  <2> QED  BY <1>4, <2>3 DEF IsTable
<1>6. Table(inserted)
  <2> HIDE DEF Table
  <2> QED  BY <1>5
<1>7. HeapInit = inserted[n]
  BY DEF HeapInit
<1> HIDE DEF inserted, F, H, Step
<1>8. inserted = [x \in 0 .. n |-> IF x = 0 THEN <<>> ELSE Step(x, inserted[x - 1])]
  BY <1>6
<1>9. inserted[0] = <<>>
  BY <1>8
<1>10. ASSUME NEW x \in 1 .. n PROVE inserted[x] = Step(x, inserted[x - 1])
  BY <1>8
<1>11. Filled(inserted[0], 0)
  BY <1>9 DEF Filled, IsInjective, IsHeap
<1>12. ASSUME NEW x \in 1 .. n, Filled(inserted[x - 1], x - 1) PROVE Filled(inserted[x], x)
  <2> PICK g, f : g = inserted[x - 1] /\ f = inserted[x]
    OBVIOUS
  <2>1. CASE IsSeen(x)
    <3>1. f = Insert(g, tent_dist, x)
      BY <1>10, <2>1 DEF Step
    <3> QED  BY <1>1, <1>12, <2>1, <3>1, InsertFills
  <2>2. CASE ~IsSeen(x)
    <3>1. f = g
      BY <1>10, <2>2 DEF Step
    <3> QED  BY <1>1, <1>12, <2>2, <3>1, SkipFills
  <2> QED  BY <2>1, <2>2
<1> DEFINE M == {m \in Nat : m <= n => Filled(inserted[m], m)}
<1>13. 0 \in M
  BY <1>11
<1>14. ASSUME NEW m \in Nat, m \in M PROVE m + 1 \in M
  <2> SUFFICES ASSUME m + 1 <= n PROVE Filled(inserted[m + 1], m + 1)
    OBVIOUS
  <2>1. m + 1 \in 1 .. n /\ (m + 1) - 1 = m /\ Filled(inserted[m], m)
    BY <1>14
  <2> QED  BY <1>12, <2>1
<1>15. n \in M
  <2> HIDE DEF M
  <2>1. Nat \subseteq M
    BY <1>13, <1>14, SetInduction
  <2> QED  BY <2>1
<1> QED  BY <1>7, <1>15

-----------------------------------------------------------------------------
(***************************************************************************)
(* The least costs.                                                        *)
(***************************************************************************)
LEMMA Numbers == Infinity \in Nat /\ Infinity > 0 /\ NoNode \notin Id /\ Id \subseteq Nat
BY PathAssumption DEF Infinity, NoNode, Id

\* The links of a node of the graph.
GoodLink(l) == l.to \in Id /\ l.metric \in Nat
GoodLinks(x) == /\ Len(Links(x)) \in Nat /\ Len(Links(x)) <= MAX_NODE_NUM
                /\ DOMAIN Links(x) = 1 .. Len(Links(x))
                /\ \A k \in DOMAIN Links(x) : GoodLink(Links(x)[k])

\* The links of a graph are good.
LEMMA GraphLinks ==
  ASSUME IsGraph(graph), NEW x \in Id
  PROVE  GoodLinks(x)
<1> DEFINE L == [to : Id, status : {"UP", "DOWN"}, metric : Nat]
<1> PICK s : s = Links(x)
  OBVIOUS
<1>1. MAX_NODE_NUM \in Nat
  BY PathAssumption
<1>2. s \in Seq(L) /\ Len(s) <= MAX_NODE_NUM
  <2>1. CASE IsSeen(x)
    <3>1. graph \in [Id -> [state : {"SEEN", "OPAQUE", "UNSEEN"}, links : Seq(L)]]
      BY DEF IsGraph
    <3>2. graph[x].links \in Seq(L)
      BY <3>1
    <3>3. Len(graph[x].links) <= MAX_NODE_NUM
      BY DEF IsGraph
    <3> QED  BY <2>1, <3>2, <3>3 DEF Links
  <2>2. CASE ~IsSeen(x)
    <3>1. s = <<>>
      BY <2>2 DEF Links
    <3> QED  BY <1>1, <3>1
  <2> QED  BY <2>1, <2>2
<1>3. Len(s) \in Nat /\ s \in [1 .. Len(s) -> L]
  BY <1>2, SeqHeap
<1>4. \A l \in L : GoodLink(l)
  BY DEF GoodLink
<1> HIDE DEF L
<1>5. DOMAIN s = 1 .. Len(s) /\ \A k \in DOMAIN s : GoodLink(s[k])
  BY <1>3, <1>4
<1> QED  BY <1>2, <1>3, <1>5 DEF GoodLinks

\* The least member of a set of numbers.
LEMMA MinLeast ==
  ASSUME NEW S \in SUBSET Nat, S # {}
  PROVE  Min(S) \in S /\ \A j \in S : Min(S) <= j
BY LeastExists DEF Min

\* The costs of y over one link more.
CostStep(y, c) ==
  Min({c[y]} \cup {Nearer(c[a[1]] + Links(a[1])[a[2]].metric, Infinity) : a \in LinksTo(y)})

\* m is the least of them.
IsCostStep(m, y, c) ==
  /\ m \in 0 .. Infinity /\ m <= c[y]
  /\ \A x \in Id : \A k \in DOMAIN Links(x) :
       Usable(Links(x)[k]) /\ Links(x)[k].to = y => m <= c[x] + Links(x)[k].metric
  /\ \/ m = c[y] \/ m = Infinity
     \/ \E x \in Id : \E k \in DOMAIN Links(x) :
          Usable(Links(x)[k]) /\ Links(x)[k].to = y /\ m = c[x] + Links(x)[k].metric

\* CostStep yields the least of the costs.
LEMMA CostStepCorrect ==
  ASSUME IsGraph(graph), NEW c \in [Id -> 0 .. Infinity], NEW y \in Id
  PROVE  IsCostStep(CostStep(y, c), y, c)
<1> DEFINE Via(a) == c[a[1]] + Links(a[1])[a[2]].metric
           S == {c[y]} \cup {Nearer(Via(a), Infinity) : a \in LinksTo(y)}
<1>1. Infinity \in Nat /\ \A x \in Id : c[x] \in Nat /\ c[x] <= Infinity
  BY Numbers
<1>2. \A a \in LinksTo(y) : /\ a[1] \in Id /\ a[2] \in DOMAIN Links(a[1])
                            /\ Usable(Links(a[1])[a[2]]) /\ Links(a[1])[a[2]].to = y
  BY DEF LinksTo
<1>3. \A a \in LinksTo(y) : Via(a) \in Nat
  <2> TAKE a \in LinksTo(y)
  <2> PICK x, k : x = a[1] /\ k = a[2]
    OBVIOUS
  <2>1. x \in Id /\ k \in DOMAIN Links(x)
    BY <1>2
  <2>2. GoodLink(Links(x)[k])
    BY <2>1, GraphLinks DEF GoodLinks
  <2> QED  BY <1>1, <2>1, <2>2 DEF GoodLink
<1> HIDE DEF Via
<1>4. \A a \in LinksTo(y) : /\ Nearer(Via(a), Infinity) \in 0 .. Infinity
                            /\ Nearer(Via(a), Infinity) <= Via(a)
                            /\ Nearer(Via(a), Infinity) \in {Via(a), Infinity}
  BY <1>1, <1>3 DEF Nearer
<1>5. S \in SUBSET (0 .. Infinity)
  BY <1>1, <1>4
<1>6. CostStep(y, c) = Min(S)
  BY DEF CostStep, Via
<1>7. c[y] \in S /\ \A a \in LinksTo(y) : Nearer(Via(a), Infinity) \in S
  OBVIOUS
<1>8. \A j \in S : j = c[y] \/ \E a \in LinksTo(y) : j = Nearer(Via(a), Infinity)
  OBVIOUS
<1> HIDE DEF S
<1> PICK m : m = CostStep(y, c)
  OBVIOUS
<1>9. m \in S /\ \A j \in S : m <= j
  <2>1. S \in SUBSET Nat /\ S # {}
    BY <1>1, <1>5, <1>7
  <2> QED  BY <1>6, <2>1, MinLeast
<1>10. m \in 0 .. Infinity /\ m <= c[y]
  BY <1>5, <1>7, <1>9
<1>11. ASSUME NEW x \in Id, NEW k \in DOMAIN Links(x), Usable(Links(x)[k]), Links(x)[k].to = y
       PROVE  m <= c[x] + Links(x)[k].metric
  <2> PICK a : a = <<x, k>>
    OBVIOUS
  <2>1. GoodLinks(x)
    BY GraphLinks
  <2>2. k \in 1 .. MAX_NODE_NUM
    BY <2>1, PathAssumption DEF GoodLinks
  <2>3. a \in LinksTo(y)
    BY <1>11, <2>2 DEF LinksTo
  <2>4. Via(a) = c[x] + Links(x)[k].metric
    BY DEF Via
  <2>5. m <= Nearer(Via(a), Infinity) /\ Nearer(Via(a), Infinity) \in Nat
    BY <1>1, <1>4, <1>7, <1>9, <2>3
  <2>6. Nearer(Via(a), Infinity) <= Via(a) /\ Via(a) \in Nat
    BY <1>3, <1>4, <2>3
  <2> HIDE DEF Via
  <2>7. m <= Via(a)
    BY <1>10, <2>5, <2>6
  <2> QED  BY <2>4, <2>7
<1>12. \/ m = c[y] \/ m = Infinity
       \/ \E x \in Id : \E k \in DOMAIN Links(x) :
            Usable(Links(x)[k]) /\ Links(x)[k].to = y /\ m = c[x] + Links(x)[k].metric
  <2>1. CASE m = c[y]
    BY <2>1
  <2>2. CASE m # c[y]
    <3>1. PICK a \in LinksTo(y) : m = Nearer(Via(a), Infinity)
      BY <1>8, <1>9, <2>2
    <3>2. m = Via(a) \/ m = Infinity
      BY <1>4, <3>1
    <3> QED  BY <1>2, <3>2 DEF Via
  <2> QED  BY <2>1, <2>2
<1> QED  BY <1>10, <1>11, <1>12 DEF IsCostStep

\* The rows of the table of costs.
IsCosts(c, x) ==
  /\ c \in [0 .. MAX_NODE_NUM -> [Id -> 0 .. Infinity]]
  /\ \A y \in Id : c[0][y] = IF y = x THEN 0 ELSE Infinity
  /\ \A k \in 1 .. MAX_NODE_NUM : \A y \in Id : IsCostStep(c[k][y], y, c[k - 1])

\* The costs over at most k links have a table.
LEMMA CostsTable ==
  ASSUME IsGraph(graph), NEW x \in Id
  PROVE  IsCosts(Costs(x), x)
<1> PICK n \in Nat : n = MAX_NODE_NUM
  BY PathAssumption
<1> DEFINE C == [Id -> 0 .. Infinity]
           Row(c) == [y \in Id |-> CostStep(y, c)]
           r == [y \in Id |-> IF y = x THEN 0 ELSE Infinity]
           F == [q \in (1 .. n) \X C |-> Row(q[2])]
           Table(t) == t = [k \in 0 .. n |-> IF k = 0 THEN r ELSE Row(t[k - 1])]
           cost == CHOOSE t : Table(t)
<1>1. \A c \in C : Row(c) \in C
  BY CostStepCorrect DEF IsCostStep
<1>2. r \in C
  BY Numbers
<1>3. F \in [(1 .. n) \X C -> C]
  <2> HIDE DEF C, Row
  <2> QED  BY <1>1
<1>4. PICK t \in [0 .. n -> C] : IsTable(t, n, r, F)
  <2> HIDE DEF F, C, r
  <2> QED  BY <1>2, <1>3, LoopExists
<1>5. Table(t)
  <2>1. ASSUME NEW k \in 1 .. n PROVE F[<<k, t[k - 1]>>] = Row(t[k - 1])
    <3>1. t[k - 1] \in C
      <4> HIDE DEF C
      <4> QED  BY <1>4
    <3> HIDE DEF C, Row
    <3> QED  BY <3>1
  <2> HIDE DEF F, C, r, Row
  <2>2. \A k \in 0 .. n : k = 0 \/ k \in 1 .. n
    OBVIOUS
  <2>3. \A k \in 0 .. n : (IF k = 0 THEN r ELSE F[<<k, t[k - 1]>>]) = (IF k = 0 THEN r ELSE Row(t[k - 1]))
    BY <2>1, <2>2
  <2> QED  BY <1>4, <2>3 DEF IsTable
<1>6. Table(cost)
  <2> HIDE DEF Table
  <2> QED  BY <1>5
<1>7. Costs(x) = cost
  BY DEF Costs, CostStep
<1> HIDE DEF cost, F, C, r, Row
<1>8. cost = [k \in 0 .. n |-> IF k = 0 THEN r ELSE Row(cost[k - 1])]
  BY <1>6
<1>9. cost[0] = r
  BY <1>8
<1>10. ASSUME NEW k \in 1 .. n PROVE cost[k] = Row(cost[k - 1])
  BY <1>8
<1>11. \A k \in 0 .. n : cost[k] \in C
  <2> DEFINE I == [k \in 0 .. n |-> C]
  <2>1. cost[0] \in I[0]
    BY <1>2, <1>9
  <2>2. ASSUME NEW k \in 1 .. n, cost[k - 1] \in I[k - 1] PROVE cost[k] \in I[k]
    <3>1. k - 1 \in 0 .. n /\ k \in 0 .. n
      OBVIOUS
    <3> QED  BY <1>1, <1>10, <2>2, <3>1
  <2> HIDE DEF I
  <2>3. \A k \in 0 .. n : cost[k] \in I[k]
    <3>1. Keeps(cost, I, n)
      BY <2>1, <2>2 DEF Keeps
    <3> QED  BY <3>1, LoopInvariant
  <2> QED  BY <2>3 DEF I
<1>12. cost \in [0 .. n -> C]
  BY <1>8, <1>11
<1>13. \A y \in Id : cost[0][y] = IF y = x THEN 0 ELSE Infinity
  BY <1>9 DEF r
<1>14. ASSUME NEW k \in 1 .. n, NEW y \in Id PROVE IsCostStep(cost[k][y], y, cost[k - 1])
  <2> PICK c : c = cost[k - 1]
    OBVIOUS
  <2>1. c \in [Id -> 0 .. Infinity]
    <3>1. k - 1 \in 0 .. n
      OBVIOUS
    <3> QED  BY <1>11, <3>1 DEF C
  <2>2. cost[k][y] = CostStep(y, c)
    BY <1>10 DEF Row
  <2> QED  BY <2>1, <2>2, CostStepCorrect
<1> QED  BY <1>7, <1>12, <1>13, <1>14 DEF IsCosts, C

-----------------------------------------------------------------------------
(***************************************************************************)
(* The loop over the links of a popped node.                               *)
(***************************************************************************)
\* The states of the loop, with n nodes left in the heap.
LoopStates(n) ==
  [d : [Id -> 0 .. Infinity], prev : [Id -> Id \cup {NoNode}], heap : [1 .. n -> Id]]

\* r is s after the link l of x.
LinkRelaxed(r, s, x, l, n) ==
  /\ r \in LoopStates(n) /\ Rearranges(r.heap, s.heap, n, Id)
  /\ IsHeap(s.heap, s.d, n) => IsHeap(r.heap, r.d, n)
  /\ \A y \in Id : y # l.to => r.d[y] = s.d[y] /\ r.prev[y] = s.prev[y]
  /\ \/ /\ r.d[l.to] = s.d[l.to] /\ r.prev[l.to] = s.prev[l.to]
        /\ Usable(l) => s.d[l.to] <= s.d[x] + l.metric
     \/ /\ Usable(l) /\ r.d[l.to] = s.d[x] + l.metric /\ s.d[x] + l.metric < s.d[l.to]
        /\ r.prev[l.to] = x

\* A link lowers the distance of its end, or need not.
LEMMA RelaxLinkCorrect ==
  ASSUME NEW n \in Nat, NEW x \in Id, NEW l, GoodLink(l), NEW s \in LoopStates(n),
         NEW r, r = RelaxLink(x, l, s)
  PROVE  LinkRelaxed(r, s, x, l, n)
<1> PICK sd, sp, sh : sd = s.d /\ sp = s.prev /\ sh = s.heap
  OBVIOUS
<1>1. sd \in [Id -> 0 .. Infinity] /\ sp \in [Id -> Id \cup {NoNode}] /\ sh \in [1 .. n -> Id]
  BY DEF LoopStates
<1> PICK y : y = l.to
  OBVIOUS
<1> PICK alt : alt = sd[x] + l.metric
  OBVIOUS
<1>2. y \in Id /\ alt \in Nat /\ Infinity \in Nat
  BY <1>1, Numbers DEF GoodLink
<1>3. \A z \in Id : sd[z] \in Nat /\ sd[z] <= Infinity
  BY <1>1, <1>2
<1>4. CASE Usable(l) /\ alt < sd[y]
  <2> PICK d, p : d = [sd EXCEPT ![y] = alt] /\ p = [sp EXCEPT ![y] = x]
    OBVIOUS
  <2> PICK h : h = BuildHeap(sh, d)
    OBVIOUS
  <2>1. r = [d |-> d, prev |-> p, heap |-> h]
    BY <1>4 DEF RelaxLink
  <2>2. alt \in 0 .. Infinity
    BY <1>2, <1>3, <1>4
  <2>3. d \in [Id -> 0 .. Infinity] /\ p \in [Id -> Id \cup {NoNode}]
    BY <1>1, <1>2, <2>2
  <2>4. d \in [Id -> Nat]
    BY <1>2, <2>3
  <2>5. Rearranges(h, sh, n, Id) /\ IsHeap(h, d, n)
    BY <1>1, <2>4, BuildHeapCorrect
  <2>6. h \in [1 .. n -> Id]
    BY <2>5 DEF Rearranges
  <2>7. r \in LoopStates(n) /\ r.d = d /\ r.prev = p /\ r.heap = h
    <3>1. r.d = d /\ r.prev = p /\ r.heap = h
      BY <2>1
    <3>2. [d |-> d, prev |-> p, heap |-> h] \in LoopStates(n)
      BY <2>3, <2>6 DEF LoopStates
    <3> QED  BY <2>1, <3>1, <3>2
  <2>8. d[y] = alt /\ p[y] = x /\ \A z \in Id : z # y => d[z] = sd[z] /\ p[z] = sp[z]
    BY <1>1, <1>2
  <2> QED  BY <1>4, <2>5, <2>7, <2>8 DEF LinkRelaxed
<1>5. CASE ~(Usable(l) /\ alt < sd[y])
  <2>1. r = s
    BY <1>5 DEF RelaxLink
  <2>2. Rearranges(sh, sh, n, Id)
    BY <1>1, RearrangesSame
  <2>3. Usable(l) => sd[y] <= alt
    BY <1>2, <1>3, <1>5
  <2> QED  BY <2>1, <2>2, <2>3 DEF LinkRelaxed
<1> QED  BY <1>4, <1>5

\* What k links of x make of the distances d0 and the predecessors p0.
Relinked(d, p, d0, p0, x, k) ==
  \A y \in Id :
    \/ d[y] = d0[y] /\ p[y] = p0[y]
    \/ /\ p[y] = x /\ d[y] < d0[y]
       /\ \E j \in 1 .. k : /\ Usable(Links(x)[j]) /\ Links(x)[j].to = y
                            /\ d[y] = d0[x] + Links(x)[j].metric

\* s is the state of the loop after k links of x, from s0; c is a lower bound
\* of the distances.
Relaxing(s, s0, x, k, n, c) ==
  /\ s \in LoopStates(n)
  /\ Rearranges(s.heap, s0.heap, n, Id) /\ IsHeap(s.heap, s.d, n)
  /\ \A y \in Id : /\ s.d[y] <= s0.d[y]
                   /\ s.d[y] = s0.d[y] \/ s.d[y] >= s0.d[x]
                   /\ c[y] <= s.d[y]
                   /\ y # Source => (s.prev[y] = NoNode <=> s.d[y] = Infinity)
  /\ \A j \in 1 .. k : Usable(Links(x)[j]) =>
       s.d[Links(x)[j].to] <= s0.d[x] + Links(x)[j].metric
  /\ Relinked(s.d, s.prev, s0.d, s0.prev, x, k)

\* The lower bound allows for the links of x.
Bounds(c, s0, x) ==
  /\ c \in [Id -> 0 .. Infinity]
  /\ \A k \in DOMAIN Links(x) : Usable(Links(x)[k]) =>
       c[Links(x)[k].to] <= s0.d[x] + Links(x)[k].metric

\* One link of the loop.
LEMMA RelaxingStep ==
  ASSUME NEW n \in Nat, NEW x \in Id, GoodLinks(x), NEW s0 \in LoopStates(n), NEW c, Bounds(c, s0, x),
         NEW k \in 1 .. Len(Links(x)), NEW s, Relaxing(s, s0, x, k - 1, n, c),
         NEW r, r = RelaxLink(x, Links(x)[k], s)
  PROVE  Relaxing(r, s0, x, k, n, c)
<1> PICK l : l = Links(x)[k]
  OBVIOUS
<1>1. k \in DOMAIN Links(x) /\ GoodLink(l) /\ s \in LoopStates(n)
  BY DEF GoodLinks, Relaxing
<1>2. LinkRelaxed(r, s, x, l, n)
  BY <1>1, RelaxLinkCorrect
<1> PICK sd, rd, d0, sp, rp : sd = s.d /\ rd = r.d /\ d0 = s0.d /\ sp = s.prev /\ rp = r.prev
  OBVIOUS
<1> PICK f, g, h : f = r.heap /\ g = s.heap /\ h = s0.heap
  OBVIOUS
<1> PICK y : y = l.to
  OBVIOUS
<1> PICK m : m = l.metric
  OBVIOUS
<1>3. Infinity \in Nat /\ y \in Id /\ m \in Nat
  BY <1>1, Numbers DEF GoodLink
<1>4. \A z \in Id : /\ sd[z] \in Nat /\ rd[z] \in Nat /\ d0[z] \in Nat /\ c[z] \in Nat
                    /\ sd[z] <= Infinity /\ rd[z] <= Infinity /\ d0[z] <= Infinity
  <2>1. sd \in [Id -> 0 .. Infinity] /\ rd \in [Id -> 0 .. Infinity] /\ d0 \in [Id -> 0 .. Infinity]
    BY <1>1, <1>2 DEF LoopStates, LinkRelaxed
  <2>2. c \in [Id -> 0 .. Infinity]
    BY DEF Bounds
  <2> QED  BY <1>3, <2>1, <2>2
<1>5. /\ Rearranges(g, h, n, Id) /\ IsHeap(g, sd, n)
      /\ \A z \in Id : /\ sd[z] <= d0[z]
                       /\ sd[z] = d0[z] \/ sd[z] >= d0[x]
                       /\ c[z] <= sd[z]
                       /\ z # Source => (sp[z] = NoNode <=> sd[z] = Infinity)
      /\ \A j \in 1 .. k - 1 : Usable(Links(x)[j]) => sd[Links(x)[j].to] <= d0[x] + Links(x)[j].metric
  BY DEF Relaxing
<1>6. sd[x] = d0[x]
  BY <1>4, <1>5
<1>7. /\ r \in LoopStates(n) /\ Rearranges(f, g, n, Id) /\ IsHeap(f, rd, n)
      /\ \A z \in Id : z # y => rd[z] = sd[z] /\ rp[z] = sp[z]
      /\ \/ rd[y] = sd[y] /\ rp[y] = sp[y] /\ (Usable(l) => sd[y] <= d0[x] + m)
         \/ Usable(l) /\ rd[y] = d0[x] + m /\ d0[x] + m < sd[y] /\ rp[y] = x
  BY <1>2, <1>5, <1>6 DEF LinkRelaxed
<1>8. Rearranges(f, h, n, Id)
  BY <1>5, <1>7, RearrangesAgain
<1>9. \A z \in Id : rd[z] <= sd[z]
  <2> TAKE z \in Id
  <2>1. CASE z = y
    BY <1>3, <1>4, <1>7, <2>1
  <2>2. CASE z # y
    BY <1>4, <1>7, <2>2
  <2> QED  BY <2>1, <2>2
<1>10. Usable(l) => rd[y] <= d0[x] + m
  BY <1>3, <1>4, <1>7
<1>11. ASSUME NEW j \in 1 .. k, Usable(Links(x)[j]) PROVE rd[Links(x)[j].to] <= d0[x] + Links(x)[j].metric
  <2>1. CASE j = k
    BY <1>10, <1>11, <2>1
  <2>2. CASE j # k
    <3> PICK z, q : z = Links(x)[j].to /\ q = Links(x)[j].metric
      OBVIOUS
    <3>1. j \in 1 .. k - 1 /\ j \in DOMAIN Links(x)
      BY <2>2 DEF GoodLinks
    <3>2. z \in Id /\ q \in Nat
      BY <3>1 DEF GoodLinks, GoodLink
    <3>3. sd[z] <= d0[x] + q
      BY <1>5, <1>11, <3>1
    <3>4. rd[z] <= sd[z] /\ rd[z] \in Nat /\ sd[z] \in Nat /\ d0[x] \in Nat
      BY <1>4, <1>9, <3>2
    <3>5. rd[z] <= d0[x] + q
      BY <3>2, <3>3, <3>4
    <3> QED  BY <3>5
  <2> QED  BY <2>1, <2>2
<1>12. ASSUME NEW z \in Id PROVE /\ rd[z] <= d0[z]
                                 /\ rd[z] = d0[z] \/ rd[z] >= d0[x]
                                 /\ c[z] <= rd[z]
                                 /\ z # Source => (rp[z] = NoNode <=> rd[z] = Infinity)
  <2>1. rd[z] <= d0[z]
    BY <1>4, <1>5, <1>9
  <2>2. CASE z # y \/ (rd[y] = sd[y] /\ rp[y] = sp[y])
    <3>1. rd[z] = sd[z] /\ rp[z] = sp[z]
      BY <1>7, <2>2
    <3> QED  BY <1>5, <2>1, <3>1
  <2>3. CASE z = y /\ Usable(l) /\ rd[y] = d0[x] + m /\ d0[x] + m < sd[y] /\ rp[y] = x
    <3>1. rd[z] >= d0[x]
      BY <1>3, <1>4, <2>3
    <3>2. c[z] <= rd[z]
      BY <1>1, <2>3 DEF Bounds
    <3>3. rp[z] # NoNode
      BY <2>3, Numbers
    <3>4. rd[z] # Infinity
      BY <1>3, <1>4, <2>3
    <3> QED  BY <2>1, <3>1, <3>2, <3>3, <3>4
  <2>4. \/ z # y \/ (rd[y] = sd[y] /\ rp[y] = sp[y])
        \/ z = y /\ Usable(l) /\ rd[y] = d0[x] + m /\ d0[x] + m < sd[y] /\ rp[y] = x
    BY <1>7
  <2> QED  BY <2>2, <2>3, <2>4
<1>13. Relinked(rd, rp, d0, s0.prev, x, k)
  <2> SUFFICES ASSUME NEW z \in Id
               PROVE  \/ rd[z] = d0[z] /\ rp[z] = s0.prev[z]
                      \/ /\ rp[z] = x /\ rd[z] < d0[z]
                         /\ \E j \in 1 .. k : /\ Usable(Links(x)[j]) /\ Links(x)[j].to = z
                                              /\ rd[z] = d0[x] + Links(x)[j].metric
    BY DEF Relinked
  <2>1. \/ sd[z] = d0[z] /\ sp[z] = s0.prev[z]
        \/ /\ sp[z] = x /\ sd[z] < d0[z]
           /\ \E j \in 1 .. k - 1 : /\ Usable(Links(x)[j]) /\ Links(x)[j].to = z
                                    /\ sd[z] = d0[x] + Links(x)[j].metric
    BY DEF Relaxing, Relinked
  <2>2. CASE rd[z] = sd[z] /\ rp[z] = sp[z]
    BY <2>1, <2>2
  <2>3. CASE z = y /\ Usable(l) /\ rd[y] = d0[x] + m /\ d0[x] + m < sd[y] /\ rp[y] = x
    <3>1. rd[z] < d0[z]
      BY <1>3, <1>4, <1>5, <2>3
    <3>2. k \in 1 .. k
      OBVIOUS
    <3> QED  BY <2>3, <3>1, <3>2
  <2> QED  BY <1>7, <2>2, <2>3
<1> QED  BY <1>7, <1>8, <1>11, <1>12, <1>13 DEF Relaxing

\* All links of x.
LEMMA RelaxCorrect ==
  ASSUME NEW n \in Nat, NEW x \in Id, GoodLinks(x), NEW s0 \in LoopStates(n), NEW c, Bounds(c, s0, x),
         IsHeap(s0.heap, s0.d, n), \A y \in Id : c[y] <= s0.d[y],
         \A y \in Id \ {Source} : s0.prev[y] = NoNode <=> s0.d[y] = Infinity
  PROVE  Relaxing(Relax(x, s0), s0, x, Len(Links(x)), n, c)
<1> PICK m \in Nat : m = Len(Links(x))
  BY DEF GoodLinks
<1> DEFINE R == LoopStates(n)
           Step(k, s) == RelaxLink(x, Links(x)[k], s)
           F == [q \in (1 .. m) \X R |-> Step(q[1], q[2])]
           Table(t) == t = [k \in 0 .. m |-> IF k = 0 THEN s0 ELSE Step(k, t[k - 1])]
           relaxed == CHOOSE t : Table(t)
<1>1. ASSUME NEW k \in 1 .. m, NEW s \in R PROVE Step(k, s) \in R
  <2> PICK r, l : l = Links(x)[k] /\ r = RelaxLink(x, l, s)
    OBVIOUS
  <2>1. GoodLink(l)
    BY DEF GoodLinks
  <2>2. LinkRelaxed(r, s, x, l, n)
    BY <2>1, RelaxLinkCorrect
  <2> QED  BY <2>2 DEF LinkRelaxed
<1>2. F \in [(1 .. m) \X R -> R]
  <2> HIDE DEF R, Step
  <2>1. \A q \in (1 .. m) \X R : Step(q[1], q[2]) \in R
    BY <1>1
  <2> QED  BY <2>1
<1>3. PICK t \in [0 .. m -> R] : IsTable(t, m, s0, F)
  <2> HIDE DEF F
  <2>1. s0 \in R
    OBVIOUS
  <2> HIDE DEF R
  <2> QED  BY <1>2, <2>1, LoopExists
<1>4. Table(t)
  <2>1. ASSUME NEW k \in 1 .. m PROVE F[<<k, t[k - 1]>>] = Step(k, t[k - 1])
    <3>1. t[k - 1] \in R
      <4> HIDE DEF R
      <4> QED  BY <1>3
    <3> HIDE DEF R, Step
    <3> QED  BY <3>1
  <2> HIDE DEF F, R, Step
  <2>2. \A k \in 0 .. m : k = 0 \/ k \in 1 .. m
    OBVIOUS
  <2>3. \A k \in 0 .. m : (IF k = 0 THEN s0 ELSE F[<<k, t[k - 1]>>]) = (IF k = 0 THEN s0 ELSE Step(k, t[k - 1]))
    BY <2>1, <2>2
  <2> QED  BY <1>3, <2>3 DEF IsTable
<1>5. Table(relaxed)
  <2> HIDE DEF Table
  <2> QED  BY <1>4
<1>6. Relax(x, s0) = relaxed[m]
  BY DEF Relax
<1> HIDE DEF relaxed, F, R, Step
<1>7. relaxed = [k \in 0 .. m |-> IF k = 0 THEN s0 ELSE Step(k, relaxed[k - 1])]
  BY <1>5
<1>8. relaxed[0] = s0
  BY <1>7
<1>9. ASSUME NEW k \in 1 .. m PROVE relaxed[k] = Step(k, relaxed[k - 1])
  BY <1>7
<1>10. Relaxing(relaxed[0], s0, x, 0, n, c)
  <2>1. Infinity \in Nat
    BY Numbers
  <2>2. s0.d \in [Id -> 0 .. Infinity] /\ s0.heap \in [1 .. n -> Id]
    BY DEF LoopStates
  <2>3. \A y \in Id : s0.d[y] <= s0.d[y]
    BY <2>1, <2>2
  <2>4. Rearranges(s0.heap, s0.heap, n, Id)
    BY <2>2, RearrangesSame
  <2> QED  BY <1>8, <2>3, <2>4 DEF Relaxing, Relinked
<1>11. ASSUME NEW k \in 1 .. m, Relaxing(relaxed[k - 1], s0, x, k - 1, n, c)
       PROVE  Relaxing(relaxed[k], s0, x, k, n, c)
  <2> PICK s, r : s = relaxed[k - 1] /\ r = relaxed[k]
    OBVIOUS
  <2>1. r = RelaxLink(x, Links(x)[k], s)
    BY <1>9 DEF Step
  <2>2. k \in 1 .. Len(Links(x)) /\ Relaxing(s, s0, x, k - 1, n, c)
    BY <1>11
  <2>3. Relaxing(r, s0, x, k, n, c)
    BY <2>1, <2>2, RelaxingStep
  <2> QED  BY <2>3
<1> DEFINE M == {k \in Nat : k <= m => Relaxing(relaxed[k], s0, x, k, n, c)}
<1>12. 0 \in M
  BY <1>10
<1>13. ASSUME NEW k \in Nat, k \in M PROVE k + 1 \in M
  <2> SUFFICES ASSUME k + 1 <= m PROVE Relaxing(relaxed[k + 1], s0, x, k + 1, n, c)
    OBVIOUS
  <2>1. k + 1 \in 1 .. m /\ (k + 1) - 1 = k /\ Relaxing(relaxed[k], s0, x, k, n, c)
    BY <1>13
  <2> QED  BY <1>11, <2>1
<1>14. m \in M
  <2> HIDE DEF M
  <2>1. Nat \subseteq M
    BY <1>12, <1>13, SetInduction
  <2> QED  BY <2>1
<1> QED  BY <1>6, <1>14

-----------------------------------------------------------------------------
(***************************************************************************)
(* Dijkstra's invariant.                                                   *)
(***************************************************************************)
\* More links never cost more.
LEMMA CostsFall ==
  ASSUME NEW x \in Id, NEW c, IsCosts(c, x)
  PROVE  \A k \in 0 .. MAX_NODE_NUM : \A y \in Id : c[k][y] <= c[0][y]
<1> PICK n \in Nat : n = MAX_NODE_NUM
  BY PathAssumption
<1>1. /\ \A k \in 0 .. n : \A y \in Id : c[k][y] \in Nat
      /\ \A k \in 1 .. n : \A y \in Id : c[k][y] <= c[k - 1][y]
  <2>1. c \in [0 .. n -> [Id -> 0 .. Infinity]]
    BY DEF IsCosts
  <2>2. \A k \in 1 .. n : \A y \in Id : IsCostStep(c[k][y], y, c[k - 1])
    BY DEF IsCosts
  <2>3. \A z \in 0 .. Infinity : z \in Nat
    BY Numbers
  <2>4. \A k \in 0 .. n : \A y \in Id : c[k][y] \in 0 .. Infinity
    BY <2>1
  <2>5. \A k \in 1 .. n : \A y \in Id : c[k][y] <= c[k - 1][y]
    BY <2>2 DEF IsCostStep
  <2> QED  BY <2>3, <2>4, <2>5
<1> DEFINE M == {k \in Nat : k <= n => \A y \in Id : c[k][y] <= c[0][y]}
<1>2. 0 \in M
  BY <1>1
<1>3. ASSUME NEW k \in Nat, k \in M PROVE k + 1 \in M
  <2> SUFFICES ASSUME k + 1 <= n, NEW y \in Id PROVE c[k + 1][y] <= c[0][y]
    OBVIOUS
  <2>1. k + 1 \in 1 .. n /\ (k + 1) - 1 = k /\ k \in 0 .. n /\ k + 1 \in 0 .. n /\ 0 \in 0 .. n
    OBVIOUS
  <2>2. c[k + 1][y] <= c[k][y]
    BY <1>1, <2>1
  <2>3. c[k][y] <= c[0][y]
    BY <1>3, <2>1
  <2>4. c[k + 1][y] \in Nat /\ c[k][y] \in Nat /\ c[0][y] \in Nat
    BY <1>1, <2>1
  <2> QED  BY <2>2, <2>3, <2>4
<1> HIDE DEF M
<1>4. Nat \subseteq M
  BY <1>2, <1>3, SetInduction
<1> QED  BY <1>4 DEF M

\* It holds when the heap has been filled.
LEMMA InitSettled ==
  ASSUME Init
  PROVE  Inductive
<1> PICK n \in Nat : n = MAX_NODE_NUM
  BY PathAssumption
<1>1. /\ delay_tolerant \in BOOLEAN /\ IsGraph(graph) /\ Source \in Id /\ IsSeen(Source)
      /\ Infinity \in Nat /\ Infinity > 0
  <2>1. IsGraph(graph) /\ delay_tolerant \in BOOLEAN
    BY PathAssumption DEF Init
  <2>2. Source \in Id /\ IsSeen(Source)
    BY <2>1, PathAssumption DEF IsGraph, IsSeen
  <2> QED  BY <2>1, <2>2, Numbers
<1> PICK d : d = tent_dist
  OBVIOUS
<1>2. d = [x \in Id |-> IF x = Source THEN 0 ELSE Infinity]
  BY <1>1 DEF Init
<1>3. d \in [Id -> 0 .. Infinity] /\ d[Source] = 0 /\ \A x \in Id : d[x] = IF x = Source THEN 0 ELSE Infinity
  BY <1>1, <1>2
<1>4. prev_id \in [Id -> Id \cup {NoNode}] /\ \A x \in Id : prev_id[x] = NoNode
  BY DEF Init
<1>5. Filled(heap, n)
  <2>1. tent_dist \in [Id -> Nat]
    BY <1>1, <1>3
  <2> QED  BY <2>1, HeapInitFills DEF Init
<1>6. /\ heap \in Seq(Id) /\ Len(heap) <= n /\ IsInjective(heap) /\ IsHeap(heap, d, Len(heap))
      /\ \A i \in DOMAIN heap : IsSeen(heap[i])
      /\ \A x \in 1 .. n : IsSeen(x) => \E i \in DOMAIN heap : heap[i] = x
  BY <1>5 DEF Filled
<1>7. \A x \in Id \ ToSet(heap) : ~IsSeen(x)
  BY <1>6 DEF Id, ToSet
<1>8. \A x \in Id : Costs(Source)[n - Len(heap)][x] <= d[x]
  <2> PICK c : c = Costs(Source)
    OBVIOUS
  <2>1. IsCosts(c, Source)
    BY <1>1, CostsTable
  <2> PICK k : k = n - Len(heap)
    OBVIOUS
  <2>2. k \in 0 .. n
    BY <1>6
  <2>3. \A x \in Id : c[k][x] <= c[0][x]
    BY <1>1, <2>1, <2>2, CostsFall
  <2>4. \A x \in Id : c[0][x] = d[x]
    BY <1>3, <2>1 DEF IsCosts
  <2> QED  BY <2>3, <2>4
<1>9. Tree(d, prev_id, heap)
  <2>1. \A S \in SUBSET Id : S # {} => \E x \in S : prev_id[x] \notin S
    BY <1>4, Numbers
  <2> QED  BY <1>1, <1>4, <2>1 DEF Tree
<1>10. Settled(d, prev_id, heap)
  BY <1>1, <1>3, <1>4, <1>6, <1>7, <1>8 DEF Settled
<1> QED  BY <1>1, <1>9, <1>10 DEF Inductive

\* Popping a node and relaxing its links.
Moves(s, d, prev, h) ==
  /\ Settled(s.d, s.prev, s.heap)
  /\ \A y \in Id \ ToSet(s.heap) : IsSeen(y) => s.d[y] = d[y]
  /\ ToSet(s.heap) = ToSet(h) \ {h[1]}
  /\ Relinked(s.d, s.prev, d, prev, h[1], Len(Links(h[1])))

\* A round of the loop of dijkstra keeps the invariant.
LEMMA SettledStep ==
  ASSUME IsGraph(graph), NEW d, NEW prev, NEW h, Settled(d, prev, h), h # <<>>,
         NEW x, x = h[1], NEW s0, s0 = [d |-> d, prev |-> prev, heap |-> Popped(h, d)],
         NEW s, s = Relax(x, s0)
  PROVE  Moves(s, d, prev, h)
<1>1. /\ d \in [Id -> 0 .. Infinity] /\ d[Source] = 0
      /\ prev \in [Id -> Id \cup {NoNode}]
      /\ \A y \in Id \ {Source} : prev[y] = NoNode <=> d[y] = Infinity
      /\ h \in Seq(Id) /\ IsInjective(h) /\ Len(h) <= MAX_NODE_NUM
      /\ \A i \in DOMAIN h : IsSeen(h[i])
      /\ IsHeap(h, d, Len(h))
      /\ \A y \in Id : Costs(Source)[MAX_NODE_NUM - Len(h)][y] <= d[y]
  BY DEF Settled
<1>2. \A y \in Id \ ToSet(h) : IsSeen(y) =>
        /\ \A i \in DOMAIN h : d[y] <= d[h[i]]
        /\ \A k \in DOMAIN Links(y) : Usable(Links(y)[k]) => d[Links(y)[k].to] <= d[y] + Links(y)[k].metric
  BY DEF Settled
<1> PICK m \in Nat : m = Len(h)
  BY <1>1
<1>3. /\ m >= 1 /\ h \in [1 .. m -> Id] /\ DOMAIN h = 1 .. m /\ x \in Id /\ IsSeen(x)
      /\ Infinity \in Nat /\ Source \in Id
  <2>1. m >= 1
    BY <1>1
  <2>2. h \in [1 .. m -> Id]
    BY <1>1, SeqHeap
  <2>3. 1 \in DOMAIN h /\ x \in Id
    BY <2>1, <2>2
  <2> QED  BY <1>1, <2>1, <2>2, <2>3, Numbers, PathAssumption
<1> PICK n \in Nat : n = m - 1
  BY <1>3
<1>4. d \in [Id -> Nat] /\ \A y \in Id : d[y] \in Nat
  BY <1>1, <1>3
<1> PICK g : g = Popped(h, d)
  OBVIOUS
<1>5. Shortens(g, h, m, Id) /\ IsHeap(g, d, n)
  BY <1>1, <1>3, <1>4, PoppedCorrect
<1>6. s0.d = d /\ s0.prev = prev /\ s0.heap = g /\ s0 \in LoopStates(n)
  <2>1. g \in [1 .. n -> Id]
    BY <1>5 DEF Shortens
  <2> QED  BY <1>1, <2>1 DEF LoopStates
<1> PICK C : C = Costs(Source)
  OBVIOUS
<1> PICK N \in Nat : N = MAX_NODE_NUM
  BY PathAssumption
<1> PICK c0, c : c0 = C[N - m] /\ c = C[N - n]
  OBVIOUS
<1>7. /\ c \in [Id -> 0 .. Infinity] /\ \A y \in Id : c[y] \in Nat /\ c0[y] \in Nat /\ c0[y] <= d[y]
      /\ \A y \in Id : IsCostStep(c[y], y, c0)
  <2>1. IsCosts(C, Source)
    BY <1>3, CostsTable
  <2>2. N - n \in 1 .. N /\ (N - n) - 1 = N - m /\ N - m \in 0 .. N /\ N - n \in 0 .. N
    BY <1>1, <1>3
  <2>3. c \in [Id -> 0 .. Infinity] /\ c0 \in [Id -> 0 .. Infinity]
    BY <2>1, <2>2 DEF IsCosts
  <2>4. \A y \in Id : IsCostStep(c[y], y, c0)
    BY <2>1, <2>2 DEF IsCosts
  <2>5. \A y \in Id : c0[y] <= d[y]
    BY <1>1
  <2> QED  BY <1>3, <2>3, <2>4, <2>5
<1>8. \A y \in Id : c[y] <= d[y]
  <2> TAKE y \in Id
  <2>1. c[y] <= c0[y]
    BY <1>7 DEF IsCostStep
  <2> QED  BY <1>4, <1>7, <2>1
<1>9. GoodLinks(x)
  BY <1>3, GraphLinks
<1>10. Bounds(c, s0, x)
  <2>1. ASSUME NEW k \in DOMAIN Links(x), Usable(Links(x)[k]) PROVE c[Links(x)[k].to] <= d[x] + Links(x)[k].metric
    <3> PICK y, q : y = Links(x)[k].to /\ q = Links(x)[k].metric
      OBVIOUS
    <3>1. y \in Id /\ q \in Nat
      BY <1>9 DEF GoodLinks, GoodLink
    <3>2. IsCostStep(c[y], y, c0)
      BY <1>7, <3>1
    <3>3. c[y] <= c0[x] + q
      BY <1>3, <2>1, <3>2 DEF IsCostStep
    <3>4. c[y] \in Nat /\ c0[x] \in Nat /\ c0[x] <= d[x] /\ d[x] \in Nat
      BY <1>3, <1>4, <1>7, <3>1
    <3> QED  BY <3>1, <3>3, <3>4
  <2> QED  BY <1>6, <1>7, <2>1 DEF Bounds
<1>11. Relaxing(s, s0, x, Len(Links(x)), n, c)
  <2>1. /\ s0 \in LoopStates(n) /\ IsHeap(s0.heap, s0.d, n) /\ \A y \in Id : c[y] <= s0.d[y]
        /\ \A y \in Id \ {Source} : s0.prev[y] = NoNode <=> s0.d[y] = Infinity
    BY <1>1, <1>5, <1>6, <1>8
  <2>2. x \in Id
    BY <1>3
  <2> QED  BY <1>9, <1>10, <2>1, <2>2, RelaxCorrect
<1> PICK e, p, f : e = s.d /\ p = s.prev /\ f = s.heap
  OBVIOUS
<1>12. /\ Rearranges(f, g, n, Id) /\ IsHeap(f, e, n)
       /\ e \in [Id -> 0 .. Infinity] /\ p \in [Id -> Id \cup {NoNode}]
       /\ \A y \in Id : /\ e[y] <= d[y]
                        /\ e[y] = d[y] \/ e[y] >= d[x]
                        /\ c[y] <= e[y]
                        /\ y # Source => (p[y] = NoNode <=> e[y] = Infinity)
       /\ \A j \in DOMAIN Links(x) : Usable(Links(x)[j]) => e[Links(x)[j].to] <= d[x] + Links(x)[j].metric
  BY <1>6, <1>9, <1>11 DEF Relaxing, LoopStates, GoodLinks
<1>13. \A y \in Id : e[y] \in Nat /\ e[y] <= d[y] /\ (e[y] = d[y] \/ e[y] >= d[x])
  BY <1>3, <1>12
<1>14. /\ f \in [1 .. n -> Id] /\ f \in Seq(Id) /\ Len(f) = n /\ DOMAIN f = 1 .. n
  <2>1. f \in [1 .. n -> Id]
    BY <1>12 DEF Rearranges
  <2> QED  BY <2>1, HeapLen
<1>15. /\ \A i \in 1 .. n : \E k \in 2 .. m : f[i] = h[k]
       /\ \A k \in 2 .. m : \E i \in 1 .. n : f[i] = h[k]
       /\ IsInjective(f)
  <2>1. ASSUME NEW i \in 1 .. n PROVE \E k \in 2 .. m : f[i] = h[k]
    <3>1. PICK j \in 1 .. n : f[i] = g[j]
      BY <1>12 DEF Rearranges
    <3>2. PICK k \in 2 .. m : g[j] = h[k]
      BY <1>5 DEF Shortens
    <3> QED  BY <3>1, <3>2
  <2>2. ASSUME NEW k \in 2 .. m PROVE \E i \in 1 .. n : f[i] = h[k]
    <3>1. PICK j \in 1 .. n : g[j] = h[k]
      BY <1>5 DEF Shortens
    <3>2. PICK i \in 1 .. n : g[j] = f[i]
      BY <1>12 DEF Rearranges
    <3> QED  BY <3>1, <3>2
  <2>3. IsInjective(f)
    BY <1>1, <1>5, <1>12 DEF Shortens, Rearranges
  <2> QED  BY <2>1, <2>2, <2>3
<1>16. ASSUME NEW y \in Id \ ToSet(f) PROVE y = x \/ y \in Id \ ToSet(h)
  <2>1. ASSUME NEW k \in 1 .. m, h[k] = y PROVE k = 1
    <3> SUFFICES ASSUME k # 1 PROVE FALSE
      OBVIOUS
    <3>1. k \in 2 .. m
      OBVIOUS
    <3>2. PICK i \in 1 .. n : f[i] = y
      BY <1>15, <2>1, <3>1
    <3> QED  BY <1>14, <3>2 DEF ToSet
  <2> QED  BY <1>3, <2>1 DEF ToSet
<1>17. ASSUME NEW y \in Id \ ToSet(h), IsSeen(y) PROVE e[y] = d[y] /\ d[y] <= d[x]
  <2>1. d[y] <= d[x]
    BY <1>2, <1>3, <1>17
  <2> QED  BY <1>3, <1>4, <1>13, <2>1
<1>18. e[x] = d[x]
  BY <1>3, <1>4, <1>13
<1>19. ASSUME NEW i \in 1 .. n PROVE d[x] <= e[f[i]]
  <2>1. PICK k \in 2 .. m : f[i] = h[k]
    BY <1>15
  <2>2. h[k] \in Id /\ d[x] <= d[h[k]]
    <3>1. \A j \in 1 .. m : d[h[1]] <= d[h[j]]
      BY <1>1, <1>3, <1>4, RootNearest
    <3>2. k \in 1 .. m
      OBVIOUS
    <3> QED  BY <1>3, <3>1, <3>2
  <2> QED  BY <1>3, <1>4, <1>13, <2>1, <2>2
<1>20. ASSUME NEW y \in Id \ ToSet(f), IsSeen(y)
       PROVE  /\ \A i \in 1 .. n : e[y] <= e[f[i]]
              /\ \A k \in DOMAIN Links(y) : Usable(Links(y)[k]) => e[Links(y)[k].to] <= e[y] + Links(y)[k].metric
  <2>1. e[y] = d[y] /\ d[y] <= d[x]
    BY <1>3, <1>4, <1>16, <1>17, <1>18, <1>20
  <2>2. \A i \in 1 .. n : e[y] <= e[f[i]]
    <3> TAKE i \in 1 .. n
    <3>1. f[i] \in Id
      BY <1>14
    <3>2. e[f[i]] \in Nat /\ d[x] \in Nat /\ d[y] \in Nat
      BY <1>3, <1>4, <1>13, <3>1
    <3>3. d[x] <= e[f[i]]
      BY <1>19
    <3> QED  BY <2>1, <3>2, <3>3
  <2>3. ASSUME NEW k \in DOMAIN Links(y), Usable(Links(y)[k]) PROVE e[Links(y)[k].to] <= e[y] + Links(y)[k].metric
    <3>1. CASE y = x
      BY <1>12, <1>18, <2>3, <3>1
    <3>2. CASE y # x
      <4> PICK z, q : z = Links(y)[k].to /\ q = Links(y)[k].metric
        OBVIOUS
      <4>1. z \in Id /\ q \in Nat
        <5>1. GoodLinks(y)
          BY GraphLinks
        <5> QED  BY <5>1 DEF GoodLinks, GoodLink
      <4>2. d[z] <= d[y] + q
        BY <1>2, <1>16, <1>20, <2>3, <3>2
      <4>3. e[z] <= d[z] /\ e[z] \in Nat /\ d[z] \in Nat /\ d[y] \in Nat
        BY <1>4, <1>13, <4>1
      <4>4. e[z] <= d[y] + q
        BY <4>1, <4>2, <4>3
      <4> QED  BY <2>1, <4>4
    <3> QED  BY <3>1, <3>2
  <2> QED  BY <2>2, <2>3
<1>21. e[Source] = 0
  BY <1>1, <1>3, <1>13
<1>22. \A i \in 1 .. n : IsSeen(f[i])
  <2> TAKE i \in 1 .. n
  <2>1. PICK k \in 2 .. m : f[i] = h[k]
    BY <1>15
  <2>2. k \in DOMAIN h
    BY <1>3
  <2> QED  BY <1>1, <2>1, <2>2
<1>23. n <= N
  BY <1>1, <1>3
<1>24. Settled(e, p, f)
  <2>1. \A y \in Id \ {Source} : p[y] = NoNode <=> e[y] = Infinity
    BY <1>12
  <2>2. \A y \in Id : Costs(Source)[MAX_NODE_NUM - Len(f)][y] <= e[y]
    BY <1>12, <1>14
  <2>3. IsHeap(f, e, Len(f)) /\ Len(f) <= MAX_NODE_NUM
    BY <1>12, <1>14, <1>23
  <2>4. \A i \in DOMAIN f : IsSeen(f[i])
    BY <1>14, <1>22
  <2>5. \A y \in Id \ ToSet(f) : IsSeen(y) =>
          /\ \A i \in DOMAIN f : e[y] <= e[f[i]]
          /\ \A k \in DOMAIN Links(y) : Usable(Links(y)[k]) => e[Links(y)[k].to] <= e[y] + Links(y)[k].metric
    <3> SUFFICES ASSUME NEW y \in Id \ ToSet(f), IsSeen(y)
                 PROVE  /\ \A i \in DOMAIN f : e[y] <= e[f[i]]
                        /\ \A k \in DOMAIN Links(y) : Usable(Links(y)[k]) =>
                             e[Links(y)[k].to] <= e[y] + Links(y)[k].metric
      OBVIOUS
    <3>1. \A i \in 1 .. n : e[y] <= e[f[i]]
      BY <1>20
    <3>2. DOMAIN f = 1 .. n
      BY <1>14
    <3> QED  BY <1>20, <3>1, <3>2, Zenon
  <2>6. /\ e \in [Id -> 0 .. Infinity] /\ p \in [Id -> Id \cup {NoNode}] /\ f \in Seq(Id) /\ IsInjective(f)
    BY <1>12, <1>14, <1>15
  <2> QED  BY <1>21, <2>1, <2>2, <2>3, <2>4, <2>5, <2>6, Zenon DEF Settled
<1>25. \A y \in Id \ ToSet(f) : IsSeen(y) => e[y] = d[y]
  BY <1>16, <1>17, <1>18
<1>26. ToSet(f) = ToSet(h) \ {x}
  <2>1. ASSUME NEW i \in 1 .. n PROVE f[i] \in ToSet(h) \ {x}
    <3>1. PICK k \in 2 .. m : f[i] = h[k]
      BY <1>15
    <3>2. k \in DOMAIN h /\ 1 \in DOMAIN h /\ k # 1
      BY <1>3
    <3>3. h[k] # x
      BY <1>1, <3>2 DEF IsInjective
    <3> QED  BY <3>1, <3>2, <3>3 DEF ToSet
  <2>2. ASSUME NEW y \in ToSet(h) \ {x} PROVE y \in ToSet(f)
    <3>1. y \in Id
      BY <1>3 DEF ToSet
    <3> SUFFICES ASSUME y \notin ToSet(f) PROVE FALSE
      OBVIOUS
    <3>2. y = x \/ y \in Id \ ToSet(h)
      BY <1>16, <3>1
    <3> QED  BY <3>2
  <2>3. ToSet(f) = {f[i] : i \in 1 .. n}
    BY <1>14 DEF ToSet
  <2>4. ToSet(f) \subseteq ToSet(h) \ {x}
    BY <2>1, <2>3
  <2> QED  BY <2>2, <2>4
<1>27. Relinked(e, p, d, prev, x, Len(Links(x)))
  BY <1>6, <1>11 DEF Relaxing
<1> QED  BY <1>24, <1>25, <1>26, <1>27 DEF Moves

\* The predecessors stay a tree: those of a popped node do not change, and a new
\* one is the node just popped.
LEMMA TreeStep ==
  ASSUME IsGraph(graph), NEW d, NEW prev, NEW h, Settled(d, prev, h), Tree(d, prev, h), h # <<>>,
         NEW s, Moves(s, d, prev, h)
  PROVE  Tree(s.d, s.prev, s.heap)
<1> PICK e, p, f, x : e = s.d /\ p = s.prev /\ f = s.heap /\ x = h[1]
  OBVIOUS
<1>1. /\ Infinity \in Nat /\ Source \in Id /\ x \in Id /\ x \in ToSet(h) /\ IsSeen(x)
      /\ ToSet(f) = ToSet(h) \ {x}
  <2>1. h \in Seq(Id) /\ \A i \in DOMAIN h : IsSeen(h[i])
    BY DEF Settled
  <2>2. 1 \in DOMAIN h
    BY <2>1
  <2>3. x \in Id /\ x \in ToSet(h) /\ IsSeen(x)
    BY <2>1, <2>2 DEF ToSet
  <2>4. ToSet(f) = ToSet(h) \ {x}
    BY DEF Moves
  <2> QED  BY <2>3, <2>4, Numbers, PathAssumption
<1>2. /\ d[Source] = 0
      /\ \A y \in Id : d[y] \in Nat /\ e[y] \in Nat
  <2>1. d \in [Id -> 0 .. Infinity] /\ d[Source] = 0
    BY DEF Settled
  <2>2. e \in [Id -> 0 .. Infinity]
    BY DEF Moves, Settled
  <2> QED  BY <1>1, <2>1, <2>2
<1>3. /\ prev \in [Id -> Id \cup {NoNode}] /\ p \in [Id -> Id \cup {NoNode}]
      /\ prev[Source] = NoNode
      /\ \A S \in SUBSET Id : S # {} => \E y \in S : prev[y] \notin S
  BY DEF Moves, Settled, Tree
<1>4. \A y \in Id \ ToSet(f) : IsSeen(y) => e[y] = d[y]
  BY DEF Moves
<1>5. \A y \in Id : \/ e[y] = d[y] /\ p[y] = prev[y]
                    \/ /\ p[y] = x /\ e[y] < d[y]
                       /\ \E k \in 1 .. Len(Links(x)) : /\ Usable(Links(x)[k]) /\ Links(x)[k].to = y
                                                        /\ e[y] = d[x] + Links(x)[k].metric
  BY DEF Moves, Relinked
<1>6. e[x] = d[x]
  BY <1>1, <1>4
<1>7. p[Source] = NoNode
  <2>1. ~(e[Source] < d[Source])
    BY <1>1, <1>2
  <2> QED  BY <1>1, <1>3, <1>5, <2>1
<1> DEFINE Linked(q, y) == \E k \in DOMAIN Links(q) :
                             Usable(Links(q)[k]) /\ Links(q)[k].to = y /\ e[y] = e[q] + Links(q)[k].metric
<1>8. ASSUME NEW y \in Id, p[y] # NoNode
      PROVE  p[y] \in Id \ ToSet(f) /\ IsSeen(p[y]) /\ Linked(p[y], y)
  <2>1. CASE e[y] = d[y] /\ p[y] = prev[y]
    <3> PICK q : q = prev[y]
      OBVIOUS
    <3>1. q \in Id /\ q \notin ToSet(h)
      BY <1>3, <1>8, <2>1 DEF Tree
    <3>2. PICK k \in DOMAIN Links(q) :
            Usable(Links(q)[k]) /\ Links(q)[k].to = y /\ d[y] = d[q] + Links(q)[k].metric
      BY <1>8, <2>1 DEF Tree
    <3>3. IsSeen(q)
      BY <3>2 DEF Links
    <3>4. q \notin ToSet(f) /\ e[q] = d[q]
      BY <1>1, <1>4, <3>1, <3>3
    <3> QED  BY <2>1, <3>1, <3>2, <3>3, <3>4
  <2>2. CASE p[y] = x /\ \E k \in 1 .. Len(Links(x)) : /\ Usable(Links(x)[k]) /\ Links(x)[k].to = y
                                                     /\ e[y] = d[x] + Links(x)[k].metric
    <3>1. DOMAIN Links(x) = 1 .. Len(Links(x))
      BY <1>1, GraphLinks DEF GoodLinks
    <3> QED  BY <1>1, <1>6, <2>2, <3>1
  <2> QED  BY <1>5, <2>1, <2>2
<1> HIDE DEF Linked
<1>9. ASSUME NEW S \in SUBSET Id, S # {} PROVE \E y \in S : p[y] \notin S
  <2> DEFINE T == {y \in S : IsSeen(y) /\ y \notin ToSet(f)}
  <2>1. \A y \in S : p[y] \in S => p[y] \in T
    BY <1>8, Numbers
  <2>2. CASE T = {}
    BY <1>9, <2>1, <2>2
  <2>3. CASE T # {}
    <3>1. PICK y \in T : prev[y] \notin T
      BY <1>3, <2>3
    <3>2. p[y] = prev[y]
      BY <1>2, <1>4, <1>5
    <3> QED  BY <2>1, <3>1, <3>2
  <2> QED  BY <2>2, <2>3
<1>10. \A y \in Id : p[y] # NoNode =>
         /\ p[y] \notin ToSet(f)
         /\ \E k \in DOMAIN Links(p[y]) :
              LET l == Links(p[y])[k]
              IN  Usable(l) /\ l.to = y /\ e[y] = e[p[y]] + l.metric
  BY <1>8 DEF Linked
<1> QED  BY <1>7, <1>9, <1>10 DEF Tree

\* They are about the graph only as far as the graph is the same.
LEMMA SettledSame ==
  ASSUME graph' = graph, delay_tolerant' = delay_tolerant, NEW d, NEW prev, NEW h, Settled(d, prev, h)
  PROVE  Settled(d, prev, h)' /\ (Tree(d, prev, h) => Tree(d, prev, h)')
<1>1. \A x : IsSeen(x)' <=> IsSeen(x)
  BY DEF IsSeen
<1>2. \A x : Links(x)' = Links(x)
  BY DEF IsSeen, Links
<1>3. \A l : Usable(l)' <=> Usable(l)
  BY DEF Usable
<1>4. Costs(Source)' = Costs(Source)
  BY DEF Costs, LinksTo, Usable, Links, IsSeen
<1>5. Settled(d, prev, h)'
  BY <1>1, <1>2, <1>3, <1>4 DEF Settled
<1>6. ASSUME Tree(d, prev, h) PROVE Tree(d, prev, h)'
  BY <1>2, <1>3, <1>6 DEF Tree
<1> QED  BY <1>5, <1>6

\* Every step keeps it, and the distances of the nodes that have been popped.
LEMMA StepSettled ==
  ASSUME Inductive, [Next]_vars
  PROVE  /\ Inductive'
         /\ \A x \in Id \ ToSet(heap) : IsSeen(x) => tent_dist'[x] = tent_dist[x]
<1>1. CASE UNCHANGED vars
  <2>1. /\ graph' = graph /\ delay_tolerant' = delay_tolerant
        /\ tent_dist' = tent_dist /\ prev_id' = prev_id /\ heap' = heap
    BY <1>1 DEF vars
  <2> PICK d, p, h : d = tent_dist /\ p = prev_id /\ h = heap
    OBVIOUS
  <2>2. Settled(d, p, h)' /\ Tree(d, p, h)'
    BY <2>1, SettledSame DEF Inductive
  <2>3. Inductive'
    BY <2>1, <2>2 DEF Inductive
  <2> QED  BY <2>1, <2>3
<1>2. CASE Next
  <2> PICK d, p, h : d = tent_dist /\ p = prev_id /\ h = heap
    OBVIOUS
  <2> PICK x, s0, s : /\ x = h[1] /\ s0 = [d |-> d, prev |-> p, heap |-> Popped(h, d)]
                      /\ s = Relax(x, s0)
    OBVIOUS
  <2>1. /\ heap # <<>> /\ tent_dist' = s.d /\ prev_id' = s.prev /\ heap' = s.heap
        /\ graph' = graph /\ delay_tolerant' = delay_tolerant
    BY <1>2 DEF Next, PopAndRelax
  <2>2. Moves(s, d, p, h)
    BY <2>1, SettledStep DEF Inductive
  <2> PICK e, q, f : e = s.d /\ q = s.prev /\ f = s.heap
    OBVIOUS
  <2>3. Tree(e, q, f)
    BY <2>1, <2>2, TreeStep DEF Inductive
  <2>4. Settled(e, q, f)' /\ Tree(e, q, f)'
    BY <2>1, <2>2, <2>3, SettledSame DEF Moves
  <2>5. Inductive'
    BY <2>1, <2>4 DEF Inductive
  <2>6. ToSet(f) \subseteq ToSet(h)
    BY <2>2 DEF Moves
  <2> QED  BY <2>1, <2>2, <2>5, <2>6 DEF Moves
<1> QED  BY <1>1, <1>2

\* Dijkstra's invariant holds throughout (the loop of dijkstra).
THEOREM InductiveInvariant == Spec => []Inductive
<1>1. Init => Inductive
  BY InitSettled
<1>2. Inductive /\ [Next]_vars => Inductive'
  BY StepSettled
<1> QED  BY <1>1, <1>2, PTL DEF Spec

\* A heap without repetition has as many nodes as places.
LEMMA HeapCardinality ==
  ASSUME NEW S, NEW h \in Seq(S), IsInjective(h)
  PROVE  Cardinality(ToSet(h)) = Len(h)
<1> PICK n \in Nat : n = Len(h)
  BY SeqHeap
<1>1. h \in [1 .. n -> S] /\ DOMAIN h = 1 .. n
  BY SeqHeap
<1>2. ToSet(h) = {h[i] : i \in 1 .. n}
  BY <1>1 DEF ToSet
<1>3. h \in Bijection(1 .. n, ToSet(h))
  BY <1>1, <1>2 DEF IsInjective, Bijection, Injection, Surjection
<1>4. ExistsBijection(1 .. n, ToSet(h))
  BY <1>3 DEF ExistsBijection
<1> QED  BY <1>4, FS_CountingElements

\* Type correctness.
THEOREM TypeCorrect == Spec => []TypeOK
<1>1. Inductive => TypeOK
  <2> SUFFICES ASSUME Inductive PROVE TypeOK
    OBVIOUS
  <2>1. /\ tent_dist \in [Id -> 0 .. Infinity] /\ prev_id \in [Id -> Id \cup {NoNode}]
        /\ heap \in Seq(Id) /\ IsInjective(heap) /\ \A i \in DOMAIN heap : IsSeen(heap[i])
    BY DEF Inductive, Settled
  <2>2. Cardinality(ToSet(heap)) = Len(heap)
    BY <2>1, HeapCardinality
  <2> QED  BY <2>1, <2>2 DEF TypeOK
<1> QED  BY <1>1, InductiveInvariant, PTL

\* A popped node has its final distance (minheap_pop yields the nearest node
\* although distances are lowered behind the heap's back).
THEOREM PoppedFinal == Spec => PoppedAreFinal
<1>1. Inductive /\ [Next]_vars =>
        [\A x \in Id \ ToSet(heap) : IsSeen(x) => tent_dist'[x] = tent_dist[x]]_vars
  BY StepSettled
<1> QED  BY <1>1, InductiveInvariant, PTL DEF Spec, PoppedAreFinal

\* Where every link is relaxed, a distance is no greater than that of any node z
\* and the least cost from there.
LEMMA NoFarther ==
  ASSUME IsGraph(graph), NEW d \in [Id -> 0 .. Infinity], NEW z \in Id,
         \A x \in Id : \A k \in DOMAIN Links(x) : Usable(Links(x)[k]) =>
           d[Links(x)[k].to] <= d[x] + Links(x)[k].metric
  PROVE  \A y \in Id : d[y] <= d[z] + LeastCost(z)[y]
<1> PICK n \in Nat : n = MAX_NODE_NUM
  BY PathAssumption
<1> PICK c : c = Costs(z)
  OBVIOUS
<1>1. IsCosts(c, z) /\ Infinity \in Nat
  BY CostsTable, Numbers
<1>2. \A y \in Id : d[y] \in Nat /\ d[y] <= Infinity
  BY <1>1
<1> DEFINE M == {k \in Nat : k <= n => \A y \in Id : d[y] <= d[z] + c[k][y]}
<1>3. 0 \in M
  <2>1. \A y \in Id : c[0][y] = IF y = z THEN 0 ELSE Infinity
    BY <1>1 DEF IsCosts
  <2>2. \A y \in Id : d[y] <= d[z] + c[0][y]
    <3> TAKE y \in Id
    <3>1. CASE y = z
      BY <1>2, <2>1, <3>1
    <3>2. CASE y # z
      <4>1. c[0][y] = Infinity
        BY <2>1, <3>2
      <4> QED  BY <1>1, <1>2, <4>1
    <3> QED  BY <3>1, <3>2
  <2> QED  BY <2>2
<1>4. ASSUME NEW k \in Nat, k \in M PROVE k + 1 \in M
  <2> SUFFICES ASSUME k + 1 <= n, NEW y \in Id PROVE d[y] <= d[z] + c[k + 1][y]
    OBVIOUS
  <2> PICK b, m : b = c[k] /\ m = c[k + 1][y]
    OBVIOUS
  <2>1. IsCostStep(m, y, b) /\ b \in [Id -> 0 .. Infinity]
    <3>1. k + 1 \in 1 .. n /\ (k + 1) - 1 = k /\ k \in 0 .. n
      OBVIOUS
    <3> QED  BY <1>1, <3>1 DEF IsCosts
  <2>2. \A x \in Id : d[x] <= d[z] + b[x] /\ b[x] \in Nat
    BY <1>1, <1>4, <2>1
  <2>3. CASE m = b[y]
    BY <2>2, <2>3
  <2>4. CASE m = Infinity
    BY <1>1, <1>2, <2>4
  <2>5. ASSUME NEW x \in Id, NEW j \in DOMAIN Links(x), Usable(Links(x)[j]), Links(x)[j].to = y,
               m = b[x] + Links(x)[j].metric
        PROVE  d[y] <= d[z] + m
    <3> PICK q : q = Links(x)[j].metric
      OBVIOUS
    <3>1. q \in Nat
      <4>1. GoodLinks(x)
        BY GraphLinks
      <4> QED  BY <4>1 DEF GoodLinks, GoodLink
    <3>2. d[y] <= d[x] + q
      BY <2>5
    <3>3. d[x] \in Nat /\ d[y] \in Nat /\ d[z] \in Nat /\ b[x] \in Nat /\ d[x] <= d[z] + b[x]
      BY <1>2, <2>2
    <3> QED  BY <2>5, <3>1, <3>2, <3>3
  <2> QED  BY <2>1, <2>3, <2>4, <2>5 DEF IsCostStep
<1>5. n \in M
  <2> HIDE DEF M
  <2>1. Nat \subseteq M
    BY <1>3, <1>4, SetInduction
  <2> QED  BY <2>1
<1> QED  BY <1>5 DEF LeastCost

\* When the heap is empty, every link is relaxed.
LEMMA AllRelaxed ==
  ASSUME Inductive, Done
  PROVE  \A x \in Id : \A k \in DOMAIN Links(x) : Usable(Links(x)[k]) =>
           tent_dist[Links(x)[k].to] <= tent_dist[x] + Links(x)[k].metric
<1> PICK d : d = tent_dist
  OBVIOUS
<1>1. Settled(d, prev_id, <<>>)
  BY DEF Inductive, Done
<1>2. ToSet(<<>>) = {} /\ Id \ {} = Id
  BY DEF ToSet
<1>3. \A x \in Id : IsSeen(x) =>
        \A k \in DOMAIN Links(x) : Usable(Links(x)[k]) => d[Links(x)[k].to] <= d[x] + Links(x)[k].metric
  BY <1>1, <1>2 DEF Settled
<1>4. \A x \in Id : ~IsSeen(x) => DOMAIN Links(x) = {}
  BY DEF Links
<1> QED  BY <1>3, <1>4

\* And the distances are the least costs.
LEMMA DistancesLeast ==
  ASSUME Inductive, Done
  PROVE  tent_dist = LeastCost(Source)
<1> PICK d, best : d = tent_dist /\ best = LeastCost(Source)
  OBVIOUS
<1>1. IsGraph(graph) /\ Settled(d, prev_id, <<>>)
  BY DEF Inductive, Done
<1>2. d \in [Id -> 0 .. Infinity] /\ d[Source] = 0 /\ Source \in Id
  BY <1>1, PathAssumption DEF Settled
<1>3. \A x \in Id : best[x] <= d[x]
  <2>1. MAX_NODE_NUM - Len(<<>>) = MAX_NODE_NUM
    BY PathAssumption
  <2> QED  BY <1>1, <2>1 DEF Settled, LeastCost
<1>4. \A x \in Id : d[x] <= 0 + best[x]
  BY <1>1, <1>2, AllRelaxed, NoFarther
<1>5. best \in [Id -> 0 .. Infinity]
  <2>1. IsCosts(Costs(Source), Source) /\ MAX_NODE_NUM \in Nat
    BY <1>1, PathAssumption, CostsTable
  <2> QED  BY <2>1 DEF LeastCost, IsCosts
<1>6. \A x \in Id : d[x] = best[x]
  <2>1. \A x \in Id : d[x] \in Nat /\ best[x] \in Nat
    BY <1>2, <1>5, Numbers
  <2> QED  BY <1>3, <1>4, <2>1
<1> QED  BY <1>2, <1>5, <1>6

\* dijkstra gives every node its least cost, and a predecessor to the nodes
\* that can be reached.
THEOREM PathsAreShortest == Spec => []ShortestPaths
<1>1. Inductive => ShortestPaths
  BY DistancesLeast DEF ShortestPaths, Inductive, Settled
<1> QED  BY <1>1, InductiveInvariant, PTL

-----------------------------------------------------------------------------
(***************************************************************************)
(* get_next_hop.                                                           *)
(***************************************************************************)
\* A path to z over the link j of x is no cheaper than the best one from x.
LEMMA FirstLink ==
  ASSUME IsGraph(graph), NEW x \in Id, NEW j \in DOMAIN Links(x), Usable(Links(x)[j]),
         NEW y, y = Links(x)[j].to, NEW m, m = Links(x)[j].metric
  PROVE  \A k \in Nat : k + 1 <= MAX_NODE_NUM =>
           \A z \in Id : Costs(x)[k + 1][z] <= m + Costs(y)[k][z]
<1> PICK n \in Nat : n = MAX_NODE_NUM
  BY PathAssumption
<1>1. y \in Id /\ m \in Nat /\ Infinity \in Nat
  BY GraphLinks, Numbers DEF GoodLinks, GoodLink
<1> PICK c, b : c = Costs(x) /\ b = Costs(y)
  OBVIOUS
<1>2. IsCosts(c, x) /\ IsCosts(b, y)
  BY <1>1, CostsTable
<1>3. /\ \A k \in 0 .. n : \A z \in Id : c[k][z] \in Nat /\ b[k][z] \in Nat /\ c[k][z] <= Infinity
      /\ \A k \in 1 .. n : \A z \in Id : IsCostStep(c[k][z], z, c[k - 1]) /\ IsCostStep(b[k][z], z, b[k - 1])
  <2>1. c \in [0 .. n -> [Id -> 0 .. Infinity]] /\ b \in [0 .. n -> [Id -> 0 .. Infinity]]
    BY <1>2 DEF IsCosts
  <2>2. \A k \in 0 .. n : \A z \in Id : c[k][z] \in 0 .. Infinity /\ b[k][z] \in 0 .. Infinity
    BY <2>1
  <2>3. \A k \in 1 .. n : \A z \in Id : IsCostStep(c[k][z], z, c[k - 1]) /\ IsCostStep(b[k][z], z, b[k - 1])
    BY <1>2 DEF IsCosts
  <2> QED  BY <1>1, <2>2, <2>3
<1> DEFINE M == {k \in Nat : k + 1 <= n => \A z \in Id : c[k + 1][z] <= m + b[k][z]}
<1>4. 0 \in M
  <2> SUFFICES ASSUME 1 <= n, NEW z \in Id PROVE c[1][z] <= m + b[0][z]
    OBVIOUS
  <2>1. 1 \in 1 .. n /\ 0 \in 0 .. n /\ 1 \in 0 .. n /\ 1 - 1 = 0
    OBVIOUS
  <2>2. b[0][z] = (IF z = y THEN 0 ELSE Infinity) /\ c[0][x] = 0
    BY <1>2 DEF IsCosts
  <2>3. CASE z = y
    <3>1. IsCostStep(c[1][y], y, c[0])
      BY <1>1, <1>3, <2>1
    <3>2. c[1][y] <= c[0][x] + m
      BY <3>1 DEF IsCostStep
    <3> QED  BY <1>1, <2>2, <2>3, <3>2
  <2>4. CASE z # y
    BY <1>1, <1>3, <2>1, <2>2, <2>4
  <2> QED  BY <2>3, <2>4
<1>5. ASSUME NEW k \in Nat, k \in M PROVE k + 1 \in M
  <2> SUFFICES ASSUME (k + 1) + 1 <= n, NEW z \in Id PROVE c[(k + 1) + 1][z] <= m + b[k + 1][z]
    OBVIOUS
  <2> PICK u, v, w : u = c[(k + 1) + 1] /\ v = b[k + 1] /\ w = c[k + 1]
    OBVIOUS
  <2>1. /\ (k + 1) + 1 \in 1 .. n /\ ((k + 1) + 1) - 1 = k + 1 /\ k + 1 \in 1 .. n /\ (k + 1) - 1 = k
        /\ k \in 0 .. n /\ k + 1 \in 0 .. n /\ (k + 1) + 1 \in 0 .. n
    OBVIOUS
  <2>2. IsCostStep(u[z], z, w) /\ IsCostStep(v[z], z, b[k])
    BY <1>3, <2>1
  <2>3. \A a \in Id : u[a] \in Nat /\ v[a] \in Nat /\ w[a] \in Nat /\ b[k][a] \in Nat /\ u[a] <= Infinity
    BY <1>3, <2>1
  <2>4. \A a \in Id : w[a] <= m + b[k][a]
    BY <1>5, <2>1
  <2>5. CASE v[z] = b[k][z]
    <3>1. u[z] <= w[z]
      BY <2>2 DEF IsCostStep
    <3> QED  BY <1>1, <2>3, <2>4, <2>5, <3>1
  <2>6. CASE v[z] = Infinity
    BY <1>1, <2>3, <2>6
  <2>7. ASSUME NEW a \in Id, NEW i \in DOMAIN Links(a), Usable(Links(a)[i]), Links(a)[i].to = z,
               v[z] = b[k][a] + Links(a)[i].metric
        PROVE  u[z] <= m + v[z]
    <3> PICK q : q = Links(a)[i].metric
      OBVIOUS
    <3>1. q \in Nat
      <4>1. GoodLinks(a)
        BY GraphLinks
      <4> QED  BY <4>1 DEF GoodLinks, GoodLink
    <3>2. u[z] <= w[a] + q
      BY <2>2, <2>7 DEF IsCostStep
    <3>3. w[a] <= m + b[k][a] /\ w[a] \in Nat /\ b[k][a] \in Nat /\ u[z] \in Nat
      BY <2>3, <2>4
    <3> QED  BY <1>1, <2>7, <3>1, <3>2, <3>3
  <2> QED  BY <2>2, <2>5, <2>6, <2>7 DEF IsCostStep
<1> HIDE DEF M
<1>6. Nat \subseteq M
  BY <1>4, <1>5, SetInduction
<1> QED  BY <1>6 DEF M

\* The search of get_next_hop finds the one link there is.
LEMMA LinkFound ==
  ASSUME IsGraph(graph), NEW x \in Id, NEW j \in DOMAIN Links(x)
  PROVE  /\ LinkTo(x, Links(x)[j].to) = Links(x)[j]
         /\ Links(x)[j].status \in {"UP", "DOWN"}
<1> DEFINE L == [to : Id, status : {"UP", "DOWN"}, metric : Nat]
<1> PICK y : y = Links(x)[j].to
  OBVIOUS
<1>1. IsSeen(x) /\ Links(x) = graph[x].links
  BY DEF Links
<1>2. \A i, k \in DOMAIN Links(x) : Links(x)[i].to = Links(x)[k].to => i = k
  BY <1>1 DEF IsGraph
<1>3. (CHOOSE k \in DOMAIN Links(x) : Links(x)[k].to = y) = j
  BY <1>2
<1>4. Links(x)[j] \in L
  <2>1. graph \in [Id -> [state : {"SEEN", "OPAQUE", "UNSEEN"}, links : Seq(L)]]
    BY DEF IsGraph
  <2>2. Links(x) \in Seq(L)
    BY <1>1, <2>1
  <2> HIDE DEF L
  <2> QED  BY <2>2
<1> QED  BY <1>3, <1>4 DEF LinkTo

\* A sum that fits a short is exact; any sum is a number.
LEMMA SafeAddExact ==
  ASSUME NEW s \in Int, NEW m \in Nat
  PROVE  SafeAdd(s, m) \in Int /\ (s >= 0 /\ s + m <= 32767 => SafeAdd(s, m) = s + m)
<1>1. \A v \in Int : Short(v) \in Int
  BY DEF Short
<1>2. \A v \in Nat : v <= 32767 => Short(v) = v
  BY DEF Short
<1>3. SafeAdd(s, m) \in Int
  <2>1. Short(m) \in Int /\ Short(UINT16_MAX) \in Int
    BY <1>1 DEF UINT16_MAX
  <2>2. Short(Short(m) + s) \in Int
    BY <1>1, <2>1
  <2> HIDE DEF Short
  <2> QED  BY <2>1, <2>2 DEF SafeAdd
<1>4. ASSUME s >= 0, s + m <= 32767 PROVE SafeAdd(s, m) = s + m
  <2>1. m <= 32767 /\ m + s \in Nat /\ m + s <= 32767 /\ ~(m + s < s) /\ m + s = s + m
    BY <1>4
  <2>2. ~(m >= UINT16_MAX)
    BY <2>1 DEF UINT16_MAX
  <2>3. Short(m) = m /\ Short(m + s) = m + s
    BY <1>2, <2>1
  <2> HIDE DEF Short
  <2> QED  BY <2>1, <2>2, <2>3 DEF SafeAdd
<1> QED  BY <1>3, <1>4

\* n + 1 visits to n nodes (the pigeonhole principle).
LEMMA TwiceVisited ==
  ASSUME NEW n \in Nat, NEW v \in [0 .. n -> 1 .. n]
  PROVE  \E i, j \in 0 .. n : i # j /\ v[i] = v[j]
<1>1. /\ IsFiniteSet(0 .. n) /\ IsFiniteSet(1 .. n)
      /\ Cardinality(0 .. n) = n + 1 /\ Cardinality(1 .. n) = n
  BY FS_Interval
<1> PICK S, T : S = 0 .. n /\ T = 1 .. n
  OBVIOUS
<1>2. IsFiniteSet(S) /\ IsFiniteSet(T) /\ Cardinality(T) < Cardinality(S) /\ v \in [S -> T]
  BY <1>1
<1>3. \E i, j \in S : i # j /\ v[i] = v[j]
  BY <1>2, FS_PigeonHole
<1> QED  BY <1>3

\* Following the predecessors for as many rounds as there are nodes comes to a
\* node without one: no node is met twice, and there are not enough of them.
LEMMA ChainEnds ==
  ASSUME NEW prev \in [Id -> Id \cup {NoNode}],
         \A S \in SUBSET Id : S # {} => \E y \in S : prev[y] \notin S,
         NEW n \in Nat, n = MAX_NODE_NUM, NEW v \in [0 .. n -> Id],
         \A k \in 1 .. n : v[k] = IF prev[v[k - 1]] = NoNode THEN v[k - 1] ELSE prev[v[k - 1]]
  PROVE  prev[v[n]] = NoNode
<1> SUFFICES ASSUME prev[v[n]] # NoNode PROVE FALSE
  OBVIOUS
<1>1. ASSUME NEW k \in 0 .. n PROVE prev[v[k]] # NoNode
  <2> SUFFICES ASSUME prev[v[k]] = NoNode PROVE FALSE
    OBVIOUS
  <2> DEFINE M == {j \in Nat : k <= j /\ j <= n => v[j] = v[k]}
  <2>1. 0 \in M
    OBVIOUS
  <2>2. ASSUME NEW j \in Nat, j \in M PROVE j + 1 \in M
    <3> SUFFICES ASSUME k <= j + 1, j + 1 <= n PROVE v[j + 1] = v[k]
      OBVIOUS
    <3>1. CASE k = j + 1
      BY <3>1
    <3>2. CASE k # j + 1
      <4>1. j + 1 \in 1 .. n /\ (j + 1) - 1 = j /\ v[j] = v[k]
        BY <2>2, <3>2
      <4> QED  BY <4>1
    <3> QED  BY <3>1, <3>2
  <2> HIDE DEF M
  <2>3. n \in M
    <3>1. Nat \subseteq M
      BY <2>1, <2>2, SetInduction
    <3> QED  BY <3>1
  <2> QED  BY <2>3 DEF M
<1>2. ASSUME NEW k \in 0 .. n, k # n PROVE v[k + 1] = prev[v[k]]
  <2>1. k + 1 \in 1 .. n /\ (k + 1) - 1 = k
    BY <1>2
  <2> QED  BY <1>1, <2>1
<1>3. ASSUME NEW i \in 0 .. n, NEW j \in 0 .. n, i < j PROVE v[i] # v[j]
  <2> SUFFICES ASSUME v[i] = v[j] PROVE FALSE
    OBVIOUS
  <2> DEFINE S == {v[k] : k \in i .. j - 1}
  <2>1. S \in SUBSET Id /\ S # {}
    <3>1. \A k \in i .. j - 1 : k \in 0 .. n
      OBVIOUS
    <3>2. i \in i .. j - 1
      BY <1>3
    <3> QED  BY <3>1, <3>2
  <2>2. PICK k \in i .. j - 1 : prev[v[k]] \notin S
    <3> HIDE DEF S
    <3>1. PICK y \in S : prev[y] \notin S
      BY <2>1
    <3> QED  BY <3>1 DEF S
  <2>3. k \in 0 .. n /\ k # n /\ v[k + 1] = prev[v[k]]
    BY <1>2
  <2>4. CASE k + 1 = j
    <3>1. i \in i .. j - 1
      BY <1>3
    <3> QED  BY <2>2, <2>3, <2>4, <3>1
  <2>5. CASE k + 1 # j
    <3>1. k + 1 \in i .. j - 1
      BY <2>5
    <3> QED  BY <2>2, <2>3, <3>1
  <2> QED  BY <2>4, <2>5
<1>4. \A i, j \in 0 .. n : v[i] = v[j] => i = j
  <2> TAKE i, j \in 0 .. n
  <2>1. i < j \/ i = j \/ j < i
    OBVIOUS
  <2> QED  BY <1>3, <2>1
<1>5. v \in [0 .. n -> 1 .. n]
  BY DEF Id
<1>6. PICK i, j \in 0 .. n : i # j /\ v[i] = v[j]
  BY <1>5, TwiceVisited
<1> QED  BY <1>4, <1>6


\* The states of the loop of get_next_hop.
BackStates == [this : Id, next : Id, metric : Int, state : {"UP", "DOWN"}]

\* A round goes back over a link that gave the distance.
LEMMA StepBack ==
  ASSUME Inductive, NEW b \in BackStates, NEW p, p = prev_id[b.this], p # NoNode
  PROVE  /\ p \in Id
         /\ BackStep(b) \in BackStates
         /\ \E j \in DOMAIN Links(p) :
              /\ Usable(Links(p)[j]) /\ Links(p)[j].to = b.this /\ Links(p)[j].metric \in Nat
              /\ tent_dist[b.this] = tent_dist[p] + Links(p)[j].metric
              /\ BackStep(b) = [this |-> p, next |-> b.this, metric |-> SafeAdd(b.metric, Links(p)[j].metric),
                                state |-> LinkTo(p, b.this).status]
<1> PICK y : y = b.this
  OBVIOUS
<1>1. y \in Id /\ b.metric \in Int
  BY DEF BackStates
<1>2. IsGraph(graph) /\ p \in Id
  BY <1>1 DEF Inductive, Settled
<1>3. PICK j \in DOMAIN Links(p) :
        Usable(Links(p)[j]) /\ Links(p)[j].to = y /\ tent_dist[y] = tent_dist[p] + Links(p)[j].metric
  BY <1>1 DEF Inductive, Tree
<1>4. LinkTo(p, y) = Links(p)[j] /\ Links(p)[j].status \in {"UP", "DOWN"} /\ Links(p)[j].metric \in Nat
  BY <1>2, <1>3, LinkFound, GraphLinks DEF GoodLinks, GoodLink
<1> PICK c : c = SafeAdd(b.metric, Links(p)[j].metric)
  OBVIOUS
<1>5. c \in Int
  BY <1>1, <1>4, SafeAddExact
<1>6. BackStep(b) = [this |-> p, next |-> y, metric |-> c, state |-> LinkTo(p, y).status]
  BY <1>4 DEF BackStep
<1>7. BackStep(b) \in BackStates
  BY <1>1, <1>2, <1>4, <1>5, <1>6 DEF BackStates
<1> QED  BY <1>2, <1>3, <1>4, <1>6, <1>7

\* b is the state after k rounds from x: k links lead from b.this, and from
\* b.next, to x at the cost that the distances leave.
Trail(b, x, k) ==
  /\ b \in BackStates
  /\ tent_dist[b.this] < Infinity
  /\ tent_dist[b.this] + Costs(b.this)[k][x] <= tent_dist[x]
  /\ 1 + tent_dist[x] <= 32767 => b.metric = 1 + tent_dist[x] - tent_dist[b.this]
  /\ b.this # x => /\ prev_id[b.next] = b.this /\ b.state = LinkTo(b.this, b.next).status
                   /\ tent_dist[b.next] + Costs(b.next)[k][x] <= tent_dist[x]

\* A round of the loop keeps to the trail.
LEMMA TrailGoesOn ==
  ASSUME Inductive, NEW x \in Id, NEW k \in Nat, k + 1 <= MAX_NODE_NUM, NEW b, Trail(b, x, k)
  PROVE  Trail(BackStep(b), x, k + 1)
<1> PICK d : d = tent_dist
  OBVIOUS
<1> PICK y : y = b.this
  OBVIOUS
<1>1. b \in BackStates /\ y \in Id /\ b.next \in Id /\ b.metric \in Int
  BY DEF Trail, BackStates
<1>2. IsGraph(graph) /\ Infinity \in Nat /\ \A z \in Id : d[z] \in Nat
  <2>1. d \in [Id -> 0 .. Infinity] /\ Infinity \in Nat
    BY Numbers DEF Inductive, Settled
  <2> QED  BY <2>1 DEF Inductive
<1>3. \A z \in Id : /\ Costs(z)[k][x] \in Nat /\ Costs(z)[k + 1][x] \in Nat
                    /\ Costs(z)[k + 1][x] <= Costs(z)[k][x]
  <2> TAKE z \in Id
  <2> PICK c : c = Costs(z)
    OBVIOUS
  <2>1. IsCosts(c, z) /\ MAX_NODE_NUM \in Nat
    BY <1>2, CostsTable, PathAssumption
  <2>2. k \in 0 .. MAX_NODE_NUM /\ k + 1 \in 0 .. MAX_NODE_NUM /\ k + 1 \in 1 .. MAX_NODE_NUM /\ (k + 1) - 1 = k
    BY <2>1
  <2>3. c[k][x] \in 0 .. Infinity /\ c[k + 1][x] \in 0 .. Infinity
    BY <2>1, <2>2 DEF IsCosts
  <2>4. IsCostStep(c[k + 1][x], x, c[k])
    BY <2>1, <2>2 DEF IsCosts
  <2> QED  BY <1>2, <2>3, <2>4 DEF IsCostStep
<1>4. /\ d[y] < Infinity /\ d[y] + Costs(y)[k][x] <= d[x]
      /\ 1 + d[x] <= 32767 => b.metric = 1 + d[x] - d[y]
      /\ y # x => /\ prev_id[b.next] = y /\ b.state = LinkTo(y, b.next).status
                  /\ d[b.next] + Costs(b.next)[k][x] <= d[x]
  BY DEF Trail
<1>5. d[y] + Costs(y)[k + 1][x] <= d[x]
  <2>1. Costs(y)[k + 1][x] <= Costs(y)[k][x] /\ Costs(y)[k + 1][x] \in Nat /\ Costs(y)[k][x] \in Nat
    BY <1>1, <1>3
  <2>2. d[y] \in Nat /\ d[x] \in Nat
    BY <1>1, <1>2
  <2> QED  BY <1>4, <2>1, <2>2
<1>6. CASE prev_id[y] = NoNode
  <2>1. BackStep(b) = b
    BY <1>6 DEF BackStep
  <2>2. y # x => d[b.next] + Costs(b.next)[k + 1][x] <= d[x]
    <3>1. Costs(b.next)[k + 1][x] <= Costs(b.next)[k][x] /\ Costs(b.next)[k + 1][x] \in Nat /\ Costs(b.next)[k][x] \in Nat
      BY <1>1, <1>3
    <3>2. d[b.next] \in Nat /\ d[x] \in Nat
      BY <1>1, <1>2
    <3> QED  BY <1>4, <3>1, <3>2
  <2> QED  BY <1>1, <1>4, <1>5, <2>1, <2>2 DEF Trail
<1>7. CASE prev_id[y] # NoNode
  <2> PICK p : p = prev_id[y]
    OBVIOUS
  <2>1. p \in Id /\ BackStep(b) \in BackStates
    BY <1>1, <1>7, StepBack
  <2>2. PICK j \in DOMAIN Links(p) :
          /\ Usable(Links(p)[j]) /\ Links(p)[j].to = y /\ Links(p)[j].metric \in Nat
          /\ d[y] = d[p] + Links(p)[j].metric
          /\ BackStep(b) = [this |-> p, next |-> y, metric |-> SafeAdd(b.metric, Links(p)[j].metric),
                            state |-> LinkTo(p, y).status]
    BY <1>1, <1>7, StepBack
  <2> PICK m : m = Links(p)[j].metric
    OBVIOUS
  <2> PICK r : r = BackStep(b)
    OBVIOUS
  <2>3. r.this = p /\ r.next = y /\ r.metric = SafeAdd(b.metric, m) /\ r.state = LinkTo(p, y).status
    BY <2>2
  <2>4. m \in Nat /\ d[y] = d[p] + m /\ d[p] \in Nat /\ d[y] \in Nat /\ d[x] \in Nat
    BY <1>1, <1>2, <2>1, <2>2
  <2>5. d[p] < Infinity
    BY <1>2, <1>4, <2>4
  <2>6. d[p] + Costs(p)[k + 1][x] <= d[x]
    <3>1. Costs(p)[k + 1][x] <= m + Costs(y)[k][x]
      BY <1>2, <2>1, <2>2, FirstLink
    <3>2. Costs(p)[k + 1][x] \in Nat /\ Costs(y)[k][x] \in Nat
      BY <1>1, <1>3, <2>1
    <3> QED  BY <1>4, <2>4, <3>1, <3>2
  <2>7. 1 + d[x] <= 32767 => r.metric = 1 + d[x] - d[p]
    <3> SUFFICES ASSUME 1 + d[x] <= 32767 PROVE r.metric = 1 + d[x] - d[p]
      OBVIOUS
    <3>1. Costs(y)[k][x] \in Nat
      BY <1>1, <1>3
    <3>2. b.metric = 1 + d[x] - d[y] /\ d[y] <= d[x]
      BY <1>4, <2>4, <3>1
    <3>3. b.metric \in Int /\ b.metric >= 0 /\ b.metric + m <= 32767 /\ b.metric + m = 1 + d[x] - d[p]
      BY <2>4, <3>2
    <3>4. SafeAdd(b.metric, m) = b.metric + m
      BY <2>4, <3>3, SafeAddExact
    <3> QED  BY <2>3, <3>3, <3>4
  <2> QED  BY <1>5, <2>1, <2>3, <2>5, <2>6, <2>7 DEF Trail
<1> QED  BY <1>6, <1>7

\* The loop of get_next_hop comes to an end, on the trail of x.
LEMMA TrailEnds ==
  ASSUME Inductive, NEW x \in Id, tent_dist[x] < Infinity
  PROVE  \E b : /\ Trail(b, x, MAX_NODE_NUM) /\ prev_id[b.this] = NoNode
                /\ Backtrace(x) = [next_hop |-> IF b.this = x THEN NoNode ELSE b.next,
                                   metric |-> b.metric, state |-> b.state]
<1> PICK n \in Nat : n = MAX_NODE_NUM
  BY PathAssumption
<1> DEFINE b0 == [this |-> x, next |-> x, metric |-> 1, state |-> "DOWN"]
           F == [q \in (1 .. n) \X BackStates |-> BackStep(q[2])]
           Table(t) == t = [k \in 0 .. n |-> IF k = 0 THEN b0 ELSE BackStep(t[k - 1])]
           back == CHOOSE t : Table(t)
<1>1. ASSUME NEW b \in BackStates PROVE BackStep(b) \in BackStates
  <2>1. CASE prev_id[b.this] = NoNode
    BY <2>1 DEF BackStep
  <2>2. CASE prev_id[b.this] # NoNode
    BY <2>2, StepBack
  <2> QED  BY <2>1, <2>2
<1>2. b0 \in BackStates
  BY DEF BackStates
<1>3. F \in [(1 .. n) \X BackStates -> BackStates]
  BY <1>1
<1>4. PICK t \in [0 .. n -> BackStates] : IsTable(t, n, b0, F)
  <2> HIDE DEF F, b0
  <2> QED  BY <1>2, <1>3, LoopExists
<1>5. Table(t)
  <2>1. ASSUME NEW k \in 1 .. n PROVE F[<<k, t[k - 1]>>] = BackStep(t[k - 1])
    <3>1. t[k - 1] \in BackStates
      BY <1>4
    <3> QED  BY <3>1
  <2> HIDE DEF F, b0
  <2>2. \A k \in 0 .. n : k = 0 \/ k \in 1 .. n
    OBVIOUS
  <2>3. \A k \in 0 .. n : (IF k = 0 THEN b0 ELSE F[<<k, t[k - 1]>>]) = (IF k = 0 THEN b0 ELSE BackStep(t[k - 1]))
    BY <2>1, <2>2
  <2> QED  BY <1>4, <2>3 DEF IsTable
<1>6. Table(back)
  <2> HIDE DEF Table
  <2> QED  BY <1>5
<1> PICK b : b = back[n]
  OBVIOUS
<1>7. Backtrace(x) = [next_hop |-> IF b.this = x THEN NoNode ELSE b.next, metric |-> b.metric, state |-> b.state]
  BY DEF Backtrace
<1> HIDE DEF back, F
<1>8. back[0] = b0 /\ \A k \in 1 .. n : back[k] = BackStep(back[k - 1])
  <2> HIDE DEF b0
  <2>1. back = [k \in 0 .. n |-> IF k = 0 THEN b0 ELSE BackStep(back[k - 1])]
    BY <1>6
  <2> QED  BY <2>1
<1> HIDE DEF Table
<1> DEFINE M == {k \in Nat : k <= n => Trail(back[k], x, k)}
<1>9. 0 \in M
  <2> PICK d : d = tent_dist
    OBVIOUS
  <2>1. IsCosts(Costs(x), x) /\ d[x] \in Nat
    <3>1. d \in [Id -> 0 .. Infinity] /\ Infinity \in Nat
      BY Numbers DEF Inductive, Settled
    <3> QED  BY <3>1, CostsTable DEF Inductive
  <2>2. Costs(x)[0][x] = 0
    BY <2>1 DEF IsCosts
  <2>3. Trail(b0, x, 0)
    BY <1>2, <2>1, <2>2 DEF Trail
  <2> HIDE DEF b0
  <2> QED  BY <1>8, <2>3
<1>10. ASSUME NEW k \in Nat, k \in M PROVE k + 1 \in M
  <2> SUFFICES ASSUME k + 1 <= n PROVE Trail(back[k + 1], x, k + 1)
    OBVIOUS
  <2>1. k + 1 \in 1 .. n /\ (k + 1) - 1 = k /\ Trail(back[k], x, k)
    BY <1>10
  <2>2. back[k + 1] = BackStep(back[k])
    BY <1>8, <2>1
  <2>3. Trail(BackStep(back[k]), x, k + 1)
    BY <2>1, TrailGoesOn
  <2> QED  BY <2>2, <2>3
<1>11. \A k \in 0 .. n : Trail(back[k], x, k)
  <2> HIDE DEF M
  <2>1. Nat \subseteq M
    BY <1>9, <1>10, SetInduction
  <2>2. \A k \in 0 .. n : k \in Nat /\ k <= n
    OBVIOUS
  <2> QED  BY <2>1, <2>2 DEF M
<1> DEFINE v == [k \in 0 .. n |-> back[k].this]
<1>12. v \in [0 .. n -> Id]
  BY <1>11 DEF Trail, BackStates
<1>13. ASSUME NEW k \in 1 .. n
       PROVE  v[k] = IF prev_id[v[k - 1]] = NoNode THEN v[k - 1] ELSE prev_id[v[k - 1]]
  <2> PICK c, y : c = back[k - 1] /\ y = c.this
    OBVIOUS
  <2>1. v[k - 1] = y /\ v[k] = BackStep(c).this /\ c \in BackStates
    <3>1. k - 1 \in 0 .. n /\ k \in 0 .. n
      OBVIOUS
    <3> QED  BY <1>8, <1>11, <3>1 DEF Trail
  <2>2. CASE prev_id[y] = NoNode
    BY <2>1, <2>2 DEF BackStep
  <2>3. CASE prev_id[y] # NoNode
    <3>1. BackStep(c).this = prev_id[y]
      BY <2>1, <2>3, StepBack
    <3> QED  BY <2>1, <2>3, <3>1
  <2> QED  BY <2>1, <2>2, <2>3
<1>14. prev_id[v[n]] = NoNode
  <2> PICK prev : prev = prev_id
    OBVIOUS
  <2>1. prev \in [Id -> Id \cup {NoNode}] /\ \A S \in SUBSET Id : S # {} => \E y \in S : prev[y] \notin S
    BY DEF Inductive, Settled, Tree
  <2> HIDE DEF v
  <2>2. \A k \in 1 .. n : v[k] = IF prev[v[k - 1]] = NoNode THEN v[k - 1] ELSE prev[v[k - 1]]
    BY <1>13
  <2> QED  BY <1>12, <2>1, <2>2, ChainEnds
<1>15. n \in 0 .. n /\ v[n] = b.this
  OBVIOUS
<1> QED  BY <1>7, <1>11, <1>14, <1>15

(***************************************************************************)
(* get_next_hop comes to an end, and what it returns is a neighbour of the *)
(* source on a shortest path, over a link with the status returned; the    *)
(* metric is right if it fits a short.                                     *)
(***************************************************************************)
THEOREM NextHopsCorrect == Spec => []NextHopsLeadThere
<1>1. Inductive => NextHopsLeadThere
  <2> SUFFICES ASSUME Inductive, Done, NEW x \in Id, NextHop(x) # NoHop,
                      NEW h, h = NextHop(x), NEW best, best = LeastCost(Source),
                      NEW l, l = LinkTo(Source, h.next_hop)
               PROVE  /\ \E k \in DOMAIN Links(Source) : Links(Source)[k].to = h.next_hop
                      /\ l.metric + LeastCost(h.next_hop)[x] = best[x]
                      /\ h.state = l.status
                      /\ 1 + best[x] <= 32767 => h.metric = 1 + best[x]
    BY DEF NextHopsLeadThere
  <2> PICK d : d = tent_dist
    OBVIOUS
  <2>1. best = d
    BY DistancesLeast
  <2>2. /\ IsGraph(graph) /\ Source \in Id /\ Infinity \in Nat
        /\ d \in [Id -> 0 .. Infinity] /\ d[Source] = 0 /\ prev_id[Source] = NoNode
        /\ \A y \in Id \ {Source} : prev_id[y] = NoNode <=> d[y] = Infinity
    BY PathAssumption, Numbers DEF Inductive, Settled, Tree
  <2>3. prev_id[x] # NoNode /\ h = Backtrace(x)
    BY DEF NextHop
  <2>4. x # Source /\ d[x] < Infinity
    <3>1. x # Source /\ d[x] # Infinity
      BY <2>2, <2>3
    <3> QED  BY <2>2, <3>1
  <2>5. PICK b : /\ Trail(b, x, MAX_NODE_NUM) /\ prev_id[b.this] = NoNode
                 /\ h = [next_hop |-> IF b.this = x THEN NoNode ELSE b.next,
                         metric |-> b.metric, state |-> b.state]
    BY <2>3, <2>4, TrailEnds
  <2> PICK y : y = b.next
    OBVIOUS
  <2>6. b.this = Source /\ y \in Id
    <3>1. b.this \in Id /\ y \in Id /\ d[b.this] < Infinity
      BY <2>5 DEF Trail, BackStates
    <3> QED  BY <2>2, <2>5, <3>1
  <2>7. h.next_hop = y /\ h.metric = b.metric /\ h.state = b.state
    BY <2>4, <2>5, <2>6
  <2>8. /\ prev_id[y] = Source /\ b.state = LinkTo(Source, y).status
        /\ d[y] + LeastCost(y)[x] <= d[x]
        /\ 1 + d[x] <= 32767 => b.metric = 1 + d[x] - d[Source]
    BY <2>4, <2>5, <2>6 DEF Trail, LeastCost
  <2>9. PICK j \in DOMAIN Links(Source) :
          Links(Source)[j].to = y /\ d[y] = d[Source] + Links(Source)[j].metric
    <3>1. Source # NoNode
      BY <2>2, Numbers
    <3> QED  BY <2>6, <2>8, <3>1 DEF Inductive, Tree
  <2>10. l = Links(Source)[j] /\ l.metric \in Nat
    BY <2>2, <2>7, <2>9, LinkFound, GraphLinks DEF GoodLinks, GoodLink
  <2>11. d[x] <= d[y] + LeastCost(y)[x]
    BY <2>2, <2>6, AllRelaxed, NoFarther
  <2>12. LeastCost(y)[x] \in Nat /\ d[x] \in Nat /\ d[y] \in Nat
    <3>1. IsCosts(Costs(y), y) /\ MAX_NODE_NUM \in 0 .. MAX_NODE_NUM
      BY <2>2, <2>6, CostsTable, PathAssumption
    <3>2. LeastCost(y)[x] \in 0 .. Infinity
      BY <3>1 DEF LeastCost, IsCosts
    <3> QED  BY <2>2, <2>6, <3>2
  <2>13. l.metric + LeastCost(y)[x] = d[x]
    BY <2>2, <2>8, <2>9, <2>10, <2>11, <2>12
  <2>14. 1 + d[x] <= 32767 => b.metric = 1 + d[x]
    BY <2>2, <2>8, <2>12
  <2> QED  BY <2>1, <2>7, <2>8, <2>9, <2>13, <2>14
<1> QED  BY <1>1, InductiveInvariant, PTL
=============================================================================
