-------------------------- MODULE BlockHeapProofs ---------------------------
(***************************************************************************)
(* The tiling of the heap area and the safety of live blocks, for an area  *)
(* of any size and any set of requests.                                    *)
(*                                                                         *)
(* Every operation of mpool is a composition of three steps on the set of  *)
(* blocks: splitting a block, merging a block with its successor and       *)
(* flipping a free flag.  Each step is shown to keep the heap tiled and to *)
(* leave every live block but one alone; the operations follow.            *)
(***************************************************************************)
EXTENDS BlockHeap, TLAPS

(* From h to g, every live block except possibly p is left alone.          *)
Frame(h, g, p) ==
    \A r \in LiveBlocks(h) \ {p} : r \in LiveBlocks(g) /\ g.size[r] = h.size[r]

(* The numbers in a tiled heap: a block lies inside the area, is not       *)
(* empty, and its successor's address is computed without leaving it.      *)
LEMMA BlockFacts ==
    ASSUME NEW h, Tiled(h), NEW a \in Blocks(h)
    PROVE  /\ a \in Nat /\ 1 <= a /\ a < N /\ a \in Addr
           /\ h.size[a] \in Nat /\ 1 <= h.size[a]
           /\ NextOf(h, a) = a + h.size[a] + 1
           /\ NextOf(h, a) \in Nat /\ NextOf(h, a) <= N /\ a < NextOf(h, a)
           /\ h.size \in [Addr -> 0 .. N] /\ h.free \in [Addr -> BOOLEAN]
  <1>1. a \in Addr /\ h.size \in [Addr -> 0 .. N] /\ h.free \in [Addr -> BOOLEAN]
        /\ h.size[a] # 0 /\ NextOf(h, a) <= N
    BY DEF Tiled, Blocks, Heap, Fits
  <1>2. h.size[a] \in 0 .. N
    BY <1>1
  <1>3. h.size[a] \in Nat /\ 1 <= h.size[a]
    BY <1>1, <1>2, NAssumption
  <1>4. a \in Nat /\ 1 <= a /\ a < N
    BY <1>1, NAssumption DEF Addr
  <1>5. NextOf(h, a) = a + h.size[a] + 1
    BY DEF NextOf, Gap
  <1>6. NextOf(h, a) \in Nat /\ a < NextOf(h, a)
    BY <1>3, <1>4, <1>5
  <1> QED
    BY <1>1, <1>3, <1>4, <1>5, <1>6

(* blk_split: when the second part is not empty, the two parts tile what   *)
(* the block tiled, and only the split block's own size changes.           *)
LEMMA SplitFreeTiled ==
    ASSUME NEW h, Tiled(h), NEW p \in Blocks(h),
           NEW n \in Nat \ {0}, h.size[p] >= n + 2
    PROVE  /\ Tiled(SplitFree(h, p, n))
           /\ p \in Blocks(SplitFree(h, p, n))
           /\ p + n + Gap \in FreeBlocks(SplitFree(h, p, n))
           /\ SplitFree(h, p, n).free[p] = h.free[p]
           /\ SplitFree(h, p, n).size[p] = n
           /\ SplitFree(h, p, n).size[p + n + Gap] = h.size[p] - n - Gap
           /\ Frame(h, SplitFree(h, p, n), p)
  <1> DEFINE g == SplitFree(h, p, n)
             e == p + n + Gap
             s == h.size[p]
             w == s - n - Gap
  <1>1. /\ p \in Nat /\ p \in Addr /\ s \in Nat /\ s >= n + 2
        /\ NextOf(h, p) = p + s + 1 /\ p + s + 1 <= N
        /\ h.size \in [Addr -> 0 .. N] /\ h.free \in [Addr -> BOOLEAN]
    BY BlockFacts
  <1>2. /\ e \in Nat /\ p < e /\ e = p + n + 1 /\ e < N /\ e < p + s + 1
        /\ w \in Nat /\ w >= 1 /\ w <= N /\ e + w + 1 = p + s + 1
    BY <1>1, NAssumption DEF Gap
  <1>3. e \in Addr
    BY <1>2, <1>1, NAssumption DEF Addr, Gap
  <1>4. /\ g.size = [h.size EXCEPT ![p] = n, ![e] = w]
        /\ g.free = [h.free EXCEPT ![e] = TRUE]
        /\ g = [size |-> g.size, free |-> g.free]
    BY DEF SplitFree
  <1> HIDE DEF g, e, w, s
  <1>5. e \notin Blocks(h)
    <2> SUFFICES ASSUME e \in Blocks(h) PROVE FALSE
      OBVIOUS
    <2>1. NextOf(h, p) <= e
      BY <1>2 DEF Tiled, Disjoint
    <2> QED
      BY <2>1, <1>1, <1>2
  <1>6. /\ g.size[p] = n /\ g.size[e] = w /\ g.free[e]
        /\ g.free[p] = h.free[p]
        /\ \A r \in Addr \ {p, e} : g.size[r] = h.size[r] /\ g.free[r] = h.free[r]
    <2>1. p # e
      BY <1>1, <1>2
    <2>2. g.size[p] = n /\ g.size[e] = w
          /\ \A r \in Addr \ {p, e} : g.size[r] = h.size[r]
      BY <1>1, <1>3, <1>4, <2>1
    <2>3. g.free[e] /\ g.free[p] = h.free[p]
          /\ \A r \in Addr \ {p, e} : g.free[r] = h.free[r]
      BY <1>1, <1>3, <1>4, <2>1, Zenon
    <2> QED
      BY <2>2, <2>3
  <1>7. g \in Heap
    <2>1. n \in 0 .. N /\ w \in 0 .. N
      BY <1>1, <1>2, NAssumption
    <2>2. g.size \in [Addr -> 0 .. N]
      BY <1>1, <1>4, <2>1
    <2>3. g.free \in [Addr -> BOOLEAN]
      BY <1>1, <1>4
    <2> QED
      BY <1>4, <2>2, <2>3 DEF Heap
  <1>8. Blocks(g) = Blocks(h) \cup {e}
    <2> SUFFICES ASSUME NEW r \in Addr
                 PROVE  g.size[r] # 0 <=> h.size[r] # 0 \/ r = e
      BY <1>3 DEF Blocks
    <2>1. CASE r = p
      BY <1>1, <1>6, <2>1
    <2>2. CASE r = e
      BY <1>2, <1>6, <2>2
    <2>3. CASE r # p /\ r # e
      BY <1>6, <2>3
    <2> QED
      BY <2>1, <2>2, <2>3
  <1>9. /\ NextOf(g, p) = e
        /\ NextOf(g, e) = NextOf(h, p)
        /\ \A r \in Blocks(h) \ {p} : NextOf(g, r) = NextOf(h, r)
    BY <1>1, <1>2, <1>5, <1>6 DEF NextOf, Blocks, Gap
  <1>10. Starts(g)
    BY <1>8 DEF Starts, Tiled
  <1>11. Fits(g)
    BY <1>1, <1>2, <1>8, <1>9, NAssumption DEF Fits, Tiled
  <1>12. Chained(g)
    BY <1>8, <1>9 DEF Chained, Tiled
  <1>13. Disjoint(g)
    <2> SUFFICES ASSUME NEW a \in Blocks(g), NEW b \in Blocks(g), a < b
                 PROVE  NextOf(g, a) <= b
      BY DEF Disjoint
    <2>1. a \in Nat /\ b \in Nat
      BY <1>2, <1>8, BlockFacts
    <2>2. \A x, y \in Blocks(h) : x < y => NextOf(h, x) <= y
      BY DEF Tiled, Disjoint
    <2>3. CASE a = p
      <3>1. CASE b = e
        BY <1>9, <1>2, <2>3, <3>1
      <3>2. CASE b # e
        BY <1>1, <1>2, <1>8, <1>9, <2>1, <2>2, <2>3, <3>2
      <3> QED
        BY <3>1, <3>2
    <2>4. CASE a = e
      <3>1. b \in Blocks(h) /\ p < b
        BY <1>1, <1>2, <1>8, <2>1, <2>4
      <3> QED
        BY <1>9, <2>2, <2>4, <3>1
    <2>5. CASE a # p /\ a # e
      <3>1. a \in Blocks(h) /\ NextOf(g, a) = NextOf(h, a) /\ NextOf(h, a) \in Nat
        BY <1>8, <1>9, <2>5, BlockFacts
      <3>2. CASE b = e
        <4>1. CASE a < p
          BY <1>1, <1>2, <2>1, <2>2, <3>1, <3>2, <4>1
        <4>2. CASE p < a
          BY <1>1, <1>2, <2>1, <2>2, <3>1, <3>2, <4>2
        <4> QED
          BY <1>1, <2>1, <2>5, <4>1, <4>2
      <3>3. CASE b # e
        BY <1>8, <2>2, <3>1, <3>3
      <3> QED
        BY <3>2, <3>3
    <2> QED
      BY <2>3, <2>4, <2>5
  <1>14. FreeAreBlocks(g)
    BY <1>1, <1>3, <1>6, <1>8 DEF FreeAreBlocks, Tiled
  <1>15. Frame(h, g, p)
    BY <1>5, <1>6, <1>8 DEF Frame, LiveBlocks, Blocks
  <1>16. e \in FreeBlocks(g) /\ p \in Blocks(g)
    BY <1>6, <1>8 DEF FreeBlocks
  <1> QED
    BY <1>6, <1>7, <1>10, <1>11, <1>12, <1>13, <1>14, <1>15, <1>16
       DEF Tiled, g, e, w, s

(* blk_mergenext: a block and its successor become one block in their      *)
(* place.                                                                  *)
LEMMA MergeNextTiled ==
    ASSUME NEW h, Tiled(h), NEW p \in Blocks(h), NEW q \in Blocks(h),
           q = NextOf(h, p)
    PROVE  /\ Tiled(MergeNext(h, p, q))
           /\ p \in Blocks(MergeNext(h, p, q))
           /\ MergeNext(h, p, q).free[p] = h.free[p]
           /\ MergeNext(h, p, q).size[p] = h.size[p] + h.size[q] + Gap
           /\ NextOf(MergeNext(h, p, q), p) = NextOf(h, q)
           /\ Blocks(MergeNext(h, p, q)) = Blocks(h) \ {q}
           /\ \A r \in Blocks(h) \ {p, q} :
                 /\ MergeNext(h, p, q).size[r] = h.size[r]
                 /\ MergeNext(h, p, q).free[r] = h.free[r]
                 /\ NextOf(MergeNext(h, p, q), r) = NextOf(h, r)
  <1> DEFINE g == MergeNext(h, p, q)
             w == h.size[p] + h.size[q] + Gap
  <1>1. /\ p \in Nat /\ 1 <= p /\ p \in Addr /\ h.size[p] \in Nat /\ 1 <= h.size[p]
        /\ q = p + h.size[p] + 1
        /\ h.size \in [Addr -> 0 .. N] /\ h.free \in [Addr -> BOOLEAN]
    BY BlockFacts
  <1>2. /\ q \in Nat /\ q \in Addr /\ h.size[q] \in Nat /\ 1 <= h.size[q]
        /\ NextOf(h, q) = q + h.size[q] + 1 /\ NextOf(h, q) <= N
    BY BlockFacts
  <1>3. /\ w \in Nat /\ 1 <= w /\ w <= N /\ p < q
        /\ p + w + 1 = q + h.size[q] + 1
    BY <1>1, <1>2, NAssumption DEF Gap
  <1>4. /\ g.size = [h.size EXCEPT ![p] = w, ![q] = 0]
        /\ g.free = [h.free EXCEPT ![q] = FALSE]
        /\ g = [size |-> g.size, free |-> g.free]
    BY DEF MergeNext
  <1> HIDE DEF g, w
  <1>5. p # q
    BY <1>1, <1>2, <1>3
  <1>6. /\ g.size[p] = w /\ g.size[q] = 0
        /\ \A r \in Addr \ {p, q} : g.size[r] = h.size[r]
    BY <1>1, <1>2, <1>4, <1>5
  <1>7. /\ g.free[p] = h.free[p] /\ ~g.free[q]
        /\ \A r \in Addr \ {p, q} : g.free[r] = h.free[r]
    BY <1>1, <1>2, <1>4, <1>5, Zenon
  <1>8. g \in Heap
    <2>1. w \in 0 .. N /\ 0 \in 0 .. N
      BY <1>3, NAssumption
    <2>2. g.size \in [Addr -> 0 .. N]
      BY <1>1, <1>4, <2>1
    <2>3. g.free \in [Addr -> BOOLEAN]
      BY <1>1, <1>4
    <2> QED
      BY <1>4, <2>2, <2>3 DEF Heap
  <1>9. Blocks(g) = Blocks(h) \ {q}
    <2> SUFFICES ASSUME NEW r \in Addr
                 PROVE  g.size[r] # 0 <=> h.size[r] # 0 /\ r # q
      BY DEF Blocks
    <2>1. CASE r = p
      BY <1>1, <1>3, <1>5, <1>6, <2>1
    <2>2. CASE r = q
      BY <1>6, <2>2
    <2>3. CASE r # p /\ r # q
      BY <1>6, <2>3
    <2> QED
      BY <2>1, <2>2, <2>3
  <1>10. NextOf(g, p) = NextOf(h, q)
    BY <1>2, <1>3, <1>6 DEF NextOf, Gap
  <1>11. \A r \in Blocks(h) \ {p, q} : NextOf(g, r) = NextOf(h, r)
    BY <1>6 DEF NextOf, Blocks
  <1>12. Starts(g)
    BY <1>1, <1>2, <1>3, <1>9 DEF Starts, Tiled
  <1>13. Fits(g)
    BY <1>2, <1>9, <1>10, <1>11 DEF Fits, Tiled
  <1>14. Chained(g)
    <2> SUFFICES ASSUME NEW r \in Blocks(g)
                 PROVE  NextOf(g, r) = N \/ NextOf(g, r) \in Blocks(g)
      BY DEF Chained
    <2>1. CASE r = p
      <3>1. NextOf(h, q) = N \/ NextOf(h, q) \in Blocks(h)
        BY DEF Tiled, Chained
      <3>2. NextOf(h, q) # q
        BY <1>2
      <3> QED
        BY <1>9, <1>10, <2>1, <3>1, <3>2
    <2>2. CASE r # p
      <3>1. r \in Blocks(h) \ {p, q} /\ NextOf(g, r) = NextOf(h, r)
        BY <1>9, <1>11, <2>2
      <3>2. NextOf(h, r) = N \/ NextOf(h, r) \in Blocks(h)
        BY <3>1 DEF Tiled, Chained
      <3>3. NextOf(h, r) # q
        (* p's successor is not the successor of another block.            *)
        <4>1. r \in Nat /\ NextOf(h, r) \in Nat /\ r < NextOf(h, r)
          BY <3>1, BlockFacts
        <4>2. r < p => NextOf(h, r) <= p
          BY <3>1 DEF Tiled, Disjoint
        <4>3. p < r => NextOf(h, p) <= r
          BY <3>1 DEF Tiled, Disjoint
        <4> QED
          BY <1>1, <1>2, <1>3, <3>1, <4>1, <4>2, <4>3
      <3> QED
        BY <1>9, <3>1, <3>2, <3>3
    <2> QED
      BY <2>1, <2>2
  <1>15. Disjoint(g)
    <2> SUFFICES ASSUME NEW a \in Blocks(g), NEW b \in Blocks(g), a < b
                 PROVE  NextOf(g, a) <= b
      BY DEF Disjoint
    <2>1. a \in Blocks(h) /\ b \in Blocks(h) /\ a # q /\ b # q
      BY <1>9
    <2>2. \A x, y \in Blocks(h) : x < y => NextOf(h, x) <= y
      BY DEF Tiled, Disjoint
    <2>3. a \in Nat /\ b \in Nat
      BY <2>1, BlockFacts
    <2>4. CASE a = p
      <3>1. q <= b
        BY <2>1, <2>2, <2>4
      <3>2. q < b
        BY <1>2, <2>1, <2>3, <3>1
      <3> QED
        BY <1>10, <2>1, <2>2, <2>4, <3>2
    <2>5. CASE a # p
      BY <1>11, <2>1, <2>2, <2>5
    <2> QED
      BY <2>4, <2>5
  <1>16. FreeAreBlocks(g)
    <2> SUFFICES ASSUME NEW r \in Addr, g.free[r] PROVE r \in Blocks(g)
      BY DEF FreeAreBlocks
    <2>1. r # q
      BY <1>7
    <2>2. h.free[r]
      BY <1>7, <2>1
    <2> QED
      BY <1>9, <2>1, <2>2 DEF Tiled, FreeAreBlocks
  <1>17. Tiled(g)
    BY <1>8, <1>12, <1>13, <1>14, <1>15, <1>16 DEF Tiled
  <1>18. \A r \in Blocks(h) \ {p, q} :
            g.size[r] = h.size[r] /\ g.free[r] = h.free[r]
    BY <1>6, <1>7 DEF Blocks
  <1>19. p \in Blocks(g) /\ g.size[p] = h.size[p] + h.size[q] + Gap
    BY <1>5, <1>6, <1>9 DEF w
  <1> QED
    BY <1>7, <1>9, <1>10, <1>11, <1>17, <1>18, <1>19 DEF g

(* blk_setfreed / blk_setalloced move no block.                            *)
LEMMA SetFreeTiled ==
    ASSUME NEW h, Tiled(h), NEW p \in Blocks(h), NEW b \in BOOLEAN
    PROVE  /\ Tiled(SetFree(h, p, b))
           /\ Blocks(SetFree(h, p, b)) = Blocks(h)
           /\ SetFree(h, p, b).size = h.size
           /\ SetFree(h, p, b).free[p] = b
           /\ \A r \in Blocks(h) \ {p} : SetFree(h, p, b).free[r] = h.free[r]
           /\ Frame(h, SetFree(h, p, b), p)
  <1> DEFINE g == SetFree(h, p, b)
  <1>1. p \in Addr /\ h.size \in [Addr -> 0 .. N] /\ h.free \in [Addr -> BOOLEAN]
    BY BlockFacts
  <1>2. h \in Heap /\ h = [size |-> h.size, free |-> h.free]
    BY DEF Tiled, Heap
  <1>3. g.size = h.size /\ g.free = [h.free EXCEPT ![p] = b]
        /\ g = [size |-> g.size, free |-> g.free]
    BY <1>2 DEF SetFree
  <1> HIDE DEF g
  <1>4. g \in Heap
    BY <1>1, <1>3 DEF Heap
  <1>5. Blocks(g) = Blocks(h) /\ \A r : NextOf(g, r) = NextOf(h, r)
    BY <1>3 DEF Blocks, NextOf
  <1>6. g.free[p] = b /\ \A r \in Addr \ {p} : g.free[r] = h.free[r]
    BY <1>1, <1>3
  <1>7. Starts(g) /\ Fits(g) /\ Chained(g) /\ Disjoint(g)
    BY <1>5 DEF Tiled, Starts, Fits, Chained, Disjoint
  <1>8. FreeAreBlocks(g)
    BY <1>5, <1>6 DEF Tiled, FreeAreBlocks
  <1>9. \A r \in Blocks(h) \ {p} : g.free[r] = h.free[r]
    BY <1>6 DEF Blocks
  <1>10. Frame(h, g, p)
    BY <1>3, <1>5, <1>9 DEF Frame, LiveBlocks
  <1> QED
    BY <1>3, <1>4, <1>5, <1>6, <1>7, <1>8, <1>9, <1>10 DEF Tiled, g

(* try_split_and_free on a block that is at least as large as the request: *)
(* the block stays where it is, keeps its flag and still fits.             *)
LEMMA TrySplitTiled ==
    ASSUME NEW h, Tiled(h), NEW p \in Blocks(h),
           NEW n \in Nat \ {0}, h.size[p] >= n
    PROVE  /\ Tiled(TrySplit(h, p, n))
           /\ p \in Blocks(TrySplit(h, p, n))
           /\ TrySplit(h, p, n).free[p] = h.free[p]
           /\ TrySplit(h, p, n).size[p] >= n
           /\ Frame(h, TrySplit(h, p, n), p)
  <1>1. CASE h.size[p] >= n + SplitMargin
    <2>1. h.size[p] \in Nat /\ h.size[p] >= n + 2
      BY <1>1, BlockFacts DEF SplitMargin
    <2>2. TrySplit(h, p, n) = SplitFree(h, p, n)
      BY <1>1 DEF TrySplit
    <2> QED
      BY <2>1, <2>2, SplitFreeTiled
  <1>2. CASE ~(h.size[p] >= n + SplitMargin)
    BY <1>2 DEF TrySplit, Frame, LiveBlocks
  <1> QED
    BY <1>1, <1>2

(* mpool_alloc on a free block that fits.                                  *)
LEMMA TakeTiled ==
    ASSUME NEW h, Tiled(h), NEW p \in FreeBlocks(h),
           NEW n \in Nat \ {0}, h.size[p] >= n
    PROVE  /\ Tiled(Take(h, p, n))
           /\ p \in LiveBlocks(Take(h, p, n))
           /\ Take(h, p, n).size[p] >= n
           /\ \A r \in LiveBlocks(h) :
                 r \in LiveBlocks(Take(h, p, n)) /\ Take(h, p, n).size[r] = h.size[r]
  <1> DEFINE t == TrySplit(h, p, n)
             g == SetFree(t, p, FALSE)
  <1>1. p \in Blocks(h) /\ p \notin LiveBlocks(h)
    BY DEF FreeBlocks, LiveBlocks
  <1>2. Tiled(t) /\ p \in Blocks(t) /\ t.size[p] >= n /\ Frame(h, t, p)
    BY <1>1, TrySplitTiled
  <1> HIDE DEF t
  <1>3. /\ Tiled(g) /\ Blocks(g) = Blocks(t) /\ g.size = t.size /\ g.free[p] = FALSE
        /\ Frame(t, g, p)
    BY <1>2, SetFreeTiled
  <1>4. g = Take(h, p, n)
    BY DEF Take, t
  <1> HIDE DEF g
  <1>5. p \in LiveBlocks(g)
    BY <1>2, <1>3 DEF LiveBlocks
  <1>6. \A r \in LiveBlocks(h) : r \in LiveBlocks(g) /\ g.size[r] = h.size[r]
    BY <1>1, <1>2, <1>3 DEF Frame
  <1> QED
    BY <1>2, <1>3, <1>4, <1>5, <1>6

(* mpool_aligned_alloc, when the aligned address is the block itself or at *)
(* least two units further.                                                *)
LEMMA TakeAlignedTiled ==
    ASSUME NEW h, Tiled(h), NEW p \in FreeBlocks(h),
           NEW n \in Nat \ {0}, NEW k \in Offsets, h.size[p] >= n + k
    PROVE  /\ Tiled(TakeAligned(h, p, k, n))
           /\ p + k \in LiveBlocks(TakeAligned(h, p, k, n))
           /\ TakeAligned(h, p, k, n).size[p + k] >= n
           /\ \A r \in LiveBlocks(h) :
                 /\ r \in LiveBlocks(TakeAligned(h, p, k, n))
                 /\ TakeAligned(h, p, k, n).size[r] = h.size[r]
  <1>0. p \in Blocks(h) /\ p \notin LiveBlocks(h) /\ p \in Nat /\ h.size[p] \in Nat
        /\ k \in Nat
    BY BlockFacts, NAssumption DEF FreeBlocks, LiveBlocks, Offsets
  <1>1. CASE k = 0
    <2>1. p + k = p /\ h.size[p] >= n
      BY <1>0, <1>1
    <2>2. TakeAligned(h, p, k, n) = Take(h, p, n)
      BY <1>1, <2>1 DEF TakeAligned, SplitFront
    <2> QED
      BY <2>1, <2>2, TakeTiled
  <1>2. CASE k # 0
    <2> DEFINE m == k - Gap
               g == SplitFree(h, p, m)
    <2>1. m \in Nat \ {0} /\ h.size[p] >= m + 2 /\ p + m + Gap = p + k
          /\ h.size[p] - m - Gap >= n
      BY <1>0, <1>2, NAssumption DEF Gap, Offsets
    <2>2. TakeAligned(h, p, k, n) = Take(g, p + k, n)
      BY <1>2 DEF TakeAligned, SplitFront
    <2> HIDE DEF m
    <2>3. /\ Tiled(g) /\ p + m + Gap \in FreeBlocks(g)
          /\ g.size[p + m + Gap] = h.size[p] - m - Gap /\ Frame(h, g, p)
      BY <1>0, <2>1, SplitFreeTiled
    <2> HIDE DEF g
    <2>4. Tiled(g) /\ p + k \in FreeBlocks(g) /\ g.size[p + k] >= n
          /\ \A r \in LiveBlocks(h) : r \in LiveBlocks(g) /\ g.size[r] = h.size[r]
      BY <1>0, <2>1, <2>3 DEF Frame
    <2>5. /\ Tiled(Take(g, p + k, n))
          /\ p + k \in LiveBlocks(Take(g, p + k, n))
          /\ Take(g, p + k, n).size[p + k] >= n
          /\ \A r \in LiveBlocks(g) :
                /\ r \in LiveBlocks(Take(g, p + k, n))
                /\ Take(g, p + k, n).size[r] = g.size[r]
      BY <2>4, TakeTiled
    <2> QED
      BY <2>2, <2>4, <2>5
  <1> QED
    BY <1>1, <1>2

(* The free successor goes into the block that is released or grown.       *)
LEMMA MergeFreeNext ==
    ASSUME NEW h, Tiled(h), NEW p \in Blocks(h), NextOf(h, p) \in FreeBlocks(h)
    PROVE  /\ Tiled(MergeNext(h, p, NextOf(h, p)))
           /\ p \in Blocks(MergeNext(h, p, NextOf(h, p)))
           /\ MergeNext(h, p, NextOf(h, p)).free[p] = h.free[p]
           /\ MergeNext(h, p, NextOf(h, p)).size[p]
                 = NextOf(h, NextOf(h, p)) - p - Gap
           /\ Frame(h, MergeNext(h, p, NextOf(h, p)), p)
  <1> DEFINE q == NextOf(h, p)
             g == MergeNext(h, p, q)
  <1>1. q \in Blocks(h) /\ q \notin LiveBlocks(h)
    BY DEF FreeBlocks, LiveBlocks
  <1>2. /\ Tiled(g) /\ p \in Blocks(g) /\ g.free[p] = h.free[p]
        /\ g.size[p] = h.size[p] + h.size[q] + Gap
        /\ Blocks(g) = Blocks(h) \ {q}
        /\ \A r \in Blocks(h) \ {p, q} : g.size[r] = h.size[r] /\ g.free[r] = h.free[r]
    BY <1>1, MergeNextTiled
  <1>3. /\ p \in Nat /\ h.size[p] \in Nat /\ q = p + h.size[p] + 1
        /\ q \in Nat /\ h.size[q] \in Nat /\ NextOf(h, q) = q + h.size[q] + 1
    BY <1>1, BlockFacts
  <1> HIDE DEF q, g
  <1>4. g.size[p] = NextOf(h, q) - p - Gap
    BY <1>2, <1>3 DEF Gap
  <1>5. Frame(h, g, p)
    BY <1>1, <1>2 DEF Frame, LiveBlocks
  <1> QED
    BY <1>2, <1>4, <1>5 DEF q, g

(* mpool_free: whichever neighbours are free, the area stays tiled and no  *)
(* other live block is touched.                                            *)
LEMMA ReleaseTiled ==
    ASSUME NEW h, Tiled(h), NEW p \in LiveBlocks(h)
    PROVE  Tiled(Release(h, p)) /\ Frame(h, Release(h, p), p)
  <1> DEFINE t == MergeAhead(h, p)
  <1>0. p \in Blocks(h) /\ ~h.free[p]
    BY DEF LiveBlocks
  <1>1. Tiled(t) /\ p \in Blocks(t) /\ ~t.free[p] /\ Frame(h, t, p)
    <2>1. CASE NextOf(h, p) \in FreeBlocks(h)
      <3>1. t = MergeNext(h, p, NextOf(h, p))
        BY <2>1 DEF MergeAhead
      <3> QED
        BY <1>0, <2>1, <3>1, MergeFreeNext
    <2>2. CASE NextOf(h, p) \notin FreeBlocks(h)
      <3>1. t = h
        BY <2>2 DEF MergeAhead
      <3> QED
        BY <1>0, <3>1 DEF Frame
    <2> QED
      BY <2>1, <2>2
  <1> HIDE DEF t
  <1>2. CASE \E q \in FreeBlocks(t) : NextOf(t, q) = p
    <2> DEFINE q == CHOOSE q \in FreeBlocks(t) : NextOf(t, q) = p
               g == MergeNext(t, q, p)
    <2>1. q \in FreeBlocks(t) /\ NextOf(t, q) = p
      BY <1>2
    <2>2. Release(h, p) = g
      BY <1>2 DEF Release, MergeBehind, t
    <2> HIDE DEF q
    <2>3. q \in Blocks(t) /\ t.free[q]
      BY <2>1 DEF FreeBlocks
    <2>4. /\ Tiled(g) /\ Blocks(g) = Blocks(t) \ {p}
          /\ \A r \in Blocks(t) \ {q, p} : g.size[r] = t.size[r] /\ g.free[r] = t.free[r]
      BY <1>1, <2>1, <2>3, MergeNextTiled
    <2> HIDE DEF g
    <2>5. Frame(h, g, p)
      BY <1>1, <2>3, <2>4 DEF Frame, LiveBlocks
    <2> QED
      BY <2>2, <2>4, <2>5
  <1>3. CASE ~ \E q \in FreeBlocks(t) : NextOf(t, q) = p
    <2>1. Release(h, p) = SetFree(t, p, TRUE)
      BY <1>3 DEF Release, MergeBehind, t
    <2>2. Tiled(SetFree(t, p, TRUE)) /\ Frame(t, SetFree(t, p, TRUE), p)
      BY <1>1, SetFreeTiled
    <2> QED
      BY <1>1, <2>1, <2>2 DEF Frame
  <1> QED
    BY <1>2, <1>3

(* The fresh area is tiled by its one block.                               *)
LEMMA InitTiling == Init => Tiling
  <1> SUFFICES ASSUME Init PROVE Tiled(heap)
    BY DEF Tiling
  <1> USE NAssumption
  <1>1. /\ heap.size = [p \in Addr |-> IF p = 1 THEN N - 2 ELSE 0]
        /\ heap.free = [p \in Addr |-> p = 1]
        /\ heap = [size |-> heap.size, free |-> heap.free]
    BY DEF Init
  <1>2. 1 \in Addr /\ N - 2 \in 0 .. N /\ N - 2 # 0 /\ 0 \in 0 .. N
    BY DEF Addr
  <1>3. heap.size \in [Addr -> 0 .. N]
    BY <1>1, <1>2
  <1>4. heap.free \in [Addr -> BOOLEAN]
    BY <1>1
  <1>5. heap \in Heap
    BY <1>1, <1>3, <1>4 DEF Heap
  <1>6. Blocks(heap) = {1}
    BY <1>1, <1>2 DEF Blocks
  <1>7. NextOf(heap, 1) = N
    BY <1>1, <1>2 DEF NextOf, Gap
  <1>8. FreeAreBlocks(heap)
    BY <1>1, <1>6 DEF FreeAreBlocks
  <1> QED
    BY <1>5, <1>6, <1>7, <1>8 DEF Tiled, Starts, Fits, Chained, Disjoint

(* At most one live block of the current heap is affected by the step to   *)
(* g.                                                                      *)
OneAffected(g) == \E p : Frame(heap, g, p)

(* Every operation keeps the area tiled and affects at most one live       *)
(* block.                                                                  *)
LEMMA NextTiling ==
    ASSUME Tiling, Next
    PROVE  Tiling' /\ OneAffected(heap')
  <1> SUFFICES Tiled(heap') /\ OneAffected(heap')
    BY DEF Tiling
  <1>0. Tiled(heap)
    BY DEF Tiling
  <1>1. CASE Free
    <2>1. PICK p \in LiveBlocks(heap) : heap' = Release(heap, p)
      BY <1>1 DEF Free
    <2> QED
      BY <1>0, <2>1, ReleaseTiled DEF OneAffected
  <1>2. CASE \E n \in Requests :
               Alloc(n) \/ AlignedAlloc(n) \/ Shrink(n) \/ Grow(n) \/ Move(n)
    <2>1. PICK n \in Requests :
               Alloc(n) \/ AlignedAlloc(n) \/ Shrink(n) \/ Grow(n) \/ Move(n)
      BY <1>2
    <2>2. n \in Nat \ {0}
      BY RequestsAssumption
    <2>3. CASE Alloc(n)
      <3>1. PICK p \in FreeBlocks(heap) :
                 heap.size[p] >= n /\ heap' = Take(heap, p, n)
        BY <2>3 DEF Alloc
      <3>2. /\ Tiled(Take(heap, p, n))
            /\ \A r \in LiveBlocks(heap) :
                  /\ r \in LiveBlocks(Take(heap, p, n))
                  /\ Take(heap, p, n).size[r] = heap.size[r]
        BY <1>0, <2>2, <3>1, TakeTiled
      <3> QED
        BY <3>1, <3>2 DEF OneAffected, Frame
    <2>4. CASE AlignedAlloc(n)
      <3>1. PICK p \in FreeBlocks(heap), k \in Offsets :
                 heap.size[p] >= n + k /\ heap' = TakeAligned(heap, p, k, n)
        BY <2>4 DEF AlignedAlloc
      <3>2. /\ Tiled(TakeAligned(heap, p, k, n))
            /\ \A r \in LiveBlocks(heap) :
                  /\ r \in LiveBlocks(TakeAligned(heap, p, k, n))
                  /\ TakeAligned(heap, p, k, n).size[r] = heap.size[r]
        BY <1>0, <2>2, <3>1, TakeAlignedTiled
      <3> QED
        BY <3>1, <3>2 DEF OneAffected, Frame
    <2>5. CASE Shrink(n)
      <3>1. PICK p \in LiveBlocks(heap) :
                 heap.size[p] >= n /\ heap' = TrySplit(heap, p, n)
        BY <2>5 DEF Shrink
      <3>2. p \in Blocks(heap)
        BY DEF LiveBlocks
      <3> QED
        BY <1>0, <2>2, <3>1, <3>2, TrySplitTiled DEF OneAffected
    <2>6. CASE Grow(n)
      <3>1. PICK p \in LiveBlocks(heap) :
                 /\ NextOf(heap, p) \in FreeBlocks(heap)
                 /\ NextOf(heap, NextOf(heap, p)) - p - Gap >= n
                 /\ heap' = TrySplit(MergeNext(heap, p, NextOf(heap, p)), p, n)
        BY <2>6 DEF Grow
      <3> DEFINE g == MergeNext(heap, p, NextOf(heap, p))
      <3>2. p \in Blocks(heap)
        BY DEF LiveBlocks
      <3>3. /\ Tiled(g) /\ p \in Blocks(g) /\ g.size[p] >= n /\ Frame(heap, g, p)
        BY <1>0, <3>1, <3>2, MergeFreeNext
      <3> HIDE DEF g
      <3>4. Tiled(TrySplit(g, p, n)) /\ Frame(g, TrySplit(g, p, n), p)
        BY <2>2, <3>3, TrySplitTiled
      <3>5. Frame(heap, TrySplit(g, p, n), p)
        BY <3>3, <3>4 DEF Frame
      <3> QED
        BY <3>1, <3>4, <3>5 DEF OneAffected, g
    <2>7. CASE Move(n)
      <3>1. PICK p \in LiveBlocks(heap), q \in FreeBlocks(heap), k \in Offsets :
                 /\ heap.size[q] >= n + k
                 /\ heap' = Release(TakeAligned(heap, q, k, n), p)
        BY <2>7 DEF Move
      <3> DEFINE g == TakeAligned(heap, q, k, n)
      <3>2. /\ Tiled(g)
            /\ \A r \in LiveBlocks(heap) :
                  r \in LiveBlocks(g) /\ g.size[r] = heap.size[r]
        BY <1>0, <2>2, <3>1, TakeAlignedTiled
      <3> HIDE DEF g
      <3>3. Tiled(Release(g, p)) /\ Frame(g, Release(g, p), p)
        BY <3>1, <3>2, ReleaseTiled
      <3>4. Frame(heap, Release(g, p), p)
        BY <3>2, <3>3 DEF Frame
      <3> QED
        BY <3>1, <3>3, <3>4 DEF OneAffected, g
    <2> QED
      BY <2>1, <2>3, <2>4, <2>5, <2>6, <2>7
  <1> QED
    BY <1>1, <1>2 DEF Next

(* The area is tiled in every reachable state, for an area of any size:    *)
(* mpool neither loses memory nor hands the same memory out twice.         *)
THEOREM HeapTiling == Spec => []Tiling
  <1>1. Tiling /\ [Next]_heap => Tiling'
    <2> SUFFICES ASSUME Tiling, [Next]_heap PROVE Tiling'
      OBVIOUS
    <2>1. CASE Next
      BY <2>1, NextTiling
    <2>2. CASE UNCHANGED heap
      BY <2>2 DEF Tiling, Tiled, Starts, Fits, Chained, Disjoint,
                  FreeAreBlocks, Blocks, NextOf
    <2> QED
      BY <2>1, <2>2
  <1> QED
    BY InitTiling, <1>1, PTL DEF Spec

(* The block table keeps its type.                                         *)
THEOREM HeapTypeOK == Spec => []TypeOK
  <1>1. Tiling => TypeOK
    BY DEF Tiling, Tiled, TypeOK
  <1> QED
    BY HeapTiling, <1>1, PTL

(* An operation on one allocation leaves every other allocation where it   *)
(* is and as large as it is.                                               *)
THEOREM HeapOneLiveBlockAffected == Spec => OneLiveBlockAffected
  <1>1. Tiling /\ [Next]_heap =>
          [\A p, q \in LiveBlocks(heap) : p # q => Untouched(p) \/ Untouched(q)]_heap
    <2> SUFFICES ASSUME Tiling, Next, NEW p \in LiveBlocks(heap),
                        NEW q \in LiveBlocks(heap), p # q
                 PROVE  Untouched(p) \/ Untouched(q)
      OBVIOUS
    <2>1. PICK r : Frame(heap, heap', r)
      BY NextTiling DEF OneAffected
    <2>2. \A x \in LiveBlocks(heap) \ {r} :
             x \in LiveBlocks(heap') /\ heap'.size[x] = heap.size[x]
      BY <2>1 DEF Frame
    <2>3. LiveBlocks(heap)' = LiveBlocks(heap')
      BY DEF LiveBlocks, Blocks
    <2> QED
      BY <2>2, <2>3 DEF Untouched
  <1> QED
    BY HeapTiling, <1>1, PTL DEF Spec, OneLiveBlockAffected
=============================================================================
