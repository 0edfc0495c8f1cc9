----------------------------- MODULE BlockHeap ------------------------------
(***************************************************************************)
(* What the pool allocator of mm/heap/pool.cpp promises about its area:    *)
(* the operations of mpool on the set of blocks, without boundary tags,    *)
(* free lists or a search order (any free block that fits may be taken).   *)
(*                                                                         *)
(* Addresses and sizes are in units of 2 * sizeof(size_t), the granularity *)
(* PADDING rounds every size to.  The area has N units; the first block    *)
(* starts at unit 1, a block of n units at p is followed by one unit (its  *)
(* tail word and the next block's head word), and the last block ends so   *)
(* that the next one would start at N.                                     *)
(***************************************************************************)
EXTENDS Naturals

CONSTANTS
    N,          \* pool->size in units
    Requests    \* the request sizes (in units, after PADDING) of the clients

ASSUME NAssumption == N \in Nat /\ N >= 3
ASSUME RequestsAssumption == Requests \subseteq Nat \ {0}

Addr == 1 .. N - 1
Gap == 1            \* the tail word and the next head word
SplitMargin == 4    \* try_split_and_free keeps remainders of 8 words or more

VARIABLE heap       \* [size, free]: size[p] = 0 where no block starts

Heap == [size : [Addr -> 0 .. N], free : [Addr -> BOOLEAN]]

(* allocarea_init: one free block fills the area.                          *)
Init ==
    heap = [size |-> [p \in Addr |-> IF p = 1 THEN N - 2 ELSE 0],
            free |-> [p \in Addr |-> p = 1]]

Blocks(h) == {p \in Addr : h.size[p] # 0}
FreeBlocks(h) == {p \in Blocks(h) : h.free[p]}
LiveBlocks(h) == {p \in Blocks(h) : ~h.free[p]}

(* blk_next, N standing for the area's end marker.                         *)
NextOf(h, p) == p + h.size[p] + Gap

-----------------------------------------------------------------------------
(* Slips a change to this code could make; only checked against, not used. *)

(* A split that forgets the two words between the parts.                   *)
SplitFreeNoGap(h, p, n) ==
    [size |-> [h.size EXCEPT ![p] = n, ![p + n + Gap] = h.size[p] - n],
     free |-> [h.free EXCEPT ![p + n + Gap] = TRUE]]

(* A split that keeps a remainder with no room for a block in it.          *)
TrySplitNoMargin(h, p, n) ==
    IF h.size[p] > n
    THEN [size |-> [h.size EXCEPT ![p] = n,
                                  ![p + n + Gap] = h.size[p] - n - 2 * Gap],
          free |-> [h.free EXCEPT ![p + n + Gap] = TRUE]]
    ELSE h

(* A merge that does not look at the next block's free flag.               *)
MergeAheadAny(h, p) ==
    IF NextOf(h, p) \in Blocks(h)
    THEN [size |-> [h.size EXCEPT ![p] = h.size[p] + h.size[NextOf(h, p)] + Gap,
                                  ![NextOf(h, p)] = 0],
          free |-> [h.free EXCEPT ![NextOf(h, p)] = FALSE]]
    ELSE h

-----------------------------------------------------------------------------
(* Steps of the operations                                                 *)

(* blk_split, the second part going to do_free.                            *)
SplitFree(h, p, n) ==
    [size |-> [h.size EXCEPT ![p] = n, ![p + n + Gap] = h.size[p] - n - Gap],
     free |-> [h.free EXCEPT ![p + n + Gap] = TRUE]]

(* try_split_and_free                                                      *)
TrySplit(h, p, n) ==
    IF h.size[p] >= n + SplitMargin THEN SplitFree(h, p, n) ELSE h

(* blk_mergenext, with the next block q leaving its free list.             *)
MergeNext(h, p, q) ==
    [size |-> [h.size EXCEPT ![p] = h.size[p] + h.size[q] + Gap, ![q] = 0],
     free |-> [h.free EXCEPT ![q] = FALSE]]

SetFree(h, p, b) == [h EXCEPT !.free = [h.free EXCEPT ![p] = b]]

(* mpool_alloc once a free block p that fits is found.                     *)
Take(h, p, n) == SetFree(TrySplit(h, p, n), p, FALSE)

(* mpool_aligned_alloc: the k units in front of the aligned address become *)
(* a free block of their own.                                              *)
SplitFront(h, p, k) == IF k = 0 THEN h ELSE SplitFree(h, p, k - Gap)
TakeAligned(h, p, k, n) == Take(SplitFront(h, p, k), p + k, n)

(* mpool_free: merge with a free next block, then with a free previous one.*)
MergeAhead(h, p) ==
    IF NextOf(h, p) \in FreeBlocks(h) THEN MergeNext(h, p, NextOf(h, p)) ELSE h

MergeBehind(h, p) ==
    IF \E q \in FreeBlocks(h) : NextOf(h, q) = p
    THEN MergeNext(h, CHOOSE q \in FreeBlocks(h) : NextOf(h, q) = p, p)
    ELSE SetFree(h, p, TRUE)

Release(h, p) == MergeBehind(MergeAhead(h, p), p)

-----------------------------------------------------------------------------
(* Operations                                                              *)

Alloc(n) ==
    \E p \in FreeBlocks(heap) :
        /\ heap.size[p] >= n
        /\ heap' = Take(heap, p, n)

(* The distance to an aligned address; a distance of one unit leaves no    *)
(* room for a block in front and is not allowed here.                      *)
Offsets == {0} \cup 2 .. N

AlignedAlloc(n) ==
    \E p \in FreeBlocks(heap), k \in Offsets :
        /\ heap.size[p] >= n + k
        /\ heap' = TakeAligned(heap, p, k, n)

Free == \E p \in LiveBlocks(heap) : heap' = Release(heap, p)

(* mpool_realloc, in place: the remainder is not merged with what follows. *)
Shrink(n) ==
    \E p \in LiveBlocks(heap) :
        /\ heap.size[p] >= n
        /\ heap' = TrySplit(heap, p, n)

Grow(n) ==
    \E p \in LiveBlocks(heap) :
        /\ heap.size[p] < n
        /\ NextOf(heap, p) \in FreeBlocks(heap)
        /\ NextOf(heap, NextOf(heap, p)) - p - Gap >= n
        /\ heap' = TrySplit(MergeNext(heap, p, NextOf(heap, p)), p, n)

(* mpool_realloc by mpool_alloc (mpool_aligned_alloc), memcpy, mpool_free. *)
Move(n) ==
    \E p \in LiveBlocks(heap), q \in FreeBlocks(heap), k \in Offsets :
        /\ heap.size[p] < n
        /\ heap.size[q] >= n + k
        /\ heap' = Release(TakeAligned(heap, q, k, n), p)

Next ==
    \/ Free
    \/ \E n \in Requests :
        Alloc(n) \/ AlignedAlloc(n) \/ Shrink(n) \/ Grow(n) \/ Move(n)

Spec == Init /\ [][Next]_heap

-----------------------------------------------------------------------------
(* Properties                                                              *)

TypeOK == heap \in Heap

(* A heap is tiled when its blocks cover the area without overlap and      *)
(* without a hole: the first one starts the area, and what follows a block *)
(* is a block or the end marker.                                           *)
Starts(h) == 1 \in Blocks(h)
Fits(h) == \A p \in Blocks(h) : NextOf(h, p) <= N
Chained(h) == \A p \in Blocks(h) : NextOf(h, p) = N \/ NextOf(h, p) \in Blocks(h)
Disjoint(h) == \A p, q \in Blocks(h) : p < q => NextOf(h, p) <= q
FreeAreBlocks(h) == \A p \in Addr : h.free[p] => p \in Blocks(h)

Tiled(h) ==
    /\ h \in Heap
    /\ Starts(h)
    /\ Fits(h)
    /\ Chained(h)
    /\ Disjoint(h)
    /\ FreeAreBlocks(h)

(* No sequence of allocations, frees and reallocations loses a byte of the *)
(* area or hands it out twice.                                             *)
Tiling == Tiled(heap)

(* A block the client holds is left alone: an operation moves, resizes or  *)
(* frees at most one live block.                                           *)
Untouched(p) ==
    p \in LiveBlocks(heap)' /\ heap'.size[p] = heap.size[p]

OneLiveBlockAffected ==
    [][\A p, q \in LiveBlocks(heap) : p # q => Untouched(p) \/ Untouched(q)]_heap
=============================================================================
