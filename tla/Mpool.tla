------------------------------- MODULE Mpool --------------------------------
(***************************************************************************)
(* The kernel heap: mpool of mm/heap/pool.cpp with the boundary tags of    *)
(* block.hpp, the segregated free lists of freelist.hpp and the area       *)
(* markers of area.hpp, word by word in the memory it manages, behind the  *)
(* malloc / free / realloc / aligned_alloc of mm/heap/heap.cpp.            *)
(*                                                                         *)
(* Every call of heap.cpp runs between alloc_enter and alloc_exit, so an   *)
(* operation is one step (module Spinlock).  Addresses and sizes are in    *)
(* bytes.  Memory words hold tags, list pointers or, in an allocated       *)
(* block, the mark of the client that owns it.  The size classes are a     *)
(* parameter: the code's are 64, 256, 512, ..., 16384, which would need a  *)
(* heap far beyond a model checker.                                        *)
(***************************************************************************)
EXTENDS Integers, Sequences, FiniteSets, FiniteSetsExt

CONSTANTS
    Base,       \* KERNEL_HEAP_START, page aligned
    Size,       \* KERNEL_HEAP_SIZE
    Limits,     \* Limits[i + 1]: sizes from here on are too large for freed[i]
    Owner,      \* the clients, each holding at most one allocation
    Sizes,      \* the sizes they request
    Aligns,     \* the alignments they request
    SizeT,      \* SIZE_MAX + 1, where alloced_size wraps
    MaxResizes  \* bound on calls of realloc (the kernel itself makes none)

ASSUME AreaAssumption ==
    /\ Base \in Nat \ {0} /\ Size \in Nat
    /\ Base % 64 = 0 /\ Size % 16 = 0 /\ Size >= 48
    /\ SizeT \in Nat /\ SizeT > Size
ASSUME LimitsAssumption ==
    /\ \A i \in 1 .. Len(Limits) - 1 : Limits[i] < Limits[i + 1]
    /\ Size - 32 >= Limits[Len(Limits)]
ASSUME ClientAssumption ==
    Sizes \subseteq Nat /\ Aligns \subseteq Nat \ {0} /\ MaxResizes \in Nat

WORD == 8
UNIT == 2 * WORD            \* granularity of sizes; also a tail and a head
NULL == 0
FREE_FLAG == 1
AREA_FLAG == 2
FLAG_BITS == 8              \* flags are the tag modulo 8
End == Base + Size
Words == {Base + WORD * i : i \in 0 .. (Size \div WORD) - 1}

LargeBlk == Len(Limits)     \* pool->large_blk, listed after freed[0], freed[1], ...
Lists == 0 .. LargeBlk

VARIABLES
    pool,       \* [mem, freed, alloced]: the memory and struct mpool
    held,       \* held[o]: what client o got back, with what it asked for
    resizes,    \* calls of realloc so far
    halted      \* the CPU faulted inside the heap, with its lock held

vars == <<pool, held, resizes, halted>>

Nothing == [ptr |-> NULL, req |-> 0, align |-> 1, filled |-> 0]

-----------------------------------------------------------------------------
(* block.hpp                                                               *)

PADDING(n) == IF n = 0 THEN UNIT ELSE ((n + UNIT - 1) \div UNIT) * UNIT

blk_head(h, p) == h.mem[p - WORD]
blk_prevtail(h, p) == h.mem[p - 2 * WORD]
blk_nexthead(h, p, n) == h.mem[p + n + WORD]
blk_size(h, p) == (blk_head(h, p) \div FLAG_BITS) * FLAG_BITS

Freed(tag) == tag % 2 = FREE_FLAG
AreaMark(tag) == (tag \div AREA_FLAG) % 2 = 1

blk_setsize(h, p, n) == [h EXCEPT !.mem = [@ EXCEPT ![p - WORD] = n, ![p + n] = n]]

(* Both tags of a block get their free flag set or cleared.                *)
Flagged(tag, free) == IF free THEN tag + (1 - (tag % 2)) ELSE tag - (tag % 2)

(* Slip: only the head tag gets the flag.                                  *)
SetHeadFlag(h, p, free) == [h EXCEPT !.mem[p - WORD] = Flagged(@, free)]

SetFreeFlag(h, p, free) ==
    LET tail == p + blk_size(h, p)
    IN  [h EXCEPT !.mem = [@ EXCEPT ![p - WORD] = Flagged(@, free),
                                    ![tail] = Flagged(@, free)]]

blk_split(h, p, n) ==
    blk_setsize(blk_setsize(h, p, n), p + n + UNIT, blk_size(h, p) - n - UNIT)

-----------------------------------------------------------------------------
(* freelist.hpp; a free block starts with its next and prev pointers.      *)

LinkNext(h, p) == h.mem[p]
LinkPrev(h, p) == h.mem[p + WORD]

freelists_size2id(n) ==
    LET fits == {i \in 0 .. LargeBlk - 1 : n < Limits[i + 1]}
    IN  IF fits = {} THEN LargeBlk ELSE Min(fits)

(* The head keeps whatever prev it has: only a node that is not the head   *)
(* has its prev followed.                                                  *)
freelist_detach(h, id, p) ==
    LET nx == LinkNext(h, p)
        pv == LinkPrev(h, p)
        m  == IF nx = NULL THEN h.mem ELSE [h.mem EXCEPT ![nx + WORD] = pv]
    IN  IF h.freed[id] = p
        THEN [h EXCEPT !.freed[id] = nx]
        ELSE [h EXCEPT !.mem = IF pv = NULL THEN m ELSE [m EXCEPT ![pv] = nx]]

(* Slip: the old head does not learn of its new predecessor.               *)
PutNoBackLink(h, id, p) ==
    [h EXCEPT !.freed[id] = p, !.mem = [@ EXCEPT ![p] = h.freed[id], ![p + WORD] = NULL]]

freelist_put(h, id, p) ==
    LET old == h.freed[id]
        m   == [h.mem EXCEPT ![p] = old, ![p + WORD] = NULL]
    IN  [h EXCEPT !.freed[id] = p,
                  !.mem = IF old = NULL THEN m ELSE [m EXCEPT ![old + WORD] = p]]

PADDING_UP(p, align) == ((p + align - 1) \div align) * align
aligned_size_of(h, p, align) == blk_size(h, p) - (PADDING_UP(p, align) - p)

(* The first node of a list with n bytes from its first aligned address    *)
(* on, or NULL; with align = 1 that is any block of n bytes.               *)
FirstFit(h, head, n, align) ==
    LET walk[p \in Words \cup {NULL}] ==
            IF p = NULL THEN NULL
            ELSE IF aligned_size_of(h, p, align) >= n THEN p
            ELSE walk[LinkNext(h, p)]
    IN  walk[head]

(* Slip: the search starts one class too high.                             *)
NextList(n) == Min({freelists_size2id(n) + 1, LargeBlk})

(* freelists_(aligned_)match, then freelist_(aligned_)match on the large   *)
(* list: the request's own class first, then the larger ones.              *)
FirstList(n) == freelists_size2id(n)

Match(h, n, align) ==
    LET hits == {i \in FirstList(n) .. LargeBlk :
                    FirstFit(h, h.freed[i], n, align) # NULL}
    IN  IF hits = {}
        THEN [pool |-> h, ptr |-> NULL]
        ELSE LET p == FirstFit(h, h.freed[Min(hits)], n, align)
             IN  [pool |-> freelist_detach(h, Min(hits), p), ptr |-> p]

-----------------------------------------------------------------------------
(* pool.cpp                                                                *)

_detach(h, p) == freelist_detach(h, freelists_size2id(blk_size(h, p)), p)

do_free(h, p) ==
    freelist_put(SetFreeFlag(h, p, TRUE), freelists_size2id(blk_size(h, p)), p)

(* Slip: remainders of six words are split off too.                        *)
SplitEagerly(h, p, n) ==
    IF blk_size(h, p) >= n + 6 * WORD
    THEN do_free(blk_split(h, p, n), p + n + UNIT)
    ELSE h

try_split_and_free(h, p, n) ==
    IF blk_size(h, p) >= n + 8 * WORD
    THEN do_free(blk_split(h, p, n), p + n + UNIT)
    ELSE h

(* Slip: the size asked for is counted, not the size of the block.         *)
HandOutCountingRequest(h, p, n) ==
    LET g == try_split_and_free(h, p, n)
    IN  [pool |-> [SetFreeFlag(g, p, FALSE) EXCEPT !.alloced = (@ + n) % SizeT],
         ptr  |-> p]

(* The end of both allocation functions: p is detached and large enough.   *)
HandOut(h, p, n) ==
    LET g == try_split_and_free(h, p, n)
    IN  [pool |-> [SetFreeFlag(g, p, FALSE) EXCEPT !.alloced = (@ + blk_size(g, p)) % SizeT],
         ptr  |-> p]

(* cb_reqmem is never set on the kernel's pool, so mpool_reqmem fails.     *)
mpool_alloc(h, size) ==
    LET n == PADDING(size)
        m == Match(h, n, 1)
    IN  IF m.ptr = NULL THEN m ELSE HandOut(m.pool, m.ptr, n)

(* The block in front of the aligned address is freed on its own.          *)
SplitOffset(offset) == offset - UNIT

mpool_aligned_alloc(h, size, align) ==
    LET n == PADDING(size)
        m == Match(h, n, align)
        a == PADDING_UP(m.ptr, align)
        g == do_free(blk_split(m.pool, m.ptr, SplitOffset(a - m.ptr)), m.ptr)
    IN  CASE \A i \in 0 .. 30 : align # 2 ^ i -> [pool |-> h, ptr |-> NULL]
          [] align < UNIT                     -> mpool_alloc(h, size)
          [] m.ptr = NULL                     -> m
          [] a = m.ptr                        -> HandOut(m.pool, a, n)
          [] OTHER                            -> HandOut(g, a, n)

blk_mergenext(h, p) ==
    LET q == p + blk_size(h, p) + UNIT
    IN  blk_setsize(_detach(h, q), p, blk_size(h, p) + blk_size(h, q) + UNIT)

blk_mergeprev(h, p) ==
    LET q == p - UNIT - (blk_prevtail(h, p) \div FLAG_BITS) * FLAG_BITS
    IN  [pool |-> blk_setsize(_detach(h, q), q, blk_size(h, p) + blk_size(h, q) + UNIT),
         ptr  |-> q]

MergeableNext(h, p) ==
    LET tag == blk_nexthead(h, p, blk_size(h, p)) IN ~AreaMark(tag) /\ Freed(tag)

(* Slip: the previous block's head is looked at where its tail should be.  *)
PrevNeverFree(h, p) == Freed(blk_head(h, p))

MergeablePrev(h, p) ==
    LET tag == blk_prevtail(h, p) IN ~AreaMark(tag) /\ Freed(tag)

blk_trymerge(h, p) ==
    LET g == IF MergeableNext(h, p) THEN blk_mergenext(h, p) ELSE h
    IN  IF MergeablePrev(g, p) THEN blk_mergeprev(g, p) ELSE [pool |-> g, ptr |-> p]

mpool_free(h, p) ==
    LET m == blk_trymerge([h EXCEPT !.alloced = (@ - blk_size(h, p)) % SizeT], p)
    IN  do_free(m.pool, m.ptr)

(* memcpy(new_ptr, ptr, size)                                              *)
Copy(h, to, from, n) ==
    [h EXCEPT !.mem = [w \in Words |->
        IF w \in to .. to + n - WORD THEN h.mem[w - to + from] ELSE h.mem[w]]]

(* mpool_realloc and, with an alignment of two words or more,              *)
(* mpool_aligned_realloc.  A failed move is a memcpy to address NULL.      *)
ResizeInPlace(h, p, n) ==
    [pool |-> try_split_and_free(h, p, n), ptr |-> p]

(* Slip: the old block is freed before it is copied.                       *)
FreeThenCopy(h, p, newsize, align) ==
    LET n   == PADDING(newsize)
        old == blk_size(h, p)
        m   == mpool_aligned_alloc(h, n, align)
    IN  IF old >= n THEN ResizeInPlace(h, p, n)
        ELSE IF m.ptr = NULL THEN m
        ELSE [pool |-> Copy(mpool_free(m.pool, p), m.ptr, p, old), ptr |-> m.ptr]

mpool_realloc(h, p, newsize, align) ==
    LET n     == PADDING(newsize)
        old   == blk_size(h, p)
        total == old + UNIT + blk_size(h, p + old + UNIT)
        m     == mpool_aligned_alloc(h, n, align)
    IN  CASE old >= n -> ResizeInPlace(h, p, n)
          [] old < n /\ MergeableNext(h, p) /\ total >= n
                      -> ResizeInPlace(blk_mergenext(h, p), p, n)
          [] OTHER    -> IF m.ptr = NULL
                         THEN m
                         ELSE [pool |-> mpool_free(Copy(m.pool, m.ptr, p, old), p),
                               ptr  |-> m.ptr]

-----------------------------------------------------------------------------
(* heap.cpp and its clients                                                *)

(* mpool_init with allocarea_init.                                         *)
Init ==
    LET first == Base + UNIT
        n     == Size - 2 * UNIT
        zero  == [w \in Words |-> 0]
        area  == [zero EXCEPT ![Base] = AREA_FLAG, ![End - WORD] = AREA_FLAG]
        empty == [mem |-> area, freed |-> [i \in Lists |-> NULL], alloced |-> 0]
    IN  /\ pool = freelist_put(SetFreeFlag(blk_setsize(empty, first, n), first, TRUE),
                               LargeBlk, first)
        /\ held = [o \in Owner |-> Nothing]
        /\ resizes = 0
        /\ halted = FALSE

(* The client writes its mark over the whole block it got.                 *)
Fill(h, p, n, mark) ==
    [h EXCEPT !.mem = [w \in Words |->
        IF w \in p .. p + n - WORD THEN mark ELSE h.mem[w]]]

Receive(o, r, n, align) ==
    IF r.ptr = NULL
    THEN UNCHANGED <<pool, held>>
    ELSE LET usable == blk_size(r.pool, r.ptr)
         IN  /\ pool' = Fill(r.pool, r.ptr, usable, o)
             /\ held' = [held EXCEPT ![o] =
                    [ptr |-> r.ptr, req |-> n, align |-> align, filled |-> usable]]

malloc(o, n) ==
    /\ ~halted /\ held[o] = Nothing
    /\ Receive(o, mpool_alloc(pool, n), n, 1)
    /\ UNCHANGED <<resizes, halted>>

aligned_alloc(o, n, align) ==
    /\ ~halted /\ held[o] = Nothing
    /\ Receive(o, mpool_aligned_alloc(pool, n, align), n, align)
    /\ UNCHANGED <<resizes, halted>>

(* The client wipes what it wrote before it gives the block back.          *)
free(o) ==
    /\ ~halted /\ held[o] # Nothing
    /\ pool' = mpool_free(Fill(pool, held[o].ptr, held[o].filled, 0), held[o].ptr)
    /\ held' = [held EXCEPT ![o] = Nothing]
    /\ UNCHANGED <<resizes, halted>>

(* realloc without alignment, or mpool_aligned_realloc with the alignment  *)
(* of the first allocation.                                                *)
realloc(o, n, align) ==
    /\ ~halted /\ held[o] # Nothing
    /\ resizes < MaxResizes /\ resizes' = resizes + 1
    /\ align \in {1, held[o].align}
    /\ LET r == mpool_realloc(pool, held[o].ptr, n, align)
       IN  IF r.ptr = NULL
           THEN halted' = TRUE /\ UNCHANGED <<pool, held>>
           ELSE /\ pool' = r.pool
                /\ held' = [held EXCEPT ![o] =
                       [ptr |-> r.ptr, req |-> n, align |-> align,
                        filled |-> Min({@.filled, blk_size(r.pool, r.ptr)})]]
                /\ UNCHANGED halted

Next ==
    \E o \in Owner :
        \/ free(o)
        \/ \E n \in Sizes :
            \/ malloc(o, n)
            \/ \E a \in Aligns : aligned_alloc(o, n, a)
            \/ \E a \in Aligns \cup {1} : realloc(o, n, a)

Spec == Init /\ [][Next]_vars

-----------------------------------------------------------------------------
(* Properties                                                              *)

(* The blocks found by walking the head tags from the start of the area.   *)
BlockStarts ==
    LET from[p \in Words \cup {End}] ==
            IF p = End THEN {} ELSE {p} \cup from[p + blk_size(pool, p) + UNIT]
    IN  from[Base + UNIT]

FreeStarts == {p \in BlockStarts : Freed(blk_head(pool, p))}
LiveStarts == {p \in BlockStarts : ~Freed(blk_head(pool, p))}

(* The nodes reached from the head of a list, in order.                    *)
Chain(id) ==
    LET from[p \in Words \cup {NULL}] ==
            IF p = NULL THEN <<>> ELSE <<p>> \o from[LinkNext(pool, p)]
    IN  from[pool.freed[id]]

(* The boundary tags describe the area: head and tail of every block agree *)
(* in size and flag, the markers at both ends survive, and the blocks not  *)
(* marked free are exactly the ones clients hold.                          *)
TagsAgree ==
    /\ pool.mem[Base] = AREA_FLAG /\ pool.mem[End - WORD] = AREA_FLAG
    /\ \A p \in BlockStarts : pool.mem[p + blk_size(pool, p)] = blk_head(pool, p)
    /\ LiveStarts = {held[o].ptr : o \in Owner} \ {NULL}

(* The free lists hold every free block once, in the list of its size, and *)
(* a node that is not the head points back to its predecessor: what        *)
(* freelist_detach relies on when a neighbour is merged out of the middle. *)
FreeListsExact ==
    LET frees == FreeStarts IN
    \A id \in Lists :
        LET c == Chain(id)
        IN  /\ {c[i] : i \in DOMAIN c}
                 = {p \in frees : freelists_size2id(blk_size(pool, p)) = id}
            /\ \A i, j \in DOMAIN c : c[i] = c[j] => i = j
            /\ \A i \in DOMAIN c \ {1} : LinkPrev(pool, c[i]) = c[i - 1]

(* alloc.hpp: an allocation is aligned as asked, has at least the size     *)
(* asked for, and keeps what its owner wrote until it is freed, across     *)
(* moves by realloc too.                                                   *)
ClientsServed ==
    \A o \in Owner : held[o] # Nothing =>
        LET p == held[o].ptr
        IN  /\ p % held[o].align = 0
            /\ blk_size(pool, p) >= held[o].req
            /\ \A w \in Words : w \in p .. p + held[o].filled - WORD =>
                   pool.mem[w] = o

(* mpool_alloc gives up only when no free block is large enough, although  *)
(* it never looks into the lists of smaller classes.                       *)
SearchComplete ==
    LET frees == FreeStarts IN
    \A n \in Sizes :
        mpool_alloc(pool, n).ptr = NULL
            <=> \A p \in frees : blk_size(pool, p) < PADDING(n)

(* alloc.hpp:180 "returns the total of the memory allocated".  Claimed     *)
(* until the first realloc: one in place changes a block's size and leaves *)
(* alloced_size alone.                                                     *)
AllocedExact ==
    resizes = 0 =>
        pool.alloced = FoldSet(LAMBDA p, sum : sum + blk_size(pool, p), 0,
                               LiveStarts)

(* mpool_free leaves no two adjacent free blocks behind, so the heap never *)
(* fragments further than its live blocks force it to.  Claimed until the  *)
(* first realloc, which frees the rest of a shrunk block without a merge.  *)
Coalesced ==
    LET frees == FreeStarts IN
    resizes = 0 => \A p \in frees : p + blk_size(pool, p) + UNIT \notin frees

-----------------------------------------------------------------------------
(* The block-level view: the tags read in units of two words.              *)

Units == 1 .. (Size \div UNIT) - 1
At(u) == Base + UNIT * u

AbstractHeap ==
    LET starts == BlockStarts
        frees  == FreeStarts
    IN  [size |-> [u \in Units |-> IF At(u) \in starts
                                   THEN blk_size(pool, At(u)) \div UNIT
                                   ELSE 0],
         free |-> [u \in Units |-> At(u) \in frees]]

Blocks == INSTANCE BlockHeap WITH
    N        <- Size \div UNIT,
    Requests <- {PADDING(n) \div UNIT : n \in Sizes},
    heap     <- AbstractHeap

(* Every heap call is one of the block operations, or changes no block.    *)
ImplementsBlockHeap == Blocks!Spec
=============================================================================
