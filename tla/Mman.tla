-------------------------------- MODULE Mman --------------------------------
(***************************************************************************)
(* The memory manager of mm/heap/mman.cpp: a main area and child areas     *)
(* asked for through cb_reqmem and given back through cb_delmem when they  *)
(* are empty, free lists across all of them, and large blocks of their own *)
(* kept in the hash table of large-blk.hpp.  The kernel compiles it and    *)
(* does not call it; its clients here are any caller of its interface.     *)
(*                                                                         *)
(* Addresses and block sizes are in units of 2 * sizeof(size_t), requests  *)
(* in bytes.  A block is its size and two of its flags; that head and tail *)
(* tag agree and that the links of a list lead both ways is the subject of *)
(* Mpool, whose block and list functions are the same ones.                *)
(*                                                                         *)
(* man.wild names the place where the code followed a pointer that leads   *)
(* nowhere (NULL, a word that is no tag, memory given back).  What happens *)
(* then is open, and the behaviour ends.                                   *)
(***************************************************************************)
EXTENDS Integers, Sequences, FiniteSets, SequencesExt, FiniteSetsExt, Bitwise

CONSTANTS
    Page,       \* SIZE_4k in units
    Big,        \* SIZE_2M in units
    Pages,      \* the page numbers behind cb_reqmem; page 0 is not among them
    MainSize,   \* size of the area given to mman_init
    LargeSize,  \* ALLOC_LARGE_BLK_SIZE in units, also FREELIST_MAXBLKSIZE
    Limits,     \* Limits[i + 1]: sizes from here on are too large for freed[i]
    Buckets,    \* LARGEBLKLIST_NUM
    Client,     \* the callers, each holding at most one block
    Sizes,      \* the sizes in bytes they ask for
    Aligns,     \* the alignments in bytes they ask for
    MaxResizes  \* bound on the calls of mman_realloc

ASSUME AreaAssumption ==
    /\ Page \in Nat /\ Page >= 8 /\ Big % Page = 0 /\ Big > Page
    /\ MainSize \in {Page, Big}
    /\ Pages \subseteq Nat \ {0}
ASSUME ListAssumption ==
    /\ \A i \in 1 .. Len(Limits) - 1 : Limits[i] < Limits[i + 1]
    /\ Limits[Len(Limits)] = LargeSize
    /\ LargeSize > Page /\ LargeSize < Big
    /\ Buckets \in Nat \ {0}

NULL == 0
WORD == 8
UNIT == 2 * WORD
Gap == 1                    \* a tail word and the next head word
Header == 2                 \* PADDING(sizeof(struct mman_pool))
SplitMargin == 4            \* remainders of 8 words or more are split off
LargeBlk == Len(Limits)     \* man->large_blk, listed after the freed[]
Lists == 0 .. LargeBlk

VARIABLES
    man,        \* struct mman and the blocks in its areas
    held,       \* held[c]: what client c got, and for which request
    resizes,    \* calls of mman_realloc so far
    resized     \* the areas in which a block was resized in place

vars == <<man, held, resizes, resized>>

Nowhere == ""
Nothing == [ptr |-> NULL, req |-> 0, align |-> 1]

Lost(h, place) == [h EXCEPT !.wild = place]
Fail(h) == [man |-> h, ptr |-> NULL]
Wild(h, place) == Fail(Lost(h, place))

-----------------------------------------------------------------------------
(* The callbacks: pages from the lowest free address on, a 2M area aligned *)
(* to its size, NULL only when there is no room (alloc.hpp, cb_reqmem_t).  *)

PagesOf(b, n) == b \div Page .. (b + n - 1) \div Page

reqmem(h, n) ==
    LET align == IF n = Big THEN Big ELSE Page
        sites == {b \in {Page * i : i \in Pages} :
                     b % align = 0 /\ PagesOf(b, n) \subseteq Pages \ h.mem}
    IN  IF sites = {} THEN NULL ELSE Min(sites)

Granted(h, b, n) == [h EXCEPT !.mem = @ \cup PagesOf(b, n)]
delmem(h, b, n) == [h EXCEPT !.mem = @ \ PagesOf(b, n)]

-----------------------------------------------------------------------------
(* block.hpp and freelist.hpp                                              *)

(* In units, at least one.                                                 *)
PADDING(bytes) == IF bytes = 0 THEN 1 ELSE (bytes + UNIT - 1) \div UNIT

Aligned(p) == p % Page = 0
Up(p, align) == ((p + align - 1) \div align) * align

(* The area a block belongs to, found by its SIZE_FLAG alone.              *)
blk_areaptr(h, p) ==
    IF h.blk[p].big THEN (p \div Big) * Big ELSE (p \div Page) * Page

NextOf(h, p) == p + h.blk[p].size + Gap

With(h, p, b) ==
    [x \in DOMAIN h.blk \cup {p} |-> IF x = p THEN b ELSE h.blk[x]]

(* Slip: the second part is not marked with the size of its area.          *)
SplitUnmarked(h, p, n) ==
    LET b     == h.blk[p]
        first == [size |-> n, free |-> FALSE, big |-> b.big]
        rest  == [size |-> b.size - n - Gap, free |-> FALSE, big |-> FALSE]
    IN  [h EXCEPT !.blk = With([h EXCEPT !.blk = With(h, p, first)], p + n + Gap, rest)]

(* Both parts keep the SIZE_FLAG, neither the free flag.                   *)
blk_split(h, p, n) ==
    LET b     == h.blk[p]
        first == [size |-> n, free |-> FALSE, big |-> b.big]
        rest  == [first EXCEPT !.size = b.size - n - Gap]
    IN  [h EXCEPT !.blk = With([h EXCEPT !.blk = With(h, p, first)], p + n + Gap, rest)]

freelists_size2id(n) ==
    LET fits == {i \in 0 .. LargeBlk - 1 : n < Limits[i + 1]}
    IN  IF fits = {} THEN LargeBlk ELSE Min(fits)

(* Slip: a block is put back into the list of the class below.             *)
ListBelow(h, p) == Max({freelists_size2id(h.blk[p].size) - 1, 0})

ListOf(h, p) == freelists_size2id(h.blk[p].size)

freelist_put(h, id, p) == [h EXCEPT !.lists[id] = <<p>> \o @]

(* The list is found by the block's size.  A node that is not that list's  *)
(* head is unlinked wherever it is; as the head of another list it would   *)
(* stay there, with its stale prev written through.                        *)
_detach(h, p) ==
    IF \E id \in Lists \ {freelists_size2id(h.blk[p].size)} :
           h.lists[id] # <<>> /\ Head(h.lists[id]) = p
    THEN Lost(h, "list")
    ELSE [h EXCEPT !.lists = [id \in Lists |-> Remove(h.lists[id], p)]]

(* The first block of list id with n units from its first aligned one on.  *)
FirstFit(h, id, n, align) ==
    LET list == h.lists[id]
        fits == {i \in DOMAIN list :
                   h.blk[list[i]].size - (Up(list[i], align) - list[i]) >= n}
    IN  IF fits = {} THEN NULL ELSE list[Min(fits)]

(* freelists_(aligned_)match and freelist_(aligned_)match on the lists ids.*)
Match(h, ids, n, align) ==
    LET hits == {id \in ids : FirstFit(h, id, n, align) # NULL}
        p    == FirstFit(h, Min(hits), n, align)
    IN  IF hits = {}
        THEN Fail(h)
        ELSE [man |-> [h EXCEPT !.lists[Min(hits)] = Remove(@, p)], ptr |-> p]

(* p absorbs the block q behind it; the one that is free leaves its list.  *)
(* blk_setsize clears the flags.                                           *)
Merge(h, p, q, freed) ==
    LET g == _detach(h, freed)
        b == [size |-> h.blk[p].size + h.blk[q].size + Gap, free |-> FALSE, big |-> FALSE]
    IN  [g EXCEPT !.blk = [x \in DOMAIN h.blk \ {q} |-> IF x = p THEN b ELSE h.blk[x]]]

blk_mergenext(h, p) == Merge(h, p, NextOf(h, p), NextOf(h, p))

MergeableNext(h, p) == NextOf(h, p) \in DOMAIN h.blk /\ h.blk[NextOf(h, p)].free

(* Slip: a free block in front is left alone.                              *)
TryMergeNext(h, p) ==
    LET g == IF MergeableNext(h, p) THEN blk_mergenext(h, p) ELSE h
    IN  [man |-> [g EXCEPT !.blk[p].big = h.blk[p].big], ptr |-> p]

(* The SIZE_FLAG is saved across the merges.                               *)
blk_trymerge(h, p) ==
    LET g    == IF MergeableNext(h, p) THEN blk_mergenext(h, p) ELSE h
        prev == {r \in DOMAIN g.blk : g.blk[r].free /\ NextOf(g, r) = p}
        r    == IF prev = {} THEN p ELSE Min(prev)
        m    == IF prev = {} THEN g ELSE Merge(g, r, p, r)
    IN  [man |-> [m EXCEPT !.blk[r].big = h.blk[p].big], ptr |-> r]

-----------------------------------------------------------------------------
(* large-blk.hpp                                                           *)

Hash(p) ==
    LET page == p \div Page
    IN  (page | (page \div Buckets) \div 2) % Buckets

large_blk_find(h, p) == {b \in ToSet(h.large[Hash(p)]) : b.ptr = p}

(* The new node heads its bucket, and its links are reset once more after  *)
(* it is linked: what followed is cut off.  The node itself is malloc'ed,  *)
(* which may fail.                                                         *)
Bucket(h, p, n) == <<[ptr |-> p, size |-> n]>>

large_blk_alloc(h, n, gotNode) ==
    LET len == Up(n, Page)
        p   == reqmem(h, len)
    IN  IF ~h.cb THEN Wild(h, "callback")
        ELSE IF p = NULL \/ ~gotNode THEN Fail(h)
        ELSE [man |-> [Granted(h, p, len) EXCEPT !.large[Hash(p)] = Bucket(h, p, len)],
              ptr |-> p]

(* Slip: the block leaves the table and its pages are not given back.      *)
LargeFreeKept(h, p) ==
    LET b == CHOOSE b \in large_blk_find(h, p) : TRUE
    IN  [h EXCEPT !.large[Hash(p)] = Remove(@, b)]

(* p is known to be in the table, so cb_delmem was set when it was made.   *)
large_blk_free(h, p) ==
    LET b == CHOOSE b \in large_blk_find(h, p) : TRUE
    IN  delmem([h EXCEPT !.large[Hash(p)] = Remove(@, b)], p, b.size)

-----------------------------------------------------------------------------
(* mman.cpp                                                                *)

(* An area that holds the struct mman_pool of itself, then one free block, *)
(* which goes to large_blk whatever its size.                              *)
RESERVED == 3 * WORD + 4 * WORD     \* what is added to the request, in bytes

mman_reqmem(h, n) ==
    LET need == n * UNIT + RESERVED
        len  == IF need > Page * UNIT THEN Big ELSE Page
        b    == reqmem(h, len)
        p    == b + 1 + Header + Gap
        pool == [size |-> Header, free |-> FALSE, big |-> len = Big]
        rest == [size |-> len - 2 - Header - Gap, free |-> TRUE, big |-> len = Big]
        g    == [Granted(h, b, len) EXCEPT
                    !.size = @ + len,
                    !.pools = [x \in DOMAIN @ \cup {b} |->
                                IF x = b THEN [alloced |-> 0, len |-> len] ELSE @[x]],
                    !.blk = With([h EXCEPT !.blk = With(h, b + 1, pool)], p, rest)]
    IN  IF ~h.cb \/ need > Big * UNIT \/ b = NULL
        THEN [man |-> h, ok |-> FALSE]
        ELSE [man |-> freelist_put(g, LargeBlk, p), ok |-> TRUE]

do_free(h, p) == freelist_put([h EXCEPT !.blk[p].free = TRUE], ListOf(h, p), p)

try_split_and_free(h, p, n) ==
    IF h.blk[p].size >= n + SplitMargin
    THEN do_free(blk_split(h, p, n), p + n + Gap)
    ELSE h

(* Adds d to the pool of p's area and to the manager's total.              *)
Count(h, p, d) ==
    LET b == blk_areaptr(h, p)
    IN  IF b \notin DOMAIN h.pools THEN Lost(h, "area")
        ELSE [h EXCEPT !.pools[b].alloced = @ + d, !.alloced = @ + d]

(* Slip: what was asked for is counted, not what was handed out.           *)
HandOutCountingRequest(h, p, n) ==
    LET g == try_split_and_free(h, p, n)
    IN  [man |-> Count([g EXCEPT !.blk[p].free = FALSE], p, n), ptr |-> p]

(* The end of both allocation functions.                                   *)
HandOut(h, p, n) ==
    LET g == try_split_and_free(h, p, n)
    IN  [man |-> Count([g EXCEPT !.blk[p].free = FALSE], p, g.blk[p].size), ptr |-> p]

(* The block in front of the aligned address is freed on its own; with one *)
(* unit it would have no room for itself, and its links overwrite tags.    *)
AlignAndHandOut(h, p, n, align) ==
    LET k == Up(p, align) - p
    IN  CASE k = 0 -> HandOut(h, p, n)
          [] k = 1 -> Wild(h, "empty block")
          [] OTHER -> HandOut(do_free(blk_split(h, p, k - Gap), p), p + k, n)

(* From the lists, or from a new area of `more` units.  The second match   *)
(* is not checked for NULL.                                                *)
Allocate(h, n, align, more) ==
    LET m == Match(h, freelists_size2id(n) .. LargeBlk, n, align)
        r == mman_reqmem(h, more)
        t == Match(r.man, {LargeBlk}, n, align)
    IN  CASE m.ptr # NULL                        -> AlignAndHandOut(m.man, m.ptr, n, align)
          [] m.ptr = NULL /\ ~r.ok               -> Fail(h)
          [] m.ptr = NULL /\ r.ok /\ t.ptr = NULL -> Wild(h, "no match")
          [] OTHER                               -> AlignAndHandOut(t.man, t.ptr, n, align)

alloc(h, bytes, gotNode) ==
    LET n == PADDING(bytes)
    IN  IF n >= LargeSize THEN large_blk_alloc(h, n, gotNode) ELSE Allocate(h, n, 1, n)

PowerOfTwo(a) == \E i \in 0 .. 30 : a = 2 ^ i

aligned_alloc(h, bytes, align, gotNode) ==
    LET n     == PADDING(bytes)
        units == align \div UNIT
        l     == large_blk_alloc(h, n, gotNode)
    IN  CASE ~PowerOfTwo(align) -> Fail(h)
          [] PowerOfTwo(align) /\ align < UNIT -> alloc(h, bytes, gotNode)
          [] PowerOfTwo(align) /\ align >= UNIT /\ (n >= LargeSize \/ units >= LargeSize) ->
                IF l.ptr % units = 0 THEN l ELSE Fail(large_blk_free(l.man, l.ptr))
          [] OTHER -> Allocate(h, n, units, n + units)

(* Slip: an area is given back although its count is not zero.             *)
NotMain(h, b) == b # h.main

Empty(h, b) == b # h.main /\ h.pools[b].alloced = 0

InArea(h, b) == {p \in DOMAIN h.blk : b <= p /\ p < b + h.pools[b].len}

(* mman_delmem.  A free block still listed would leave its list leading    *)
(* into memory that is gone.                                               *)
GiveBack(h, b) ==
    LET gone == InArea(h, b)
        g    == [delmem(h, b, h.pools[b].len) EXCEPT
                    !.size = @ - h.pools[b].len,
                    !.pools = [x \in DOMAIN @ \ {b} |-> @[x]],
                    !.blk = [p \in DOMAIN @ \ gone |-> @[p]]]
    IN  IF \E id \in Lists : ToSet(h.lists[id]) \cap gone # {} THEN Lost(g, "list") ELSE g

(* A pointer at a page boundary is looked up in the large-block table      *)
(* first; what is not found there is taken for a block.                    *)
free(h, p) ==
    LET b == blk_areaptr(h, p)
        m == blk_trymerge(Count(h, p, -h.blk[p].size), p)
    IN  IF Aligned(p) /\ large_blk_find(h, p) # {} THEN large_blk_free(h, p)
        ELSE IF p \notin DOMAIN h.blk THEN Lost(h, "no tag")
        ELSE IF b \notin DOMAIN h.pools THEN Lost(h, "area")
        ELSE IF m.man.cb /\ Empty(m.man, b) THEN GiveBack(m.man, b)
        ELSE do_free(m.man, m.ptr)

(* mman_realloc, and mman_aligned_realloc where align is a unit or more: a *)
(* block is resized in place, except at a page boundary, or moved.  The    *)
(* counts are not adjusted in place.  A large block has no tag to read its *)
(* size from.  The copy is of the old size, whichever is larger.           *)
InPlace(h, p, n) ==
    IF Aligned(p)
    THEN h.blk[p].size >= n /\ h.blk[p].size - n < 2 * Page
    ELSE \/ h.blk[p].size >= n
         \/ MergeableNext(h, p) /\ h.blk[p].size + Gap + h.blk[NextOf(h, p)].size >= n

Resize(h, p, n) ==
    IF Aligned(p) THEN h
    ELSE IF h.blk[p].size >= n THEN try_split_and_free(h, p, n)
    ELSE try_split_and_free(blk_mergenext(h, p), p, n)

realloc(h, p, bytes, align, gotNode) ==
    LET n == PADDING(bytes)
        m == aligned_alloc(h, bytes, align, gotNode)
    IN  CASE p \notin DOMAIN h.blk -> Wild(h, "no tag")
          [] p \in DOMAIN h.blk /\ InPlace(h, p, n) -> [man |-> Resize(h, p, n), ptr |-> p]
          [] OTHER ->
                IF m.ptr = NULL \/ h.blk[p].size > n THEN Wild(m.man, "copy")
                ELSE [man |-> free(m.man, p), ptr |-> m.ptr]

-----------------------------------------------------------------------------
(* The manager and its callers                                             *)

Init ==
    LET b == Page * Min(Pages)
    IN  /\ man = [main    |-> b,
                  pools   |-> [x \in {b} |-> [alloced |-> 0, len |-> MainSize]],
                  blk     |-> [p \in {b + 1} |->
                                [size |-> MainSize - 2, free |-> TRUE, big |-> MainSize = Big]],
                  lists   |-> [id \in Lists |-> IF id = LargeBlk THEN <<b + 1>> ELSE <<>>],
                  large   |-> [i \in 0 .. Buckets - 1 |-> <<>>],
                  size    |-> MainSize,
                  alloced |-> 0,
                  cb      |-> FALSE,
                  mem     |-> PagesOf(b, MainSize),
                  wild    |-> Nowhere]
        /\ held = [c \in Client |-> Nothing]
        /\ resizes = 0
        /\ resized = {}

mman_setcb ==
    /\ man.wild = Nowhere
    /\ man' = [man EXCEPT !.cb = TRUE]
    /\ UNCHANGED <<held, resizes, resized>>

Receive(c, r, bytes, align) ==
    /\ man' = r.man
    /\ held' = IF r.ptr = NULL THEN held
               ELSE [held EXCEPT ![c] =
                       [ptr |-> r.ptr, req |-> PADDING(bytes), align |-> align]]

mman_alloc(c, bytes) ==
    /\ man.wild = Nowhere /\ held[c] = Nothing
    /\ \E gotNode \in BOOLEAN : Receive(c, alloc(man, bytes, gotNode), bytes, 1)
    /\ UNCHANGED <<resizes, resized>>

mman_aligned_alloc(c, bytes, align) ==
    /\ man.wild = Nowhere /\ held[c] = Nothing
    /\ \E gotNode \in BOOLEAN :
          Receive(c, aligned_alloc(man, bytes, align, gotNode), bytes, align)
    /\ UNCHANGED <<resizes, resized>>

mman_free(c) ==
    /\ man.wild = Nowhere /\ held[c] # Nothing
    /\ man' = free(man, held[c].ptr)
    /\ held' = [held EXCEPT ![c] = Nothing]
    /\ UNCHANGED <<resizes, resized>>

mman_realloc(c, bytes, align) ==
    LET p == held[c].ptr
        r(gotNode) == realloc(man, p, bytes, align, gotNode)
    IN  /\ man.wild = Nowhere /\ held[c] # Nothing
        /\ align \in {1, held[c].align}
        /\ resizes < MaxResizes /\ resizes' = resizes + 1
        /\ \E gotNode \in BOOLEAN : Receive(c, r(gotNode), bytes, align)
        /\ resized' = IF p \in DOMAIN man.blk /\ InPlace(man, p, PADDING(bytes))
                      THEN resized \cup {blk_areaptr(man, p)} ELSE resized

(* With a cb_delmem the loop over the areas ends by reading NULL->next.    *)
mman_deinit ==
    /\ man.wild = Nowhere /\ \A c \in Client : held[c] = Nothing
    /\ man' = IF man.cb THEN Lost(man, "deinit")
              ELSE [man EXCEPT !.main = NULL, !.pools = <<>>, !.blk = <<>>,
                               !.lists = [id \in Lists |-> <<>>],
                               !.large = [i \in 0 .. Buckets - 1 |-> <<>>],
                               !.size = 0, !.alloced = 0]
    /\ UNCHANGED <<held, resizes, resized>>

Next ==
    \/ mman_setcb \/ mman_deinit
    \/ \E c \in Client :
        \/ mman_free(c)
        \/ \E n \in Sizes :
            \/ mman_alloc(c, n)
            \/ \E a \in Aligns : mman_aligned_alloc(c, n, a)
            \/ \E a \in Aligns \cup {1} : mman_realloc(c, n, a)

Spec == Init /\ [][Next]_vars

-----------------------------------------------------------------------------
(* Properties                                                              *)

(* The rest is claimed until the code reads through a wild pointer, and    *)
(* until a block of a child area or of a 2M area is resized in place:      *)
(* mman_realloc adjusts neither the area's count, which decides when the   *)
(* area is given back, nor the merged block's SIZE_FLAG.                   *)
OnlyMainResized ==
    resized \subseteq {b \in DOMAIN man.pools : b = man.main /\ man.pools[b].len = Page}

Sound == man.wild = Nowhere /\ OnlyMainResized

Held == {c \in Client : held[c] # Nothing}
Span(c) == held[c].ptr .. held[c].ptr + held[c].req - 1

(* Every area is covered by its blocks, one behind the other, whichever    *)
(* area a request was served from, and all of them are marked with the     *)
(* size of their area (block.hpp:11), which is how mman_free finds it.     *)
AreasTiled ==
    Sound => \A b \in DOMAIN man.pools :
        LET blocks == InArea(man, b)
            end    == b + man.pools[b].len
        IN  /\ b + 1 \in blocks
            /\ \A p \in blocks : NextOf(man, p) \in blocks \cup {end}
            /\ \A p, q \in blocks : p < q => NextOf(man, p) <= q
            /\ \A p \in blocks : man.blk[p].big <=> man.pools[b].len = Big

(* Each free block is in one list, once, and that is the list _detach will *)
(* look in when a neighbour is freed; only a block without a neighbour to  *)
(* merge with may be in another, as after mman_init and mman_reqmem.       *)
ListsExact ==
    LET frees == {p \in DOMAIN man.blk : man.blk[p].free}
        alone(p) == /\ NextOf(man, p) \notin DOMAIN man.blk
                    /\ \A q \in DOMAIN man.blk \ {p} : NextOf(man, q) = p =>
                          q = blk_areaptr(man, q) + 1 /\ man.blk[q].size = Header
    IN  Sound =>
          /\ UNION {ToSet(man.lists[id]) : id \in Lists} = frees
          /\ \A id \in Lists : IsInjective(man.lists[id])
          /\ \A id \in Lists : \A p \in ToSet(man.lists[id]) :
                id = freelists_size2id(man.blk[p].size) \/ (id = LargeBlk /\ alone(p))

(* Merging never finds a neighbour at the head of a list it is not looked  *)
(* for in, no block leads to an area that is not there, and no area is     *)
(* given back while a list still leads into it.                            *)
NoStrayPointer == OnlyMainResized => man.wild \notin {"list", "area"}

(* What a client holds is aligned, large enough, shared with nobody and in *)
(* memory that was not given back: an allocated block of an area, or pages *)
(* outside of all areas.                                                   *)
ClientsBacked ==
    Sound => \A c \in Held :
        LET p == held[c].ptr
        IN  /\ p * UNIT % held[c].align = 0
            /\ PagesOf(p, held[c].req) \subseteq man.mem
            /\ \A d \in Held \ {c} : Span(c) \cap Span(d) = {}
            /\ IF p \in DOMAIN man.blk
               THEN ~man.blk[p].free /\ man.blk[p].size >= held[c].req
               ELSE \A b \in DOMAIN man.pools :
                       PagesOf(p, held[c].req) \cap PagesOf(b, man.pools[b].len) = {}

Sum(f, S) == FoldSet(LAMBDA x, total : total + f[x], 0, S)
SizeOf == [p \in DOMAIN man.blk |-> man.blk[p].size]
InUse(b) == {held[c].ptr : c \in Held} \cap InArea(man, b)

(* alloc.hpp:263,276: the counts are the memory allocated, per area and in *)
(* all, and the manager's size is that of its areas.                       *)
CountsExact ==
    Sound /\ resized = {} =>
        /\ \A b \in DOMAIN man.pools : man.pools[b].alloced = Sum(SizeOf, InUse(b))
        /\ man.alloced = Sum([b \in DOMAIN man.pools |-> man.pools[b].alloced],
                             DOMAIN man.pools)
        /\ man.size = Sum([b \in DOMAIN man.pools |-> man.pools[b].len], DOMAIN man.pools)

(* Memory goes back: a page is held for the main area, for a child area in *)
(* which some client has a block, or for a client's large block; nothing   *)
(* of what was asked for is kept when its last user is gone.               *)
NothingKept ==
    Sound => \A i \in man.mem \ PagesOf(Page * Min(Pages), MainSize) :
        \/ \E b \in DOMAIN man.pools :
              i \in PagesOf(b, man.pools[b].len) /\ InUse(b) # {}
        \/ \E c \in Held :
              held[c].ptr \notin DOMAIN man.blk /\ i \in PagesOf(held[c].ptr, held[c].req)
=============================================================================
