----------------------------- MODULE FrameAlloc -----------------------------
(***************************************************************************)
(* mm/frame.cpp: physical frames handed out from a bitmap in which a set   *)
(* bit is a usable free frame.  The code has no lock: CPUs interleave      *)
(* between the bytes find_range reads, and between the load and the store  *)
(* of each byte that set_range changes.  Several bits of one byte are      *)
(* changed together here, and a byte that is overwritten as a whole is     *)
(* loaded and then not used.                                               *)
(***************************************************************************)
EXTENDS Bitmap, Sequences, FiniteSetsExt, Bags

CONSTANTS
    PageSize,   \* bytes in a frame
    Frames,     \* frames up to the end of the last usable region
    Regions,    \* the usable regions of the memory map, [base, length], ascending
    Counts,     \* the counts callers ask for
    CPU,
    MaxClashes  \* after so many clashes of two CPUs calls are taken one at a time

ASSUME RegionsAssumption ==
    /\ PageSize \in Nat \ {0} /\ Frames \in Nat
    /\ Regions \in Seq([base : Nat \ {0}, length : Nat])
    /\ \A i \in DOMAIN Regions : Regions[i].base + Regions[i].length <= Frames
    /\ \E i \in DOMAIN Regions : Regions[i].base + Regions[i].length = Frames
ASSUME CountsAssumption == Counts \subseteq Nat /\ MaxClashes \in Nat

VARIABLES
    bitmap,     \* frame_allocator_bitmap
    held,       \* the ranges handed out and not yet freed, as a bag
    pc,         \* pc[c]: "out", or where in the allocator CPU c is
    loc,        \* loc[c]: the locals of its call
    clashes     \* steps so far that clashed with another CPU (Clash)

vars == <<bitmap, held, pc, loc, clashes>>

NoCall == [range |-> [first |-> 0, count |-> 0], value |-> FALSE, b |-> 0, byte |-> Uniform(FALSE)]
Out(c) == pc' = [pc EXCEPT ![c] = "out"] /\ loc' = [loc EXCEPT ![c] = NoCall]

Span(r) == r.first .. r.first + r.count - 1

(* bitmap_size counts bytes, and becomes the bitmap's size in bits.        *)
BitmapSize == (Frames + W - 1) \div W

(* Some usable region has that many bytes; the first of them holds the     *)
(* bitmap.                                                                 *)
ASSUME BitmapFits == \E i \in DOMAIN Regions : Regions[i].length * PageSize >= BitmapSize

BitmapBase ==
    Regions[Min({i \in DOMAIN Regions :
                    Regions[i].length * PageSize >= BitmapSize})].base
BitmapEnd == BitmapBase + (BitmapSize + PageSize - 1) \div PageSize

Usable == UNION {Regions[i].base .. Regions[i].base + Regions[i].length - 1 :
                    i \in DOMAIN Regions}
Reserved == ((0 .. Frames - 1) \ Usable) \cup (BitmapBase .. BitmapEnd - 1)

(* frame::init marks every usable region, then takes the bitmap's own      *)
(* frames back.                                                            *)
Marked ==
    LET after[k \in 0 .. Len(Regions)] ==
            IF k = 0 THEN init([i \in 0 .. Frames - 1 |-> FALSE], BitmapSize)
            ELSE set_range(after[k - 1], Regions[k].base,
                           Regions[k].base + Regions[k].length, TRUE)
    IN  after[Len(Regions)]

Init ==
    /\ bitmap = set_range(Marked, BitmapBase, BitmapEnd, FALSE)
    /\ held = EmptyBag
    /\ pc = [c \in CPU |-> "out"]
    /\ loc = [c \in CPU |-> NoCall]
    /\ clashes = 0

-----------------------------------------------------------------------------
(* A call from the first byte searched to the last byte stored             *)

Enters(c) == pc[c] = "out" /\ (clashes < MaxClashes \/ \A x \in CPU : pc[x] = "out")

alloc_frames(c, count) ==
    /\ Enters(c)
    /\ pc' = [pc EXCEPT ![c] = "scan"]
    /\ loc' = [loc EXCEPT ![c].range.count = count]
    /\ UNCHANGED <<bitmap, held, clashes>>

(* set_range on r: nothing to do, or its first byte.                       *)
Change(c, r, value) ==
    IF r.count = 0 THEN Out(c)
    ELSE /\ pc' = [pc EXCEPT ![c] = "load"]
         /\ loc' = [loc EXCEPT ![c] = [NoCall EXCEPT !.range = r, !.value = value,
                                                     !.b = r.first \div W]]

(* find_range(count, true): the count becomes the value looked for, and    *)
(* the length is one.  Without a frame 0 is returned; count = 0 yields an  *)
(* address without any frame behind it.                                    *)
Scan(c) ==
    LET l     == loc[c]
        fresh == [count |-> 0, start |-> 0, found |-> NotFound]
        s     == ScanByte(fresh, Byte(bitmap, l.b), l.b * W, l.range.count # 0, 1)
    IN  /\ pc[c] = "scan"
        /\ IF l.b = bitmap.size \div W THEN Out(c)
           ELSE IF s.found = NotFound
           THEN loc' = [loc EXCEPT ![c].b = l.b + 1] /\ UNCHANGED pc
           ELSE Change(c, [l.range EXCEPT !.first = s.found], FALSE)
        /\ UNCHANGED <<bitmap, held, clashes>>

Load(c) ==
    /\ pc[c] = "load"
    /\ pc' = [pc EXCEPT ![c] = "store"]
    /\ loc' = [loc EXCEPT ![c].byte = Byte(bitmap, loc[c].b)]
    /\ UNCHANGED <<bitmap, held, clashes>>

(* Byte b of the bitmap as set_range makes it from the byte loaded.        *)
Stored(l) ==
    LET InByte(i) == i \div W = l.b
        seen == [bitmap EXCEPT !.bits = [i \in DOMAIN @ |->
                    IF InByte(i) THEN l.byte[i % W] ELSE @[i]]]
        made == set_range(seen, l.range.first, l.range.first + l.range.count, l.value)
    IN  [bitmap EXCEPT !.bits = [i \in DOMAIN @ |-> IF InByte(i) THEN made.bits[i] ELSE @[i]]]

(* Another CPU has loaded the byte that is being stored, or is about to    *)
(* take a frame that is being taken.                                       *)
Clash(c) ==
    \E x \in CPU \ {c} :
        \/ pc[x] = "store" /\ loc[x].b = loc[c].b
        \/ /\ pc[x] \in {"load", "store"} /\ ~loc[x].value /\ ~loc[c].value
           /\ Span(loc[x].range) \cap Span(loc[c].range) # {}

(* Who calls alloc_frames has the frames from the last store on.           *)
Return(c) ==
    LET l == loc[c]
    IN  IF l.b < (l.range.first + l.range.count - 1) \div W
        THEN /\ pc' = [pc EXCEPT ![c] = "load"]
             /\ loc' = [loc EXCEPT ![c].b = l.b + 1]
             /\ UNCHANGED held
        ELSE /\ Out(c)
             /\ held' = IF l.value THEN held ELSE held (+) SetToBag({l.range})

(* Slip: the frames found are not taken out of the bitmap.                 *)
StoreFreed(c) ==
    /\ pc[c] = "store" /\ UNCHANGED clashes
    /\ BagCardinality(held) < 2
    /\ bitmap' = IF loc[c].value THEN Stored(loc[c]) ELSE bitmap
    /\ Return(c)

Store(c) ==
    /\ pc[c] = "store"
    /\ clashes' = IF Clash(c) THEN clashes + 1 ELSE clashes
    /\ bitmap' = Stored(loc[c])
    /\ Return(c)

(* Slip: the last of the freed frames is forgotten.                        *)
FreeButLast(c, r) ==
    /\ Enters(c)
    /\ held' = held (-) SetToBag({r})
    /\ Change(c, [r EXCEPT !.count = @ - 1], TRUE)
    /\ UNCHANGED <<bitmap, clashes>>

free_frames(c, r) ==
    /\ Enters(c)
    /\ held' = held (-) SetToBag({r})
    /\ Change(c, r, TRUE)
    /\ UNCHANGED <<bitmap, clashes>>

Next ==
    \E c \in CPU :
        \/ \E n \in Counts : alloc_frames(c, n)
        \/ \E r \in BagToSet(held) : free_frames(c, r)
        \/ Scan(c) \/ Load(c) \/ Store(c)

Spec == Init /\ [][Next]_vars

-----------------------------------------------------------------------------
(* Properties                                                              *)

Taken == UNION {Span(r) : r \in BagToSet(held)}

AllOut == \A c \in CPU : pc[c] = "out"

(* However the calls of several CPUs interleave, no frame is handed out    *)
(* that is not usable memory or that holds the bitmap; and none is held    *)
(* twice unless two CPUs clashed: found the same frame before either took  *)
(* it, or changed the same byte between each other's load and store.       *)
Exclusive ==
    /\ Taken \cap Reserved = {}
    /\ clashes = 0 =>
          \A r \in BagToSet(held) :
              /\ held[r] = 1
              /\ \A q \in BagToSet(held) \ {r} : Span(r) \cap Span(q) = {}

(* A searchable usable frame is free in the bitmap or held by somebody,    *)
(* once the calls in progress are done: only a clash loses one.            *)
NoFrameLost ==
    (AllOut /\ clashes = 0) =>
        \A f \in (0 .. (BitmapSize \div W) * W - 1) \ Reserved :
            bitmap.bits[f] <=> f \notin Taken

(* find_range against its definition on every bitmap the allocator reaches.*)
FindRangeCorrect == AllOut => \A n \in 1 .. 2 * W : FindsRuns(bitmap, n)

(* set_range against its definition, for every range that starts in the    *)
(* bitmap.                                                                 *)
SetRangeExact ==
    AllOut =>
        \A s \in 0 .. bitmap.size - 1, e \in 0 .. bitmap.size, v \in BOOLEAN :
            SetsExactly(bitmap, s, e, v)
=============================================================================
