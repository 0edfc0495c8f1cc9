----------------------------- MODULE PageTable ------------------------------
(***************************************************************************)
(* The page tables of arch/x86_64/table.cpp and the calls that change      *)
(* them: the kernel's own mappings at boot, k_physmap / k_physunmap, and   *)
(* what k_clone and k_exit do to an mm_context.                            *)
(*                                                                         *)
(* Addresses are page numbers.  Frames come one at a time from a set       *)
(* (module FrameAlloc shows that single frames are handed out exclusively),*)
(* the lowest first; 0 stands for failure, and is also the frame that      *)
(* unmap gives back.  Frame 0 is outside the direct map, so a table there  *)
(* cannot be read or written: the CPU faults and stops ("halted").         *)
(*                                                                         *)
(* One CPU executes these functions at a time.  Permission bits other than *)
(* present, and the stacks that clone and exit allocate and free, are left *)
(* out.  get_current_thread is always an idle thread (module Sched), so    *)
(* clone and exit work on the idle thread's mm, whose table is the one the *)
(* kernel booted with.                                                     *)
(***************************************************************************)
EXTENDS Integers, FiniteSets, FiniteSetsExt

CONSTANTS
    Radix,      \* entries in a table, 512 in the code
    Frames,     \* frames of the allocator, 0 (reserved) included
    Devices,    \* physical pages callers ask to map, outside the allocator
    KernelPages,\* virtual pages the kernel maps at boot
    SizeT,      \* SIZE_MAX + 1, where ref_count wraps
    MaxClones   \* bound on the threads cloned with CLONE_VM at a time

Index == 0 .. Radix - 1
Half == Radix \div 2            \* the kernel's part of a top-level table
Boot == Frames                  \* the table the boot loader left in cr3
Frame == 0 .. Frames - 1
Phys == Frame \cup {Boot} \cup Devices

(* The l4, l3, l2 and l1 index of a virtual page: its number shifted down  *)
(* by one level after the other, and masked.                               *)
Top(v) == ((v \div Radix) \div Radix) \div Radix
Indices(v) == <<Top(v) % Radix, ((v \div Radix) \div Radix) % Radix,
                (v \div Radix) % Radix, v % Radix>>

(* The number of a frame, which physmap uses as a virtual page, is below   *)
(* the kernel's half; the pages the kernel maps are in it.                 *)
ASSUME MemoryAssumption ==
    /\ Radix \in Nat /\ Radix >= 2 /\ Frames \in Nat \ {0}
    /\ \A f \in Frame : Top(f) < Half
    /\ Devices \subseteq Nat /\ Devices \cap (0 .. Boot) = {}
    /\ \A v \in KernelPages : v \in Nat /\ Top(v) \in Half .. Radix - 1
    /\ SizeT \in Nat /\ SizeT >= 2 /\ MaxClones \in Nat

(* A physmap returns the address of a frame as a virtual one.              *)
UserPages == Frame
Pages == UserPages \cup KernelPages

Entry == [frame : Phys, kind : {"zero", "hole", "present"}]
Zero == [frame |-> 0, kind |-> "zero"]
(* virt_to_phys(NULL): not zero, not present, and frame 0 once masked.     *)
Hole == [frame |-> 0, kind |-> "hole"]
Present(f) == [frame |-> f, kind |-> "present"]

VARIABLES
    mem,        \* [tab, free]: the tables in memory and the free frames
    ref_count,  \* of the idle thread's mm
    spaces,     \* the top-level tables some thread or some CPU's cr3 has
    left,       \* those whose thread has exited: only a cr3 still has them
    vms,        \* the threads cloned with CLONE_VM that have not exited
    started,    \* thread::init has been reached
    held,       \* the pages physmap returned that are still in use
    asked,      \* asked[r][v]: what space r was last asked to map at v
    halted      \* a fault has stopped the CPU

vars == <<mem, ref_count, spaces, left, vms, started, held, asked, halted>>

Roots == Frame \cup {Boot}
NoPage == -1

(* Frames hold what their last user left in them.                          *)
Init ==
    /\ mem = [tab  |-> [f \in Roots |->
                           [i \in Index |-> IF f \in {0, Boot} THEN Zero
                                            ELSE Present(Frames - 1)]],
              free |-> Frame \ {0}]
    /\ ref_count = 1
    /\ spaces = {Boot}
    /\ left = {}
    /\ vms = 0
    /\ started = FALSE
    /\ held = {}
    /\ asked = [r \in Roots |-> [v \in Pages |-> NoPage]]
    /\ halted = FALSE

-----------------------------------------------------------------------------
(* Walking and changing tables                                             *)

(* alloc_frames(1)                                                         *)
alloc_frame(m) == IF m.free = {} THEN 0 ELSE Min(m.free)
Taken(m) == [m EXCEPT !.free = @ \ {alloc_frame(m)}]

(* Slip: the new table is not cleared.                                     *)
CreateUncleared(m, f, i) ==
    IF m.tab[f][i] # Zero THEN m
    ELSE [Taken(m) EXCEPT !.tab = [@ EXCEPT ![f][i] = Present(alloc_frame(m))]]

page_table_create(m, f, i) ==
    IF m.tab[f][i] # Zero THEN m
    ELSE LET g == alloc_frame(m)
         IN  [Taken(m) EXCEPT !.tab = [@ EXCEPT ![f][i] = Present(g),
                                                ![g] = [j \in Index |-> Zero]]]

(* The tables on the way to page v, from the l4 table r down to the l1.    *)
Tables(m, r, v) ==
    LET x  == Indices(v)
        l3 == m.tab[r][x[1]].frame
        l2 == m.tab[l3][x[2]].frame
        l1 == m.tab[l2][x[3]].frame
    IN  <<r, l3, l2, l1>>

(* A walk through frame 0 faults.                                          *)
Unreadable(m, r, v) ==
    LET x  == Indices(v)
        l3 == m.tab[r][x[1]].frame
        l2 == m.tab[l3][x[2]].frame
    IN  l3 = 0 \/ l2 = 0 \/ m.tab[l2][x[3]].frame = 0

(* page_table::map up to the write of the page's entry.                    *)
WithTables(m, r, v) ==
    LET x  == Indices(v)
        m3 == page_table_create(m, r, x[1])
        l3 == m3.tab[r][x[1]].frame
        m2 == page_table_create(m3, l3, x[2])
        l2 == m2.tab[l3][x[2]].frame
    IN  page_table_create(m2, l2, x[3])

SetEntry(m, r, v, p) ==
    [m EXCEPT !.tab[Tables(m, r, v)[4]][Indices(v)[4]] = Present(p)]

(* page_table::unmap: every entry on the way is cleared, and the frame to  *)
(* free is read from it afterwards, which is frame 0 each time.            *)
unmap(m, r, v) ==
    LET t == Tables(m, r, v)
        x == Indices(v)
    IN  [tab  |-> [m.tab EXCEPT ![t[1]][x[1]] = Zero, ![t[2]][x[2]] = Zero,
                                ![t[3]][x[3]] = Zero, ![t[4]][x[4]] = Zero],
         free |-> m.free \cup {0}]

-----------------------------------------------------------------------------
(* Operations                                                              *)

(* The spaces that reach v through the same lower tables as space r.       *)
Sharing(m, r, v) ==
    {s \in spaces : m.tab[s][Indices(v)[1]] = m.tab[r][Indices(v)[1]]}

Note(rs, v, p) ==
    asked' = [r \in Roots |-> IF r \in rs THEN [asked[r] EXCEPT ![v] = p]
                              ELSE asked[r]]

(* map_range of one page: physical address 0 asks for a fresh frame, taken *)
(* before the tables.                                                      *)
map_range(m, r, v, phys) ==
    LET p  == IF phys = 0 THEN alloc_frame(m) ELSE phys
        m1 == WithTables(IF phys = 0 THEN Taken(m) ELSE m, r, v)
    IN  IF Unreadable(m1, r, v)
        THEN /\ halted' = TRUE
             /\ UNCHANGED <<mem, asked>>
        ELSE /\ mem' = SetEntry(m1, r, v, p)
             /\ Note(Sharing(m1, r, v), v, p)
             /\ UNCHANGED halted

(* init_heap and the mappings of device registers, before thread::init.    *)
BootMap(v, phys) ==
    /\ ~halted /\ ~started
    /\ map_range(mem, Boot, v, phys)
    /\ UNCHANGED <<ref_count, spaces, left, vms, started, held>>

Start ==
    /\ ~halted /\ ~started
    /\ started' = TRUE
    /\ UNCHANGED <<mem, ref_count, spaces, left, vms, held, asked, halted>>

(* The virtual address is that of a frame allocated for it.                *)
k_physmap(r, phys) ==
    LET v == alloc_frame(mem)
    IN  /\ ~halted /\ started
        /\ map_range(Taken(mem), r, v, phys)
        /\ held' = held \cup {v}
        /\ UNCHANGED <<ref_count, spaces, left, vms, started>>

(* A page that physmap returned is given back, on the table cr3 has: after *)
(* an exit that need not be the one the page was mapped in.                *)
k_physunmap(r, v) ==
    LET m == [mem EXCEPT !.free = @ \cup {v}]
    IN  /\ ~halted /\ started
        /\ v \in held
        /\ held' = held \ {v}
        /\ IF Unreadable(m, r, v)
           THEN /\ halted' = TRUE
                /\ UNCHANGED <<mem, asked>>
           ELSE /\ mem' = unmap(m, r, v)
                /\ Note(Sharing(m, r, v), v, NoPage)
                /\ UNCHANGED halted
        /\ UNCHANGED <<ref_count, spaces, left, vms, started>>

(* Slip: the kernel's half is not copied.                                  *)
CopyUserHalf(tab) ==
    [i \in Index |-> IF i < Half /\ tab[i] # Zero THEN tab[i] ELSE Hole]

(* copy_page_table_recursive with the memcpy after it: entries that are    *)
(* set are copied, the lower tables are not.                               *)
copy_page_table(tab) ==
    [i \in Index |-> IF i >= Half \/ tab[i] # Zero THEN tab[i] ELSE Hole]

(* clone_page_table with and without CLONE_VM.                             *)
CloneVM ==
    /\ ~halted /\ started
    /\ vms < MaxClones
    /\ vms' = vms + 1
    /\ ref_count' = (ref_count + 1) % SizeT
    /\ UNCHANGED <<mem, spaces, left, started, held, asked, halted>>

Fork ==
    LET g == alloc_frame(mem)
    IN  /\ ~halted /\ started
        /\ IF g = 0
           THEN /\ halted' = TRUE
                /\ UNCHANGED <<mem, spaces, asked>>
           ELSE /\ mem' = [Taken(mem) EXCEPT !.tab[g] = copy_page_table(mem.tab[Boot])]
                /\ spaces' = spaces \cup {g}
                /\ asked' = [asked EXCEPT ![g] = asked[Boot]]
                /\ UNCHANGED halted
        /\ UNCHANGED <<ref_count, left, vms, started, held>>

(* The tables below the user entries of a top-level table, and the frames  *)
(* free_page_table_recursive gives back.                                   *)
Below(m, f) == {m.tab[f][i].frame : i \in Index} \ {0}
FreedWith(m, r) ==
    LET l3 == {m.tab[r][i].frame : i \in 0 .. Half - 1} \ {0}
        l2 == UNION {Below(m, f) : f \in l3}
        l1 == UNION {Below(m, f) : f \in l2}
    IN  ({r} \cup l3 \cup l2 \cup l1 \cup UNION {Below(m, f) : f \in l1}) \cap Frame

(* Slip: the tables go when the count is zero.                             *)
FreeAtZero(n) ==
    IF n = 0 THEN [count |-> n, frames |-> FreedWith(mem, Boot)]
    ELSE [count |-> n, frames |-> {}]

free_page_table(n) ==
    IF n = 1 THEN [count |-> n, frames |-> FreedWith(mem, Boot)]
    ELSE [count |-> (n - 1) % SizeT, frames |-> {}]

(* k_exit drops a reference to the idle thread's mm, whoever calls it.     *)
DropMm ==
    LET n == (ref_count - 1) % SizeT
        d == IF n = 0 THEN free_page_table(n) ELSE [count |-> n, frames |-> {}]
    IN  /\ ref_count' = d.count
        /\ mem' = [mem EXCEPT !.free = @ \cup d.frames]

ExitVM ==
    /\ ~halted /\ vms > 0
    /\ vms' = vms - 1
    /\ DropMm
    /\ UNCHANGED <<spaces, left, started, held, asked, halted>>

(* The next thread is entered without thread_switch_mm: it runs on the     *)
(* table of the one that has exited, and maps into it.                     *)
ExitFork(r) ==
    /\ ~halted /\ r # Boot
    /\ r \notin left
    /\ left' = left \cup {r}
    /\ DropMm
    /\ UNCHANGED <<spaces, vms, started, held, asked, halted>>

(* The timer's switch_to loads the table of another thread: nobody reaches *)
(* the one left behind again, and nobody frees it.                         *)
thread_switch_mm(r) ==
    /\ ~halted /\ r \in left
    /\ spaces' = spaces \ {r}
    /\ left' = left \ {r}
    /\ asked' = [asked EXCEPT ![r] = [v \in Pages |-> NoPage]]
    /\ UNCHANGED <<mem, ref_count, vms, started, held, halted>>

Next ==
    \/ \E v \in KernelPages, p \in Devices \cup {0} : BootMap(v, p)
    \/ Start
    \/ \E r \in spaces :
        \/ \E p \in Devices \cup {0} : k_physmap(r, p)
        \/ \E v \in UserPages : k_physunmap(r, v)
        \/ ExitFork(r)
        \/ thread_switch_mm(r)
    \/ CloneVM
    \/ Fork
    \/ ExitVM

Spec == Init /\ [][Next]_vars

-----------------------------------------------------------------------------
(* Properties                                                              *)

(* What the processor finds: all four entries must be present.             *)
Translation(r, v) ==
    LET x == Indices(v)
        Follow(f, i) == IF f = NoPage \/ mem.tab[f][i].kind # "present" THEN NoPage
                        ELSE mem.tab[f][i].frame
    IN  Follow(Follow(Follow(Follow(r, x[1]), x[2]), x[3]), x[4])

(* A translation the processor can use is the one last asked for in that   *)
(* space, or in one it shares the lower tables with: nothing is left over  *)
(* in a table that was used before, and no other page's entry is hit.      *)
Translated ==
    \A r \in spaces, v \in Pages : Translation(r, v) \in {asked[r][v], NoPage}

(* The kernel's own mappings are complete and the same in every space:     *)
(* it runs on the table of whichever thread it interrupts.                 *)
KernelShared ==
    \A r \in spaces, v \in KernelPages : Translation(r, v) = asked[Boot][v]

(* A frame that is a table of a space in use is not free, although k_exit  *)
(* drops references to a table it does not own.                            *)
TablesOf(r) ==
    LET l3 == Below(mem, r)
        l2 == UNION {Below(mem, f) : f \in l3}
    IN  {r} \cup l3 \cup l2 \cup UNION {Below(mem, f) : f \in l2}

TablesHeld == \A r \in spaces : TablesOf(r) \cap mem.free = {}

(* thread.hpp:11 "Set if VM shared between processes": without CLONE_VM,   *)
(* what one space maps or unmaps changes no other one.                     *)
View(r) == [v \in UserPages |-> Translation(r, v)]
ForkIsolated ==
    [][\A r, s \in spaces \cap spaces' :
          r # s => View(r)' = View(r) \/ View(s)' = View(s)]_vars
=============================================================================
