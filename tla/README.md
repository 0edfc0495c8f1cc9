# Verification of the ion-os kernel

TLA+ models of the ion-os kernel (x86-64, SMP, C++), the TLC runs that check
them on small instances, and TLAPS proofs of the results that do not depend on
the size of the instance.  Paths below are relative to `src/kernel/src/`.

## 1. The system

ion-os boots through Limine, builds a physical frame bitmap, its page tables
and a kernel heap, starts the application processors (APs), creates an idle
thread per CPU and the init thread, and then schedules from the local APIC
timer.  User code enters the kernel by `syscall`.

| Component | Source | State | Operations |
|---|---|---|---|
| Spinlock | `include/arch/x86_64/spinlock.hpp` | bit `lock`, saved `rflags` | `spin_lock`, `spin_unlock` |
| Kernel heap | `mm/heap/pool.cpp`, `include/mm/alloc/*.hpp`, `mm/heap/heap.cpp` | boundary tags and list links in the heap's memory, `freed[]`, `large_blk`, `alloced_size` | `malloc`, `aligned_alloc`, `free`, `realloc`, aligned realloc |
| Memory manager | `mm/heap/mman.cpp`, `include/mm/alloc/large-blk.hpp` | main and child areas with their counts, free lists across them, large-block table | init, setcb, alloc, aligned alloc, free, realloc, deinit (compiled, not called by the kernel) |
| Fixed-size pool | `mm/heap/sized-pool.cpp` | a stack of equal blocks | alloc, free (never called) |
| Bitmap | `libs/bitmap.cpp` | bytes, size | `init`, `get`, `set`, `find_range`, `set_range` |
| Frame allocator | `mm/frame.cpp` | `frame_allocator_bitmap` | `init`, `alloc_frames`, `free_frames` |
| Page tables | `arch/x86_64/table.cpp` | four levels of tables in frames, `cr3` | `map`, `unmap`, `clone_page_table`, `free_page_table`, `translate_addr` |
| Threads | `thread/thread.cpp` | `threads[]`, `idle_threads[]`, `cpu_idx`, thread fields | `init`, `create`, `search`, `add_fd_info` |
| Scheduler and timer | `thread/schedule.cpp`, `arch/x86_64/idt.cpp`, `context.cpp` | the current thread (GS base), contexts | `do_lapic_timer`, `switch_to`, `thread_switch_to` |
| SMP boot | `arch/x86_64/apic.cpp`, `main.cpp` | `ap_initialized`, `thread_initialized` | `smp_init`, `ap_entry` |
| Process calls | `hel/syscall.cpp` | uses thread and mm state | `k_clone`, `k_exit` |
| Driver sockets | `hel/syscall.cpp`, `hel/dsocket.cpp` | socket list, handles, backlog, pairs with two buffers | create, bind, listen, connect, accept, send, recv |
| C library | `libs/klibc.cpp` | the locals of `vsprintf` from one directive to the next | `vsprintf`, string and memory functions |
| GDT, ACPI, HPET, serial output | `arch/x86_64/*` | device state | one-time set-up, output |

How they interact: every heap call takes the heap's spinlock; `thread::create`
holds `new_thread_lock` and allocates stacks from the frame allocator and
objects from the heap; `thread::search` takes a different lock, `search_lock`,
in the timer handler of every CPU, and reads the table `create` is writing;
`k_clone` calls `create`, which makes the child runnable, and only then fills
in its context; `k_exit` frees the current thread's context and jumps to
another thread.  The frame allocator and the socket list have no lock.  A
driver socket of one CPU and one of another share a pair, which the listening
side finds in its backlog; `connect` waits for `accept` in a loop around
`arch::yield`.

What is hard: CPUs interleave between any two instructions; a timer interrupt
arrives wherever interrupts are on; objects are published before they are
complete; freed contexts stay in use; the heap's correctness is a property of
long sequences of calls; boundaries (split threshold, alignment offset, byte
boundaries of the bitmap) are where the arithmetic goes wrong.

What makes each part correct: a lock excludes, cannot be interrupted by a
handler that wants it, and gives back the interrupt flag it found; the heap
tiles its area, keeps its lists exact, serves its clients and never touches
their data; a frame has one owner, none is lost and no reserved one is handed
out; the thread table has no hole and no object two creators share, a thread
runs on one CPU only, no CPU takes an interrupt before it has an idle thread, a
runnable thread starts; the memory manager gives an area back when, and only
when, nobody uses it; a connection has buffers before it is used and delivers
bytes once and in order; a printed number is the argument, in the field asked
for.

`PROJECT.json` lists the hazards at their lines, with the properties that
cover each.

## 2. Modules

| Module | Models |
|---|---|
| `Spinlock` | `spin_lock`/`spin_unlock`, one instruction group per step |
| `SpinlockProofs` | its proofs |
| `BlockHeap` | the abstract heap: blocks and their free flags |
| `BlockHeapProofs` | its proofs |
| `Mpool`, `MCMpool` | the heap word by word; shown to implement `BlockHeap` |
| `Bitmap` | the bitmap's operations as operators, with reference definitions |
| `FrameAlloc`, `MCFrameAlloc` | the frame allocator on top of `Bitmap` |
| `FrameAllocProofs` | proofs about both |
| `Sched` | boot handshake, threads, scheduler, clone and exit |
| `SchedProofs` | its proofs |
| `PageTable` | four-level page tables, physmap and physunmap, address spaces of clone and exit |
| `PageTableProofs` | its proofs |
| `Mman`, `MCMman` | the memory manager: areas from callbacks, free lists, large blocks |
| `DSocket`, `MCDSocket` | driver sockets on several CPUs |
| `DSocketProofs` | its proofs |
| `Printf`, `MCPrintf` | `vsprintf`, one directive per step |
| `PrintfProofs` | its proofs |
| `Recursion` | induction and loops, for the proofs of the others |

Definitions named *Slip ...* in the modules' comments are what a mistaken
change to the code would do.  No specification uses them; each is substituted
for the definition it varies to see that a property notices.

### Spinlock

`lock` and `rflags` are the fields of `spinlock_t`; `intr[c]` is IF of CPU c.
Each CPU runs a stack of contexts: level 0 is thread code, each higher level an
interrupt handler.  The steps of `spin_lock` are `PushFlags` (pushfq; pop),
`Cli`, `TestAndSet` (the `lock bts` loop), `SaveFlags`; those of `spin_unlock`
`ClearLock` (`lock btr`), `LoadFlags` (reading `lock->rflags`), `PopFlags`.
`Interrupt` is possible exactly while IF is set.  The locked instructions are
sequentially consistent on x86 and the plain accesses to `rflags` are ordered
by them, so interleaving is the right memory model for this lock.

### BlockHeap and Mpool

`Mpool` keeps the heap's memory as words: size tags with their flag bits, the
`next`/`prev` pointers inside free blocks, and the clients' data.  The
functions of `block.hpp`, `freelist.hpp` and `pool.cpp` are operators that take
and return the pool; a call of `heap.cpp` is one action, because it runs
between `alloc_enter` and `alloc_exit`.  Clients write over every byte they
were given, so that an allocator that touches a live block is noticed, and wipe
it before they free it.  `cb_reqmem` is never set on the kernel's pool: an
allocation that finds nothing returns NULL, and a `realloc` that has to move
and finds nothing copies to NULL, which halts the CPU with the heap locked
(`halted`).  The kernel's size classes start at 64, 256 and 512 bytes; the
model takes them as a parameter.

`BlockHeap` is what those functions promise: a set of blocks with sizes and
free flags, in units of 16 bytes.  Any fitting block may be taken.
`AbstractHeap` maps a pool to it by walking the tags.

### Bitmap and FrameAlloc

`find_range` is the code's byte-wise scan (mixed bytes bit by bit, uniform ones
at once) as loops over the bits and the bytes; `FindsRuns` and `SetsExactly`
say what it and `set_range` should yield.  W, the bits per byte, is a
parameter.  `FrameAlloc` takes the memory map as a constant, computes where
`frame::init` puts the bitmap, and keeps two facts of the code visible: the
bitmap's size is given in bytes where bits are expected, so only the first
eighth of memory is searched, and `alloc_frames(count)` passes its arguments to
`find_range` in the wrong order.

The allocator has no lock.  A CPU scans the bitmap byte by byte (`Scan`) and
changes each byte by a load and a store (`Load`, `Store`), as the unlocked
`|=` and `&=` of `bitmap::set` do; other CPUs may act in between.  `Clash`
names the two ways in which this goes wrong: a CPU stores a byte that another
one has loaded, or takes a frame that another one has found and not yet taken.
The properties say that nothing else does, and that even then no reserved frame
is handed out.

### Sched

`pc[c]` is where a CPU stands, `running[c]` whose code it executes, `current[c]`
what `get_current_thread` returns on it (always its idle thread: nothing
updates the GS base).  `thread::create` is eight steps, because `search` on
another CPU reads the same table under another lock: the object is visible from
`StorePlace` on, with whatever the heap left in its fields.  `search` and the
switch are one step: interrupts are off, and the fields of other CPUs' threads
it reads only grow.  `saved[c]` is the interrupted frame in the idle thread's
context.  A context that has been freed may or may not fault when it is used
(`freed`); a CPU that faults stops for good, as the exception handlers of
`idt.cpp` end in a `hlt` loop.  An object that is scheduled before its `mm` and
`arch_context` are set is taken to fault as well: `schedule.cpp:8-11` follow
what the heap left in these fields, and if that happens to be the address of
something, anything may follow; nothing is said of that case.
`child_vfork_done` is only ever cleared.
Register contents, stacks, file tables and reference counts are left out.

### PageTable

`mem.tab` holds the tables in their frames, `mem.free` the free frames; the
lowest is taken first, as `find_range` does for a single frame.  `map` is
`WithTables` (the three calls of `page_table_create`) followed by `SetEntry`;
`unmap` clears all four entries and frees frame 0, because it reads the frames
to free after it has cleared them.  Frame 0 is also what a failed allocation
returns.  It is not part of the direct map that Limine provides at base
revision 3, so that using it as a table faults; a fault ends the behaviour
(`halted`).  `copy_page_table` copies the entries that are set, does not copy
what they point to, and fills the empty user entries with
`virt_to_phys(NULL)`, which is neither zero nor present (`Hole`).  `spaces` are
the top-level tables in use; clone and exit act on the idle thread's mm, which
is what `get_current_thread` gives them (module `Sched`).  `k_exit` enters the
next thread without `thread_switch_mm`, so that this thread runs on, and maps
into, the table of the one that has exited: such a table is in `left`, and in
use until a timer interrupt switches away from it (`thread_switch_mm`).  A page
may therefore be given back on another table than the one it was mapped in;
`held` is the set of pages, and `k_physunmap` takes any of them in any space.
`asked` records what was mapped and exists only for the properties.

### Mman

`man` is the `struct mman` with the blocks in its areas: a block is its size,
its free flag and its `SIZE_FLAG`, addresses are in units of 16 bytes.  That
head and tail tags agree, and that list links lead both ways, is checked in
`Mpool` for the same functions and not repeated.  The functions of `mman.cpp`
and `large-blk.hpp` are operators from manager to manager; the interface calls
are actions of clients that hold one block each.  The callbacks are external:
they take the lowest free address with the alignment `alloc.hpp:58-62` demands
and return NULL only when nothing is left; the node of a large block is
malloc'ed and may fail.

The code reads through bad pointers in several cases (section 4).  `man.wild`
then names the place, and the behaviour ends, since what follows is open.
`resized` remembers the areas with a block resized in place: neither the area's
count nor the `SIZE_FLAG` follow such a resize, so for child areas and 2M areas
the properties are claimed up to there (`Sound`).  `NoStrayPointer` is the part
that is claimed of `wild` itself: the lists never lead out of the areas, and
`_detach` never meets a block at the head of a list it does not look in.

### DSocket

A call runs with interrupts off on its CPU and uses the handles of the CPU's
idle thread, which is the current thread on it (`Sched`).  CPUs interleave
between the accesses to the socket list (`FindTail`, `Link`), the backlog
(`ReadCurr`, `WriteCurr`, `StorePair` for `backlog[conn_curr++] = pair`;
`ResetCurr` and `NewBacklog` for `listen`, between which a connect uses the
backlog of an earlier `listen`, or a stray pointer if there was none), the
pair (`NewBuffers`, `MarkConnected`) and the buffers (the copy and the update
of the position are two steps).  Fields that are malloc'ed and never
initialised (`next`, `conn_curr`, `backlog`, `op`) are `Stray`, or NULL where
that makes a difference; following one sets `wild`, and nothing is claimed
afterwards.  `bind_addr` is never written, because `syscall_handler` does not
dispatch `k_driver_bind`: `connect` therefore stops at any element of the list,
or faults on the head's NULL address.  `crossed` and `raced` record that two
CPUs were inside the same append, or inside calls on the same buffer; the code
has no lock there and loses sockets and bytes, so `SocketsListed` and
`StreamsOrdered` are claimed up to there.  `accept` lowers `conn_max` where
`conn_curr` was meant; at 0 the length of its `memmove` wraps, which `TakeFirst`
takes as `wild`.  It takes more than `MaxConn` accepts after one `listen` to get
there: connects that read `conn_curr` before one of them writes it.  The
`memmove` of the backlog is one step with the writes around it
(`syscall.cpp:220-223`): a connect that stores in the middle of it stores as if
before or after it, or its pair is lost and it waits for good, as it also does
when two connects read the same `conn_curr`.

### Printf

`reg` holds `flags`, `field_width` and `precision`, with leftovers from the
stack at first.  A step formats one directive with its arguments in the order
`va_arg` takes them; characters are model characters, numbers are kept to their
width (short, int, long), so that the truncations and the negation of the most
negative long are those of the code.  A width from the arguments is never the
least int, whose negation (`klibc.cpp:247`) is undefined.  That `%c` and `%s` count `field_width`
down while they pad is abstracted: it is set anew before it is read.

## 3. Runs

| Run | Instance | Shows |
|---|---|---|
| `spinlock` | 2 CPUs, 2 handler levels | mutual exclusion; interrupts off from `cli` to `popfq`, so no handler can spin on a lock its own CPU holds; the flags in the lock are the holder's; if somebody waits, somebody enters |
| `spinlock_rflags` | the same | **violated**: the flags restored by `spin_unlock` may be another CPU's |
| `heap_blocks` | 18 units, requests 1, 2, 5 | the area stays tiled; an operation disturbs at most one live block |
| `mpool` | 352 bytes, 3 clients, sizes 40 and 104, alignments 24 and 64, one realloc | tags agree, lists exact, clients served, a request fails only if nothing fits; until the realloc also accounting exact and no two adjacent free blocks; `Mpool` implements `BlockHeap` |
| `mman` | pages of 16 units, 2M areas of 3 pages, 5 pages, 2 clients, 5 sizes, one realloc | areas tiled and marked, lists exact, no list into memory given back, clients backed, counts exact, memory goes back with its last user |
| `frames` | 2 CPUs, 48 frames, two regions, counts 0 and 1, one clash | no reserved frame handed out; without a clash frames exclusive and none lost; `find_range` and `set_range` agree with their definitions |
| `frames_multi` | 1 CPU, count 2 | **violated**: frames handed out twice |
| `sched` | 2 CPUs, 4 places for threads besides the idle ones | creators exclusive, table without holes, round robin balanced, no interrupt before the idle thread, threads on their own CPU, every runnable thread starts |
| `page_tables` | tables of 4 entries, 9 usable frames, 1 kernel page, 1 device page | usable translations are those asked for, every space has the kernel's mappings, no table in use is free |
| `page_tables_fork` | the same | **violated**: without `CLONE_VM` parent and child still share tables |
| `printf` | longs of 8, ints of 6, shorts of 4 bits; all conversions, combinations of flags, widths, precisions and qualifiers | the number printed is the argument, the field is as wide as asked, directives do not depend on those before |
| `sockets` | 2 CPUs, 3 sockets besides the head, buffers of 3 bytes, 3 bytes per pair | a usable handle has an accepted pair with buffers, alone at its end; bytes arrive once and in order; sockets with a handle are listed |

Why the bounds are enough.  *Spinlock*: two CPUs contend, and a second handler
level lets a handler interrupt a handler; the theorems cover every other size.
*BlockHeap*: 18 units leave room for three blocks of which the middle one is
merged, split and grown; the theorems cover every N.  *Mpool*: the heap holds
up to three live blocks with free ones between them, so that a free merges with
neither, either and both neighbours, lists have a head, a middle and an end,
and each of the three classes is used; alignment 64 has offsets of 0, 32 and 48
bytes, alignment 24 is the rejected non-power; the one realloc comes at any
moment, and shrinks, grows in place, moves or fails.  *Frames*: the searched
prefix covers several bytes, with reserved frames and the bitmap's own among
the usable ones; every subset of the searchable frames is reached, so the
comparison of `find_range` is exhaustive for that size; after the one clash
(two holders of a frame, or a frame lost) calls go on, one at a time, since each
further clash would only add another copy.  *Sched*: two CPUs
create at once, one schedules what the other is creating, and the table fills
up; a third CPU was tried with the same result.  *PageTable*: nine frames are
enough for the chain of a kernel page, a user page with its chain, its unmap
and a second chain, and for several spaces cloned in between; running out of
frames is reached too.  *Mman*: five pages hold the main area and either a 2M
area, large blocks, or up to four 4k areas; the sizes are one for each list,
one that only just fits a 4k area, and a large one; 4k and 2M areas are asked
for and given back with free blocks on either side of the last one.  *Printf*:
widths are told apart by three different bit counts, and the arguments are the
most negative value of each width, zero and a number beyond the shorter ones.
*DSocket*: three sockets are a listening one, a connecting one and the accepted
one, or two that connect to the third; a buffer of three bytes is filled,
partly read and filled again.  One accept completes; a second one, which could
take a pair again, needs a fourth socket.  That instance (4 sockets besides the
head, 3 handles, no bytes) has 6.8 million states and was checked once, with
the same result; it takes too long to be kept as a run, and the theorem
`SocketConnectionsReady` covers it.  More than `MaxConn` queued connections and a
send beyond the end of a buffer, which the code does not check, end the
behaviour where they are reached.

`MCMpool` and `MCDSocket` identify states that differ only in words or bytes
nobody will read, and treat clients or CPUs as interchangeable, as `MCMman` and
`MCFrameAlloc` do; this leaves the properties unchanged, since none of them reads such a
word or names a client.

`CHECK_DEADLOCK FALSE` is given for `sched` and `page_tables` (a fault stops
the CPU), for `mpool` (a failed move of realloc halts the heap), and for `mman`
and `sockets` (a stray pointer ends the behaviour; connectors may also wait for
an accept that does not come).

### Fairness

`Spinlock`: a CPU executes its next instruction (weak fairness of each CPU's
`Run`).  This gives that the lock is taken again and again, not that a given
CPU gets it: a `bts` loop promises nothing of the kind.

`Sched`: a CPU executes the code of `create`, of the boot sequence and of the
vfork loop, and its LAPIC timer keeps firing.  The timer is periodic and
nothing turns it off.  No fairness is assumed for the APs' two wait loops,
which read plain bools that the compiler may keep in a register, and none for
system calls: no thread has to make one.  `EveryThreadStarts` is therefore
relative to the CPU not having halted, not waiting for a lock whose holder
halted, and not being held up at boot.

`DSocket` has no liveness property: the loops of `connect` and `accept` read
their condition from memory the compiler need not read again, and nothing makes
the other side call.

## 4. What the runs found

* `spin_unlock` reads `lock->rflags` after the `btr` that releases the lock;
  the next holder may have overwritten it (`spinlock.hpp:36-42`).
* `alloc_frames(count)` swaps the arguments of `find_range` (`frame.cpp:80`):
  correct for single frames, not for stacks of 16.
* `copy_page_table_recursive` copies set entries and recurses into empty ones
  (`table.cpp:167`): a clone without `CLONE_VM` shares its parent's tables.

Each has a run whose property quotes what the repository says; the findings in
`PROJECT.json` give the quotation.

Met while modelling, and kept in the models as what the code does:

* `mpool_aligned_alloc` makes a front block of size zero when the aligned
  address is 16 bytes into the block found (`pool.cpp:159`, and `mman.cpp:223`).
  The kernel's only aligned request uses 16 and is not affected.
* `mpool_realloc` in place does not adjust `alloced_size` (`pool.cpp:201`).
* `unmap` frees frame 0 and drops the whole top-level entry (`table.cpp:106`).
* `free_page_table` frees at a count of one and is called at zero, so no table
  is ever freed (`table.cpp:219`, `syscall.cpp:426`), which is also what keeps
  `k_exit` from freeing the kernel's own tables.
* The current thread is always the idle thread.
* Nothing sets `child_vfork_done`: a vfork parent waits for ever
  (`syscall.cpp:407`; `thread.hpp:18` promises a wake-up).
* `mman_realloc` in place adjusts neither the area's count nor, when it merges,
  the `SIZE_FLAG` (`mman.cpp:290`, `:304`); moving a block to a smaller one it
  copies the old size, and of a large block it reads a tag that is not there
  (`mman.cpp:280`, `:312`).
* `mman_reqmem` adds less than the new area needs (`RESERVED_SIZE` is defined
  and not used, `mman.cpp:83-87`); the match that follows may be NULL and is
  used unchecked.
* `large_blk_alloc` clears the links of the node it has just put into its
  bucket, which cuts off the other blocks of the bucket (`large-blk.hpp:76`),
  and calls `cb_reqmem` without a check.  `mman_deinit` with callbacks reads
  `NULL->next`.
* `k_driver_connect` starts at a list head whose `bind_addr` is null and skips
  the sockets that match; `next`, `conn_curr`, `backlog` and `op` of a socket
  are used uninitialised; `accept` decrements `conn_max` where `conn_curr` is
  meant, and `backlog[]` and the buffers are written without a check of their
  size; `recv` returns the limit, not what it copied (`dsocket.cpp:58`).

## 5. Proofs

All proofs are for arbitrary values of the constants under the `ASSUME`s of
the module.

**Spinlock** (`CPU` any set, `MaxNest` any natural number).  `MutualExclusion`,
`InterruptsOff` and `RflagsOwned` are proved through `LockInv`, their
conjunction with the type invariant.  None of them is inductive alone: without
`InterruptsOff`, which also says that a context inside the lock code is the one
its CPU executes, a handler could run on top of the holder and interrupts would
come back at the wrong level; without `MutualExclusion` a second context could
overwrite `rflags` while the first holds the lock.

**BlockHeap** (`N` at least 3, `Requests` any set of positive sizes).  `Tiling`
is itself inductive once it is stated as five parts: the first block starts the
area (`Starts`), no block exceeds it (`Fits`), what follows a block is a block
or the end (`Chained`), blocks do not overlap (`Disjoint`), only blocks are
free (`FreeAreBlocks`).  `Chained` gives a merge its neighbour, `Disjoint` a
split its room.  One lemma per step of the operations (`SplitFree`,
`MergeNext`, `SetFree`, and what is built from them) shows that it keeps a heap
tiled and which blocks it leaves alone; `NextTiling` combines them per
operation.  `HeapTypeOK` and the action property `OneLiveBlockAffected` follow
from the same lemmas.

**Sched** (any number of CPUs and of places for threads).  `TypeOK`,
`PlacesExclusive`, `Balanced`, `CpuReady` and `OwnCpu` follow from `SchedInv`.
It says who is inside `create` (`LockHeld`: the CPU at one of its steps is the
one that holds `new_thread_lock`), which objects exist and in which order they
came to be (`ObjectsInOrder`, `NoHole`, `IdlesFirst`), whose code a CPU
executes or has saved (`Flows`), and what the boot has reached: until
`thread_initialized` the BSP alone creates threads, and the idle threads come
first, in the order in which `cpu_idx` counts (`Booting`, `BootOrder`);
afterwards every CPU has its idle thread, complete and placed (`Booted`).
`CpuReady` needs all of it: that an idle thread lies on its own CPU is nowhere
written in the code, it follows from the number of idle threads made being
what `cpu_idx` counts.  `Balanced` needs `RoundRobin`: the CPUs below `cpu_idx`
have one thread more than the others.

**Bitmap and FrameAlloc** (any memory map, any number of CPUs, any `W`).
`FindRangeFindsRuns` and `SetRangeSetsExactly` are about every bitmap, every
length and every range, not only those the allocator reaches.  The first
carries two loop invariants through the bits of a mixed byte, uniform bytes and
the bytes of the map: `Sound` (the run counted so far consists of matching
bits that end at the place reached) and `Complete` (no long enough run ends
before it); the byte-wise shortcuts are shown to agree with the bit-wise
meaning.  From them, and from an invariant on the shape of the bitmap, come
`FrameFindRange` and `FrameSetRange` for the runs' properties, without a
restriction on the counts.

`FrameExclusive` and `FrameNoneLost` assume `Counts \subseteq {0, 1}`.  The
hypothesis is the one the code needs: with a count of 2 the run `frames_multi`
shows the same property violated.  `AllocInv` says that no reserved frame is
marked, in the bitmap or in a byte a CPU has loaded (`Marks`, clashes or not),
and, as long as nobody clashed, that a loaded byte is still the one in the
bitmap (`Fresh`) and that a frame is in one place: held once, being freed by
one CPU, or marked (`OnePlace`).  That `init` marks exactly the usable frames
outside the bitmap is an induction over the regions (`MarkedIs`, `InitMap`).

The assumptions: regions lie within the frames and one ends at the last frame
(the size of the bitmap is computed from the highest one), no region starts at
frame 0, and some region holds the bitmap; without one `frame::init` has no
place for it.

**Printf** (any directives and arguments).  `PrintfIndependent`: a round of the
loop sets all three variables before it reads them, so its result is the same
from any contents.  `PrintfFieldFilled`: what a conversion prints has a length
of its own, which width and padding flags leave alone, and the field is the
wider of the two; the width, the precision and the value are told apart in the
argument list.  `DigitsAssumption` and `DirectivesAssumption` state what the
backends cannot compute or what a directive is: powers of two up to the width
of a long are positive, a long has no more digits than the loop is bounded by,
widths and precisions are numbers.

**DSocket** (any number of CPUs, sockets and handles, any size of the backlog
and the buffers).  `SocketConnectionsReady` follows from `SocketInv`.  What the
list looks like plays no part in it: wherever a walk ends, what is written there
is the link of a socket.  What it does say is who may touch what.  A socket
belongs to one CPU, through one handle or as the one it is appending (`Owned`);
the handle's operations and the CPU's place in a call tell whether the socket
has a pair, and a usable one (`HandlesOK`); a pair that `connect` has made is
known to nobody else until it is stored (`NewPairs`); the pair `accept` works on
has its buffers before it is connected (`TakenPairs`, `ReadyFirst`).  The ends
stay apart by `ConnectedOnce` and `AcceptedOnce`: a pair waits at one place of
one backlog, is being taken by one CPU, or has its accepted socket.  The shift
of the backlog makes this delicate: behind `conn_max` it leaves a copy of an
entry, so that only the places below it, and place 0, count (`Live`).  Two
connects may read the same `conn_curr` and overwrite each other's pair; then one
of them waits for good, and nothing is accepted twice.  Steps that leave
sockets, handles and backlogs alone are covered by one lemma (`Keeps`), and the
CPUs that do not move by another (`Bystander`).

`SocketSocketsListed` adds `ListInv`: there is a sequence of distinct sockets
that starts at the head, in which each links to the next and the last to
nothing (`Chain`); it has all sockets with a handle and none that is still being
appended, and a CPU between `FindTail` and `Link` stands at its last socket
(`Lists`).  The property alone is not inductive: that a socket is in the list
does not say that the tail a CPU found is still the tail when it writes there,
which is exactly what a second append would break (`crossed`).  The sequence is
existential, and `ChainWalked` identifies it with the walk of the code (`Nth`);
that the walk has reached the end after as many steps as there are sockets is a
counting argument (`ChainShort`).

`SocketStreamsOrdered` adds `StreamInv`.  `Flow` says of one buffer what holds
in the middle of a call too: the receiver has the bytes 1 to n, the buffer goes
on from there, a bytes lie behind the position because a send has copied them
and not yet advanced it, and b bytes are both received and still in front
because a recv has yet to remove them.  The four steps of the calls turn (0, 0)
into (n, 0) and back, or into (0, n) and back (`FlowSend`, `FlowSent`,
`FlowRecv`, `FlowRecvd`); the last rests on `MemmoveMoves`, an induction over
the bytes of the overlapping move.  Which of the three it is follows from the
one CPU that is in a call on the buffer (`Stream`); overlapping calls put the
buffer into `raced`.  `NewBuffers` resets the positions, so the invariant also
needs that a pair is not accepted after it carried bytes: a pair on its way
through `connect`, a backlog or the start of `accept` has not been connected
(`Unaccepted`), and an unconnected pair is empty (`Unused`).

**PageTable** (any radix of at least 2, any number of frames, devices and
kernel pages, any number of forks).  `Translated`, `KernelShared` and
`TablesHeld` follow from `IInv`: there is an assignment of levels to frames
(`lev`, which the code does not keep) under which the tables are a forest.  A
frame with a level is not free and is not frame 0 (`Levels`), an entry above
the last level is clear or leads one level down (`Descends`), and no two
entries lead to one table, except that forked spaces share third-level tables
at the same index (`Unshared`).  The last is what makes `map` and `unmap` hit
the page they are asked for: two walks that meet have the same indices above
the place where they meet, and a page is determined by its indices.  None of
the three properties is inductive without it.  Levels are existential because
`unmap` leaks: the tables below an entry it clears are reachable from nowhere
and still may not be handed out, so the level of a frame is not a function of
what can be walked.  To the forest come what physmap returned (`HeldOK`: not
free, no table), the kernel's half being equal in all spaces
(`KernelHalf`), and the record of what was asked (`MapsAsked`,
`KernelMapped`).  The lemmas follow the code: `CreateGrows` for one
`page_table_create`, `WithTablesGrows` for the three of `map` (a walk that does
not fault afterwards found a frame each time, also when `alloc_frames` returned
0 and the next table was written into frame 0), `SetEntrySound`, `UnmapSound`,
`ForkGood`; `DropKeeps` shows that `k_exit` frees nothing, as
`free_page_table` is called with the count at 0 and frees at 1.
`MemoryAssumption` says what the memory layout gives: the number of a frame is
below the kernel's half, the kernel's pages are in it, and devices are not
frames.

**Recursion** has induction over the naturals in the form of sets, and that a
loop of n rounds has its sequence of values.  The library's induction theorems
take a predicate as a parameter, which the backends cannot instantiate; a set
is a term, and serves as the predicate.

Only model-checked:

* liveness (`SomeoneEnters`, `EveryThreadStarts`);
* the refinement of `BlockHeap` by `Mpool`, whose mapping walks the tags with a
  recursive operator, and the word-level invariants of `Mpool`;
* `Mman`, which uses `Bitwise` for its size classes;
* `ReadsBack`: the digits of a number are powers of the base, and the backends
  know nothing of exponents.

## 6. Not modelled

* The fixed-size pool, which nothing calls.
* The contents of registers and stacks, the copy of a file table by `k_clone`
  (it goes through an uninitialised pointer, which `Sched` takes as a possible
  fault), and the reference count of file tables, which nothing reads.
* Threads that run on a CPU while one of its socket calls waits in
  `arch::yield`.
* Concurrent calls of `map`: it has no lock, and nothing beyond what one call at
  a time gives is claimed of it.
* Device set-up (APIC, HPET, GDT, IDT), ACPI parsing, the serial console:
  executed once, or I/O.
* `memcpy`, `memset`, `memcmp`: single loops, used as what they compute.
* Memory consumed by `create`: exhaustion of heap and frames is modelled in
  those components, not at their callers.

## 7. Plan

In this order:

1. **Page tables on several CPUs**: two CPUs in `page_table_create` on one
   entry.
2. **printk** with its lock and the exception handlers that print.
