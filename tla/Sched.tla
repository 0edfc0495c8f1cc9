------------------------------- MODULE Sched --------------------------------
(***************************************************************************)
(* Threads and scheduling on several CPUs: the SMP boot handshake of       *)
(* apic.cpp, thread::init / create / search of thread/thread.cpp, the      *)
(* timer handler of idt.cpp with schedule::switch_to, and the clone and    *)
(* exit system calls of hel/syscall.cpp.                                   *)
(*                                                                         *)
(* thread::create runs under new_thread_lock while thread::search, in the  *)
(* timer handler of another CPU, reads the same threads[] under a lock of  *)
(* its own, so create is modelled step by step and a thread object is      *)
(* visible, with whatever malloc left in it, before it is complete.        *)
(* A search is one step: what it reads of other CPUs only grows.           *)
(*                                                                         *)
(* A CPU handles no interrupt in a system call or in create: RFLAGS.IF is  *)
(* clear there.  A CPU that faults stops for good ("halted"): the          *)
(* exception handlers of idt.cpp end in a hlt loop with interrupts off.    *)
(* Touching freed memory may or may not fault.                             *)
(*                                                                         *)
(* jiffies is left out: it is never incremented, so that search's minimum  *)
(* is the first match; an object whose jiffies is not yet written is the   *)
(* last of threads[] and comes after every other match.                    *)
(***************************************************************************)
EXTENDS Integers, FiniteSets, FiniteSetsExt

CONSTANTS
    CpuCount,       \* apic_table::cpu_count
    MaxThreadCount  \* kMaxThreadCount

ASSUME CountsAssumption ==
    CpuCount \in Nat \ {0} /\ MaxThreadCount \in Nat /\ MaxThreadCount >= 2

CPU == 0 .. CpuCount - 1
BSP == 0
Slots == 1 .. MaxThreadCount - 1

(* Objects are never deleted, so the pointer's place names the thread.     *)
Idle(c) == <<"idle", c>>
Slot(i) == <<"slot", i>>
Thread == {Idle(c) : c \in CPU} \cup {Slot(i) : i \in Slots}
None == <<"none", 0>>

(* What a CPU executes: a thread's code, or the boot code that ends in a   *)
(* hlt loop.                                                               *)
Boot == <<"boot", 0>>
Flow == Thread \cup {Boot}

RunState == {"kRunNone", "kRunActive", "kRunTerminated"}

(* A thread's arch_context and mm: not written yet, starting at an entry,  *)
(* starting at address NULL, or copied from the thread that cloned it.     *)
Ctx == {"none", "entry", "null", "copied"}

PC == {"smp_init", "ap_entry", "ap_wait", "init",
       "lock", "find", "store", "read_idx", "write_idx", "build", "finish",
       "clone", "vfork", "run", "halted"}

VARIABLES
    pc,                 \* pc[c]: where CPU c stands
    running,            \* running[c]: the flow it executes
    current,            \* current[c]: IA32_KERNEL_GS_BASE
    ap_initialized,
    thread_initialized,
    new_thread_lock,    \* the CPU that holds it, or -1
    cpu_idx,
    exists,             \* the objects idle_threads[] and threads[] point to
    state, cpu_id, ctx, child_vfork_done,   \* fields of a thread
    saved,              \* saved[c]: the frame in the context of Idle(c)
    freed,              \* the CPUs whose current thread k_exit has freed
    new, idx,           \* locals of create: t, and idx of alloc_cpu_id
    vfork               \* vfork[c]: CLONE_VFORK of c's clone call

boot == <<ap_initialized, thread_initialized>>
fields == <<state, cpu_id, ctx, child_vfork_done>>
locals == <<new, idx, vfork>>
vars == <<pc, running, current, boot, new_thread_lock, cpu_idx, exists, fields,
          saved, freed, locals>>

Goto(c, from, to) == pc[c] = from /\ pc' = [pc EXCEPT ![c] = to]

Init ==
    /\ pc = [c \in CPU |-> IF c = BSP THEN "smp_init" ELSE "ap_entry"]
    /\ running = [c \in CPU |-> Boot]
    /\ current = [c \in CPU |-> None]
    /\ ap_initialized = FALSE /\ thread_initialized = FALSE
    /\ new_thread_lock = -1
    /\ cpu_idx = 0
    /\ exists = {}
    /\ state = [t \in Thread |-> "kRunNone"]
    /\ cpu_id = [t \in Thread |-> 0]
    /\ ctx = [t \in Thread |-> "none"]
    /\ child_vfork_done = [t \in Thread |-> FALSE]
    /\ saved = [c \in CPU |-> [flow |-> Idle(c), pc |-> "run"]]
    /\ freed = {}
    /\ new = [c \in CPU |-> None]
    /\ idx = [c \in CPU |-> 0]
    /\ vfork = [c \in CPU |-> FALSE]

-----------------------------------------------------------------------------
(* Boot                                                                    *)

smp_init ==
    /\ Goto(BSP, "smp_init", "init")
    /\ ap_initialized' = TRUE
    /\ UNCHANGED <<running, current, thread_initialized, new_thread_lock, cpu_idx,
                   exists, fields, saved, freed, locals>>

(* ap_entry up to its second loop.                                         *)
ApStart(c) ==
    /\ Goto(c, "ap_entry", "ap_wait")
    /\ ap_initialized
    /\ UNCHANGED <<running, current, boot, new_thread_lock, cpu_idx, exists, fields,
                   saved, freed, locals>>

(* Slip: the second loop is forgotten.                                     *)
ApEnterEarly(c) ==
    /\ Goto(c, "ap_wait", "run")
    /\ current' = [current EXCEPT ![c] = IF Idle(c) \in exists THEN Idle(c) ELSE None]
    /\ UNCHANGED <<running, boot, new_thread_lock, cpu_idx, exists, fields, saved,
                   freed, locals>>

(* The second loop is left; from the sti on the CPU takes interrupts.      *)
ApEnter(c) ==
    /\ Goto(c, "ap_wait", "run")
    /\ thread_initialized
    /\ current' = [current EXCEPT ![c] = IF Idle(c) \in exists THEN Idle(c) ELSE None]
    /\ UNCHANGED <<running, boot, new_thread_lock, cpu_idx, exists, fields, saved,
                   freed, locals>>

(* thread::init: one idle thread per CPU and the init thread, cpu_idx      *)
(* starting over in between; then the BSP joins the hlt loop.              *)
InitCreates ==
    /\ Goto(BSP, "init", "lock")
    /\ Slot(1) \notin exists
    /\ cpu_idx' = IF \A c \in CPU : Idle(c) \in exists THEN 0 ELSE cpu_idx
    /\ UNCHANGED <<running, current, boot, new_thread_lock, exists, fields, saved,
                   freed, locals>>

InitDone ==
    /\ Goto(BSP, "init", "run")
    /\ Slot(1) \in exists
    /\ current' = [current EXCEPT ![BSP] = Idle(BSP)]
    /\ thread_initialized' = TRUE
    /\ UNCHANGED <<running, ap_initialized, new_thread_lock, cpu_idx, exists, fields,
                   saved, freed, locals>>

-----------------------------------------------------------------------------
(* thread::create                                                          *)

(* Slip: create without its lock.                                          *)
LockForgotten(c) ==
    /\ Goto(c, "lock", "find")
    /\ new_thread_lock' = c
    /\ UNCHANGED <<running, current, boot, cpu_idx, exists, fields, saved, freed,
                   locals>>

TakeLock(c) ==
    /\ Goto(c, "lock", "find")
    /\ new_thread_lock = -1
    /\ new_thread_lock' = c
    /\ UNCHANGED <<running, current, boot, cpu_idx, exists, fields, saved, freed,
                   locals>>

(* get_free_thread: the first empty place, those of the idle threads first.*)
(* Without one, create writes through a null pointer.                      *)
EmptyIdle == {c \in CPU : Idle(c) \notin exists}
EmptySlots == {i \in Slots : Slot(i) \notin exists}

FindPlace(c) ==
    /\ EmptyIdle \cup EmptySlots # {}
    /\ Goto(c, "find", "store")
    /\ new' = [new EXCEPT ![c] = IF EmptyIdle # {} THEN Idle(Min(EmptyIdle))
                                 ELSE Slot(Min(EmptySlots))]
    /\ UNCHANGED <<running, current, boot, new_thread_lock, cpu_idx, exists, fields,
                   saved, freed, idx, vfork>>

NoPlace(c) ==
    /\ EmptyIdle \cup EmptySlots = {}
    /\ Goto(c, "find", "halted")
    /\ UNCHANGED <<running, current, boot, new_thread_lock, cpu_idx, exists, fields,
                   saved, freed, locals>>

(* threads[i] = malloc(...): the object is visible, its fields are what    *)
(* the heap left there.                                                    *)
StorePlace(c, anyState, anyCpu) ==
    /\ Goto(c, "store", "read_idx")
    /\ exists' = exists \cup {new[c]}
    /\ state' = [state EXCEPT ![new[c]] = anyState]
    /\ cpu_id' = [cpu_id EXCEPT ![new[c]] = anyCpu]
    /\ UNCHANGED <<running, current, boot, new_thread_lock, cpu_idx, ctx,
                   child_vfork_done, saved, freed, locals>>

(* alloc_cpu_id: cpu_idx is read, then written.                            *)
ReadIdx(c) ==
    /\ Goto(c, "read_idx", "write_idx")
    /\ idx' = [idx EXCEPT ![c] = cpu_idx]
    /\ UNCHANGED <<running, current, boot, new_thread_lock, cpu_idx, exists, fields,
                   saved, freed, new, vfork>>

(* Slips: the round robin does not wrap, or does not advance.              *)
NextCpuUnwrapped(i) == i + 1
SameCpu(i) == i

NextCpu(i) == (i + 1) % CpuCount

WriteIdx(c) ==
    /\ Goto(c, "write_idx", "build")
    /\ cpu_idx' = NextCpu(idx[c])
    /\ cpu_id' = [cpu_id EXCEPT ![new[c]] = idx[c]]
    /\ UNCHANGED <<running, current, boot, new_thread_lock, exists, state, ctx,
                   child_vfork_done, saved, freed, locals>>

(* Stacks, arch_context, mm, file table.  A clone's entry is NULL.         *)
Build(c) ==
    /\ Goto(c, "build", "finish")
    /\ ctx' = [ctx EXCEPT ![new[c]] = IF thread_initialized THEN "null" ELSE "entry"]
    /\ child_vfork_done' = [child_vfork_done EXCEPT ![new[c]] = FALSE]
    /\ UNCHANGED <<running, current, boot, new_thread_lock, cpu_idx, exists, state,
                   cpu_id, saved, freed, locals>>

(* set_state(kRunNone); spin_unlock                                        *)
Finish(c) ==
    /\ Goto(c, "finish", IF thread_initialized THEN "clone" ELSE "init")
    /\ state' = [state EXCEPT ![new[c]] = "kRunNone"]
    /\ new_thread_lock' = -1
    /\ UNCHANGED <<running, current, boot, cpu_idx, exists, cpu_id, ctx,
                   child_vfork_done, saved, freed, locals>>

-----------------------------------------------------------------------------
(* The timer                                                               *)

(* Slip: cpu_id is not compared.                                           *)
RunnableAnywhere(c) ==
    {i \in Slots : /\ \A j \in 1 .. i : Slot(j) \in exists
                   /\ state[Slot(i)] = "kRunNone"}

(* thread::search(kRunNone, c): the first match, up to the first empty     *)
(* place of threads[]; the CPU's idle thread when there is none.           *)
Runnable(c) ==
    {i \in Slots : /\ \A j \in 1 .. i : Slot(j) \in exists
                   /\ state[Slot(i)] = "kRunNone"
                   /\ cpu_id[Slot(i)] = c}

search(c) == IF Runnable(c) = {} THEN Idle(c) ELSE Slot(Min(Runnable(c)))

(* The CPU continues with a thread that has not run yet.                   *)
Enter(c, t) ==
    /\ running' = [running EXCEPT ![c] = t]
    /\ pc' = [pc EXCEPT ![c] = IF ctx[t] = "null" THEN "halted" ELSE "run"]

(* Slip: the thread switched to is not marked active.                      *)
SwitchUnmarked(c, from, to) ==
    /\ ctx[to] # "none"
    /\ state' = [state EXCEPT ![from] = "kRunNone"]
    /\ saved' = [saved EXCEPT ![c] = [flow |-> running[c], pc |-> pc[c]]]
    /\ Enter(c, to)
    /\ UNCHANGED <<current, boot, new_thread_lock, cpu_idx, exists, cpu_id, ctx,
                   child_vfork_done, freed, locals>>

(* schedule::switch_to with thread_switch_to: the interrupted frame goes   *)
(* to the context of the current thread.  An object whose mm and           *)
(* arch_context are not set yet is taken to fault: the code follows what   *)
(* the heap left there, and of any other outcome nothing is known.  A      *)
(* freed context may fault.                                                *)
switch_to(c, from, to) ==
    /\ ctx[to] # "none"
    /\ state' = [state EXCEPT ![from] = "kRunNone", ![to] = "kRunActive"]
    /\ saved' = [saved EXCEPT ![c] = [flow |-> running[c], pc |-> pc[c]]]
    /\ Enter(c, to)
    /\ UNCHANGED <<current, boot, new_thread_lock, cpu_idx, exists, cpu_id, ctx,
                   child_vfork_done, freed, locals>>

Fault(c) ==
    /\ pc' = [pc EXCEPT ![c] = "halted"]
    /\ UNCHANGED <<running, current, boot, new_thread_lock, cpu_idx, exists, fields,
                   saved, freed, locals>>

(* do_lapic_timer                                                          *)
do_lapic_timer(c) ==
    /\ search(c) # current[c]
    /\ \/ switch_to(c, current[c], search(c))
       \/ (ctx[search(c)] = "none" \/ c \in freed) /\ Fault(c)

(* The LAPIC timer interrupts thread code or the hlt loop.                 *)
Tick(c) == pc[c] = "run" /\ do_lapic_timer(c)

-----------------------------------------------------------------------------
(* System calls, by threads other than the idle ones                       *)

InThread(c) == pc[c] = "run" /\ running[c] \in {Slot(i) : i \in Slots}

k_clone(c, wantsVfork) ==
    /\ InThread(c)
    /\ pc' = [pc EXCEPT ![c] = "lock"]
    /\ vfork' = [vfork EXCEPT ![c] = wantsVfork]
    /\ UNCHANGED <<running, current, boot, new_thread_lock, cpu_idx, exists, fields,
                   saved, freed, new, idx>>

(* The rest of k_clone, after create has made the child runnable: context  *)
(* and page table are copied by way of the current thread's own context.   *)
(* A freed context may fault, and so may the copy of the file table, which *)
(* goes through an uninitialized pointer unless CLONE_FILES is given.      *)
CloneCopy(c, ok) ==
    /\ Goto(c, "clone", IF ~ok THEN "halted" ELSE IF vfork[c] THEN "vfork" ELSE "run")
    /\ saved' = [saved EXCEPT ![c] = [flow |-> running[c], pc |-> "run"]]
    /\ ctx' = [ctx EXCEPT ![new[c]] = "copied"]
    /\ child_vfork_done' = [child_vfork_done EXCEPT ![new[c]] = FALSE,
                                                    ![current[c]] = @ /\ ~vfork[c]]
    /\ UNCHANGED <<running, current, boot, new_thread_lock, cpu_idx, exists, state,
                   cpu_id, freed, locals>>

(* while (!child_vfork_done) arch::yield(), a timer interrupt by software. *)
VforkWait(c) ==
    /\ pc[c] = "vfork"
    /\ IF child_vfork_done[current[c]]
       THEN /\ pc' = [pc EXCEPT ![c] = "run"]
            /\ child_vfork_done' = [child_vfork_done EXCEPT ![current[c]] = FALSE]
            /\ UNCHANGED <<running, current, boot, new_thread_lock, cpu_idx, exists,
                           state, cpu_id, ctx, saved, freed, locals>>
       ELSE do_lapic_timer(c)

(* k_exit frees the context of the current thread and enters the next one  *)
(* without marking it active; with no other thread that is the context     *)
(* just freed, with the frame last saved in it.                            *)
k_exit(c) ==
    /\ InThread(c)
    /\ freed' = freed \cup {c}
    /\ state' = [state EXCEPT ![current[c]] = "kRunTerminated"]
    /\ IF search(c) = Idle(c)
       THEN /\ running' = [running EXCEPT ![c] = saved[c].flow]
            /\ pc' = [pc EXCEPT ![c] = saved[c].pc]
       ELSE /\ ctx[search(c)] # "none"
            /\ Enter(c, search(c))
    /\ UNCHANGED <<current, boot, new_thread_lock, cpu_idx, exists, cpu_id, ctx,
                   child_vfork_done, saved, locals>>

(* It may fault on the way: a context without a stack frame, freed memory. *)
ExitFaults(c) ==
    /\ InThread(c)
    /\ freed' = freed \cup {c}
    /\ state' = [state EXCEPT ![current[c]] = "kRunTerminated"]
    /\ c \in freed \/ search(c) = Idle(c) \/ ctx[search(c)] = "none"
    /\ pc' = [pc EXCEPT ![c] = "halted"]
    /\ UNCHANGED <<running, current, boot, new_thread_lock, cpu_idx, exists, cpu_id,
                   ctx, child_vfork_done, saved, locals>>

-----------------------------------------------------------------------------
Creates(c) ==
    \/ TakeLock(c)
    \/ FindPlace(c)
    \/ NoPlace(c)
    \/ \E s \in {"kRunNone", "kRunActive"}, k \in CPU : StorePlace(c, s, k)
    \/ ReadIdx(c)
    \/ WriteIdx(c)
    \/ Build(c)
    \/ Finish(c)
    \/ \E ok \in BOOLEAN : CloneCopy(c, ok)

Boots == smp_init \/ InitCreates \/ InitDone

Next ==
    \/ Boots
    \/ \E c \in CPU :
        \/ ApStart(c)
        \/ ApEnter(c)
        \/ Creates(c)
        \/ Tick(c)
        \/ VforkWait(c)
        \/ k_exit(c)
        \/ ExitFaults(c)
        \/ \E v \in BOOLEAN : k_clone(c, v)

(* A CPU executes its code and its LAPIC timer keeps firing.  Nothing is   *)
(* assumed of the application processors' wait loops, which read plain     *)
(* bools the compiler may keep in a register, and no thread has to make a  *)
(* system call.                                                            *)
Fairness ==
    /\ WF_vars(Boots)
    /\ \A c \in CPU : WF_vars(Creates(c)) /\ WF_vars(Tick(c)) /\ WF_vars(VforkWait(c))

Spec == Init /\ [][Next]_vars /\ Fairness

-----------------------------------------------------------------------------
(* Properties                                                              *)

TypeOK ==
    /\ pc \in [CPU -> PC]
    /\ running \in [CPU -> Flow]
    /\ current \in [CPU -> Thread \cup {None}]
    /\ ap_initialized \in BOOLEAN /\ thread_initialized \in BOOLEAN
    /\ new_thread_lock \in CPU \cup {-1}
    /\ cpu_idx \in CPU
    /\ exists \subseteq Thread
    /\ state \in [Thread -> RunState]
    /\ cpu_id \in [Thread -> CPU]
    /\ ctx \in [Thread -> Ctx]
    /\ child_vfork_done \in [Thread -> BOOLEAN]
    /\ saved \in [CPU -> [flow : Flow, pc : PC]]
    /\ freed \subseteq CPU
    /\ new \in [CPU -> Thread \cup {None}]
    /\ idx \in [CPU -> CPU]
    /\ vfork \in [CPU -> BOOLEAN]

Creating(c) == pc[c] \in {"store", "read_idx", "write_idx", "build", "finish"}

(* Two CPUs in create never build the same thread object, and threads[]    *)
(* has no hole before a thread: search stops at the first empty place and  *)
(* would never see what lies behind it.                                    *)
PlacesExclusive ==
    /\ \A c, d \in CPU : c # d /\ Creating(c) /\ Creating(d) => new[c] # new[d]
    /\ \A i \in Slots : Slot(i) \in exists => \A j \in 1 .. i : Slot(j) \in exists

(* Round robin: the threads placed on two CPUs differ by at most one in    *)
(* number, whichever CPUs created them.                                    *)
Unplaced == {new[c] : c \in {d \in CPU : pc[d] \in {"read_idx", "write_idx"}}}
Placed(k) == {i \in Slots : Slot(i) \in exists \ Unplaced /\ cpu_id[Slot(i)] = k}

Balanced ==
    \A k, l \in CPU : Cardinality(Placed(k)) <= Cardinality(Placed(l)) + 1

(* A CPU that takes timer interrupts has a current thread: its own idle    *)
(* thread, complete and placed on it.                                      *)
CpuReady ==
    \A c \in CPU : pc[c] \in {"run", "vfork"} =>
        /\ current[c] = Idle(c)
        /\ Idle(c) \in exists
        /\ ctx[Idle(c)] # "none"
        /\ cpu_id[Idle(c)] = c

(* A thread executes on the CPU it was placed on and so never on two at a  *)
(* time, also when its object was seen before it was complete.             *)
OwnCpu ==
    \A c \in CPU : running[c] # Boot =>
        running[c] \in exists /\ cpu_id[running[c]] = c

(* A runnable thread eventually gets its CPU, unless that CPU halts, waits *)
(* for a lock whose holder has halted, or is held up at boot.              *)
LockLost == new_thread_lock # -1 /\ pc[new_thread_lock] = "halted"
Stuck(c) == pc[c] \in {"halted", "ap_entry", "ap_wait"} \/ (pc[c] = "lock" /\ LockLost)

EveryThreadStarts ==
    \A i \in Slots :
        (Slot(i) \in exists /\ state[Slot(i)] = "kRunNone")
            ~> (state[Slot(i)] # "kRunNone" \/ Stuck(cpu_id[Slot(i)]))
=============================================================================
