------------------------------ MODULE Spinlock ------------------------------
(***************************************************************************)
(* spin_lock / spin_unlock of include/arch/x86_64/spinlock.hpp on one lock *)
(* shared by several CPUs, one machine instruction group per step.         *)
(*                                                                         *)
(* A CPU runs a stack of contexts: level 0 is thread code, level n > 0 an  *)
(* interrupt handler that interrupted level n - 1 (do_lapic_timer takes    *)
(* search_lock through thread::search, so handlers contend for the same    *)
(* locks as thread code).  Only the topmost context of a CPU runs.  Of     *)
(* RFLAGS only intr, the bit pushfq / cli / popfq are there for, is kept.  *)
(***************************************************************************)
EXTENDS Naturals

CONSTANTS
    CPU,        \* the processors
    MaxNest     \* bound on how deep interrupt handlers nest

ASSUME MaxNestAssumption == MaxNest \in Nat

Level == 0 .. MaxNest
Context == CPU \X Level

(* Where a context stands: "out" of the lock; about to "cli"; at the "bts" *)
(* loop; about to "save" rflags; in the critical section ("held"); after   *)
(* the btr about to "load" rflags; about to "popfq".                       *)
PC == {"out", "cli", "bts", "save", "held", "load", "popfq"}

VARIABLES
    lock,       \* bit 0 of spinlock_t.lock
    rflags,     \* spinlock_t.rflags (its IF bit)
    intr,       \* intr[c]: the interrupt flag IF of CPU c
    depth,      \* depth[c]: the level that runs on CPU c
    pc,         \* pc[x]: where context x stands
    saved,      \* saved[x]: the local `flags` of x's last spin_lock
    loaded      \* loaded[x]: the local `flags` of x's last spin_unlock

vars == <<lock, rflags, intr, depth, pc, saved, loaded>>

TypeOK ==
    /\ lock \in {0, 1}
    /\ rflags \in BOOLEAN
    /\ intr \in [CPU -> BOOLEAN]
    /\ depth \in [CPU -> Level]
    /\ pc \in [Context -> PC]
    /\ saved \in [Context -> BOOLEAN]
    /\ loaded \in [Context -> BOOLEAN]

(* SPIN_INIT; a CPU starts anywhere in thread code, interrupts on or off.  *)
Init ==
    /\ lock = 0
    /\ rflags = FALSE
    /\ intr \in [CPU -> BOOLEAN]
    /\ depth = [c \in CPU |-> 0]
    /\ pc = [x \in Context |-> "out"]
    /\ saved = [x \in Context |-> FALSE]
    /\ loaded = [x \in Context |-> FALSE]

(* The context that executes on CPU c.                                     *)
Top(c) == <<c, depth[c]>>

(* CPU c's running context moves from one point of the code to another.    *)
Step(c, from, to) ==
    /\ pc[Top(c)] = from
    /\ pc' = [pc EXCEPT ![Top(c)] = to]
    /\ depth' = depth

-----------------------------------------------------------------------------
(* Slips a change to this code could make; only checked against, not used. *)

(* bts without looking at the carry.                                       *)
TestAndSetNoCarry(c) ==
    /\ Step(c, "bts", "save")
    /\ lock' = 1
    /\ UNCHANGED <<rflags, intr, saved, loaded>>

(* spin_lock without the cli.                                              *)
CliForgotten(c) ==
    /\ Step(c, "cli", "bts")
    /\ UNCHANGED <<lock, rflags, intr, saved, loaded>>

(* rflags stored before the lock is taken.                                 *)
CliThenSave(c) ==
    /\ Step(c, "cli", "bts")
    /\ intr' = [intr EXCEPT ![c] = FALSE]
    /\ rflags' = saved[Top(c)]
    /\ UNCHANGED <<lock, saved, loaded>>

(* An unlock that does not clear the bit.                                  *)
ClearLockNothing(c) ==
    /\ Step(c, "held", "load")
    /\ UNCHANGED <<lock, rflags, intr, saved, loaded>>

(* A bit set with an increment, without looking at the old value.          *)
TestAndSetAdd(c) ==
    /\ Step(c, "bts", "save")
    /\ lock' = lock + 1
    /\ UNCHANGED <<rflags, intr, saved, loaded>>

-----------------------------------------------------------------------------
(* spin_lock                                                               *)

(* pushfq; pop flags                                                       *)
PushFlags(c) ==
    /\ Step(c, "out", "cli")
    /\ saved' = [saved EXCEPT ![Top(c)] = intr[c]]
    /\ UNCHANGED <<lock, rflags, intr, loaded>>

(* cli                                                                     *)
Cli(c) ==
    /\ Step(c, "cli", "bts")
    /\ intr' = [intr EXCEPT ![c] = FALSE]
    /\ UNCHANGED <<lock, rflags, saved, loaded>>

(* lock btsl; jc 1b: falls through only when the bit was clear.            *)
TestAndSet(c) ==
    /\ Step(c, "bts", "save")
    /\ lock = 0
    /\ lock' = 1
    /\ UNCHANGED <<rflags, intr, saved, loaded>>

(* lock->rflags = flags                                                    *)
SaveFlags(c) ==
    /\ Step(c, "save", "held")
    /\ rflags' = saved[Top(c)]
    /\ UNCHANGED <<lock, intr, saved, loaded>>

-----------------------------------------------------------------------------
(* spin_unlock                                                             *)

(* lock btrl                                                               *)
ClearLock(c) ==
    /\ Step(c, "held", "load")
    /\ lock' = 0
    /\ UNCHANGED <<rflags, intr, saved, loaded>>

(* flags = lock->rflags                                                    *)
LoadFlags(c) ==
    /\ Step(c, "load", "popfq")
    /\ loaded' = [loaded EXCEPT ![Top(c)] = rflags]
    /\ UNCHANGED <<lock, rflags, intr, saved>>

(* push flags; popfq.  The two locals are dead from here on.               *)
PopFlags(c) ==
    /\ Step(c, "popfq", "out")
    /\ intr' = [intr EXCEPT ![c] = loaded[Top(c)]]
    /\ saved' = [saved EXCEPT ![Top(c)] = FALSE]
    /\ loaded' = [loaded EXCEPT ![Top(c)] = FALSE]
    /\ UNCHANGED <<lock, rflags>>

-----------------------------------------------------------------------------
(* The rest of the CPU                                                     *)

(* The LAPIC timer fires: its gate is an interrupt gate, so IF is cleared  *)
(* on entry.                                                               *)
Interrupt(c) ==
    /\ intr[c]
    /\ depth[c] < MaxNest
    /\ depth' = [depth EXCEPT ![c] = @ + 1]
    /\ intr' = [intr EXCEPT ![c] = FALSE]
    /\ UNCHANGED <<lock, rflags, pc, saved, loaded>>

(* iretq pops the RFLAGS of the interrupted context, where IF was set.     *)
InterruptReturn(c) ==
    /\ depth[c] > 0
    /\ pc[Top(c)] = "out"
    /\ depth' = [depth EXCEPT ![c] = @ - 1]
    /\ intr' = [intr EXCEPT ![c] = TRUE]
    /\ UNCHANGED <<lock, rflags, pc, saved, loaded>>

(* Thread code outside the lock: the sti of the hlt loops, the cli of the  *)
(* syscall entry.                                                          *)
SetIF(c, b) ==
    /\ depth[c] = 0
    /\ pc[Top(c)] = "out"
    /\ intr' = [intr EXCEPT ![c] = b]
    /\ UNCHANGED <<lock, rflags, depth, pc, saved, loaded>>

Next ==
    \E c \in CPU :
        \/ PushFlags(c)
        \/ Cli(c)
        \/ TestAndSet(c)
        \/ SaveFlags(c)
        \/ ClearLock(c)
        \/ LoadFlags(c)
        \/ PopFlags(c)
        \/ Interrupt(c)
        \/ InterruptReturn(c)
        \/ \E b \in BOOLEAN : SetIF(c, b)

(* A CPU that executes makes progress, the holder's code reaches its       *)
(* unlock, and a handler returns.  Nothing says that a context ever takes  *)
(* the lock again, and nothing makes the bts loop fair to one CPU.         *)
Run(c) ==
    \/ Cli(c)
    \/ TestAndSet(c)
    \/ SaveFlags(c)
    \/ ClearLock(c)
    \/ LoadFlags(c)
    \/ PopFlags(c)

Fairness == \A c \in CPU : WF_vars(Run(c))

Spec == Init /\ [][Next]_vars /\ Fairness

-----------------------------------------------------------------------------
(* Properties                                                              *)

(* The contexts that have taken the lock's bit and not yet cleared it.     *)
Holders == {x \in Context : pc[x] \in {"save", "held"}}

(* At most one context of one CPU is between its bts and its btr, and the  *)
(* bit tells whether one is.                                               *)
MutualExclusion ==
    /\ \A x, y \in Holders : x = y
    /\ lock = 1 <=> Holders # {}

(* Everything between the cli and the popfq runs with interrupts off on    *)
(* that CPU, as the topmost context: an interrupt handler never spins on a *)
(* lock that the code below it holds.  Needs the cli to come before the    *)
(* bts and every RFLAGS restored in between to belong to another context.  *)
InterruptsOff ==
    \A x \in Context :
        pc[x] \notin {"out", "cli"} => ~intr[x[1]] /\ depth[x[1]] = x[2]

(* While the lock is held, spinlock_t.rflags is the holder's own: neither  *)
(* a context that spins nor one that is still leaving has overwritten it.  *)
RflagsOwned ==
    \A x \in Context : pc[x] = "held" => rflags = saved[x]

(* spinlock.hpp:44 "restore the original RFLAGS": the flags popped by an   *)
(* unlock are those its own spin_lock pushed.                              *)
RflagsRestored ==
    \A x \in Context : pc[x] = "popfq" => loaded[x] = saved[x]

(* Lock contention resolves: when a context is at the bts loop, some       *)
(* context is eventually in the critical section.                          *)
SomeoneEnters ==
    (\E x \in Context : pc[x] = "bts") ~> (\E x \in Context : pc[x] = "held")

=============================================================================
