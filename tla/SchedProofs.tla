---------------------------- MODULE SchedProofs -----------------------------
(***************************************************************************)
(* The safety of thread creation and scheduling for any number of CPUs and *)
(* any size of threads[].                                                  *)
(***************************************************************************)
EXTENDS Sched, Recursion, FiniteSetTheorems, TLAPS

-----------------------------------------------------------------------------
(* The inductive invariant                                                 *)

(* Who is between spin_lock and spin_unlock of create holds the lock.      *)
Holding(c) == pc[c] \in {"find", "store", "read_idx", "write_idx", "build", "finish"}
LockHeld == \A c \in CPU : Holding(c) => new_thread_lock = c

(* How far the object of a CPU in create is: chosen, published without a   *)
(* context, published with one.  A thread without a context never runs, so *)
(* its cpu_id may still change.                                            *)
ObjectsInOrder ==
    /\ \A c \in CPU :
          /\ pc[c] = "store" =>
                /\ new[c] \in Thread \ exists
                /\ \A i \in Slots : new[c] = Slot(i) =>
                      \A j \in 1 .. i - 1 : Slot(j) \in exists
          /\ pc[c] \in {"read_idx", "write_idx", "build"} =>
                new[c] \in exists /\ ctx[new[c]] = "none"
          /\ pc[c] \in {"finish", "clone"} => new[c] \in exists /\ ctx[new[c]] # "none"
    /\ \A t \in Thread \ exists : ctx[t] = "none"

NoHole == \A i \in Slots : Slot(i) \in exists => \A j \in 1 .. i : Slot(j) \in exists

(* The flow f may execute on c.                                            *)
Fits(c, f) == f # Boot => f \in exists /\ cpu_id[f] = c /\ ctx[f] # "none"

Flows == \A c \in CPU : Fits(c, running[c]) /\ saved[c].pc \in {"run", "vfork"}

IdleReady(c) == Idle(c) \in exists /\ cpu_id[Idle(c)] = c /\ ctx[Idle(c)] # "none"

(* From thread_initialized on.                                             *)
Booted ==
    thread_initialized =>
        /\ Slot(1) \in exists
        /\ \A c \in CPU :
              /\ IdleReady(c)
              /\ pc[c] \notin {"smp_init", "init"}
              /\ pc[c] \notin {"ap_entry", "ap_wait"} => current[c] = Idle(c)
              /\ Fits(c, saved[c].flow)

(* Until then the BSP alone creates threads: the idle threads in the order *)
(* of the CPUs, which is the order in which cpu_idx counts, then one more. *)
IdlesBelow(n) == \A k \in CPU : Idle(k) \in exists <=> k < n
AllIdles == \A k \in CPU : Idle(k) \in exists

BootOrder ==
    /\ pc[BSP] \in {"smp_init", "lock", "find", "store"} => Slot(1) \notin exists
    /\ pc[BSP] \in {"smp_init", "init", "lock", "find", "build", "finish"} =>
          \/ AllIdles /\ (Slot(1) \in exists \/ cpu_idx = 0)
          \/ ~AllIdles /\ IdlesBelow(cpu_idx)
    /\ pc[BSP] = "store" =>
          \/ new[BSP] = Idle(cpu_idx) /\ IdlesBelow(cpu_idx)
          \/ new[BSP] = Slot(1) /\ AllIdles /\ cpu_idx = 0
    /\ pc[BSP] \in {"read_idx", "write_idx"} =>
          \/ new[BSP] = Idle(cpu_idx) /\ IdlesBelow(cpu_idx + 1) /\ Slot(1) \notin exists
          \/ new[BSP] = Slot(1) /\ AllIdles
    /\ pc[BSP] = "build" => \A k \in CPU : new[BSP] = Idle(k) => cpu_id[Idle(k)] = k
    /\ \A k \in CPU : Idle(k) \in exists =>
          \/ IdleReady(k)
          \/ new[BSP] = Idle(k) /\ pc[BSP] \in {"read_idx", "write_idx", "build"}

Booting ==
    ~thread_initialized =>
        /\ \A c \in CPU \ {BSP} : pc[c] \in {"ap_entry", "ap_wait"}
        /\ pc[BSP] \in {"smp_init", "init", "lock", "find", "store", "read_idx",
                        "write_idx", "build", "finish"}
        /\ \A c \in CPU : saved[c].flow = Idle(c)
        /\ BootOrder

IdlesFirst == \A i \in Slots : Slot(i) \in exists => AllIdles

(* The CPUs below cpu_idx have one thread more than the others, of which   *)
(* the last CPU is always one.                                             *)
Even ==
    \A k \in CPU :
        Cardinality(Placed(k)) =
            Cardinality(Placed(CpuCount - 1)) + IF k < cpu_idx THEN 1 ELSE 0

RoundRobin ==
    /\ \A c \in CPU : pc[c] = "write_idx" => idx[c] = cpu_idx
    /\ (\A i \in Slots : Slot(i) \notin exists) \/ Even

SchedInv ==
    /\ TypeOK
    /\ LockHeld
    /\ ObjectsInOrder
    /\ NoHole
    /\ Flows
    /\ Booted
    /\ Booting
    /\ IdlesFirst
    /\ RoundRobin

-----------------------------------------------------------------------------
(* Facts about the operators                                               *)

(* The places of idle_threads[] and threads[] are all different, and none  *)
(* is the null pointer or the boot code.                                   *)
LEMMA ThreadNames ==
    /\ \A c \in CPU : Idle(c) \in Thread /\ Idle(c) # None /\ Idle(c) # Boot
    /\ \A i \in Slots : Slot(i) \in Thread /\ Slot(i) # None /\ Slot(i) # Boot
    /\ \A c \in CPU, i \in Slots : Idle(c) # Slot(i)
    /\ \A c, d \in CPU : Idle(c) = Idle(d) => c = d
    /\ \A i, j \in Slots : Slot(i) = Slot(j) => i = j
    /\ \A t \in Thread : (\E c \in CPU : t = Idle(c)) \/ (\E i \in Slots : t = Slot(i))
    /\ None \notin Thread /\ Boot \notin Thread
  <1>1. \A c, x : Idle(c) # Slot(x) /\ Idle(c) # None /\ Idle(c) # Boot
               /\ Slot(x) # None /\ Slot(x) # Boot
    BY DEF Idle, Slot, None, Boot
  <1>2. \A x, y : (Idle(x) = Idle(y) => x = y) /\ (Slot(x) = Slot(y) => x = y)
    BY DEF Idle, Slot
  <1> QED
    BY <1>1, <1>2, Zenon DEF Thread

(* 0 is a CPU and 1 a place of threads[].                                  *)
LEMMA Places ==
    /\ BSP \in CPU /\ CPU \subseteq Nat
    /\ CpuCount - 1 \in CPU
    /\ 1 \in Slots /\ Slots \subseteq Nat
    /\ -1 \notin CPU
    /\ \A i \in Slots : 1 .. i \subseteq Slots
  BY CountsAssumption DEF CPU, BSP, Slots

(* search returns a thread: the idle one, or one placed on the CPU that    *)
(* lies before the first empty place.                                      *)
LEMMA SearchResult ==
    ASSUME NEW c \in CPU
    PROVE  /\ search(c) \in Thread
           /\ \/ search(c) = Idle(c)
              \/ /\ search(c) \in exists
                 /\ cpu_id[search(c)] = c
  <1>1. CASE Runnable(c) = {}
    BY <1>1, ThreadNames DEF search
  <1>2. CASE Runnable(c) # {}
    <2>1. Runnable(c) \in SUBSET Nat /\ Runnable(c) \subseteq Slots
      BY Places DEF Runnable
    <2>2. Min(Runnable(c)) \in Runnable(c)
      BY <1>2, <2>1, MinIsLeast
    <2>3. Min(Runnable(c)) \in 1 .. Min(Runnable(c))
      BY <2>1, <2>2 DEF Slots
    <2>4. Slot(Min(Runnable(c))) \in exists /\ cpu_id[Slot(Min(Runnable(c)))] = c
      BY <2>2, <2>3 DEF Runnable
    <2> QED
      BY <1>2, <2>1, <2>2, <2>4, ThreadNames DEF search
  <1> QED
    BY <1>1, <1>2
(* What is placed changes only with threads[], with the cpu_id of a thread *)
(* and with the steps of alloc_cpu_id.                                     *)
LEMMA EvenKept ==
    ASSUME Even, cpu_idx' = cpu_idx, \A x \in CPU : Placed(x)' = Placed(x)
    PROVE  Even'
  BY Places, Zenon DEF Even

(* Steps that neither place nor move a thread keep the counts.             *)
LEMMA PlacedKept ==
    ASSUME Even, UNCHANGED <<exists, cpu_id, cpu_idx>>, Unplaced' = Unplaced
    PROVE  Even'
  <1>1. \A x \in CPU : Placed(x)' = Placed(x)
    BY DEF Placed
  <1> QED
    BY <1>1, EvenKept

(* Nothing is placed when the first thread after the idle ones is made.    *)
LEMMA EvenFirst ==
    ASSUME cpu_idx' = 0, \A x \in CPU : Placed(x)' = {}
    PROVE  Even'
  <1>1. Cardinality({}) = 0
    BY FS_EmptySet
  <1>2. \A k \in CPU : ~(k < 0)
    BY Places
  <1> SUFFICES ASSUME NEW k \in CPU
               PROVE  Cardinality(Placed(k))' =
                        Cardinality(Placed(CpuCount - 1))' + IF k < cpu_idx' THEN 1 ELSE 0
    BY DEF Even
  <1>3. Placed(k)' = {} /\ Placed(CpuCount - 1)' = {}
    BY Places
  <1> QED
    BY <1>1, <1>2, <1>3

(* The set of a CPU's threads is finite.                                   *)
LEMMA PlacedFinite == \A k : IsFiniteSet(Placed(k)) /\ Cardinality(Placed(k)) \in Nat
  <1>1. IsFiniteSet(Slots)
    BY CountsAssumption, FS_Interval DEF Slots
  <1> TAKE k
  <1>2. Placed(k) \in SUBSET Slots
    BY DEF Placed
  <1>3. IsFiniteSet(Placed(k))
    BY <1>1, <1>2, FS_Subset
  <1> QED
    BY <1>3, FS_CardinalityType

(* One more thread on the CPU cpu_idx, which then moves on.                *)
LEMMA EvenNext ==
    ASSUME Even, NEW n \in CPU, n = cpu_idx, NEW i,
           i \notin Placed(n), Placed(n)' = Placed(n) \cup {i},
           \A k \in CPU : k # n => Placed(k)' = Placed(k),
           n = CpuCount - 1 => cpu_idx' = 0,
           n # CpuCount - 1 => cpu_idx' = n + 1
    PROVE  Even'
  <1> DEFINE last == CpuCount - 1
             size(k) == Cardinality(Placed(k))
  <1>1. \A k \in CPU : size(k) \in Nat
    BY PlacedFinite
  <1>2. size(n)' = size(n) + 1
    BY PlacedFinite, FS_AddElement
  <1>3. \A k \in CPU : k # n => size(k)' = size(k)
    OBVIOUS
  <1>4. \A k \in CPU : size(k) = size(last) + IF k < n THEN 1 ELSE 0
    BY DEF Even
  <1>5. n \in CPU /\ last \in CPU /\ \A k \in CPU : k \in Nat /\ k <= last
    BY Places DEF CPU
  <1> HIDE DEF size
  <1> SUFFICES ASSUME NEW k \in CPU
               PROVE  size(k)' = size(last)' + IF k < cpu_idx' THEN 1 ELSE 0
    BY DEF Even, size
  <1>6. CASE n = last
    BY <1>1, <1>2, <1>3, <1>4, <1>5, <1>6
  <1>7. CASE n # last
    BY <1>1, <1>2, <1>3, <1>4, <1>5, <1>7
  <1> QED
    BY <1>6, <1>7

-----------------------------------------------------------------------------
(* Every step keeps the invariant                                          *)

(* smp_init lets the application processors into ap_entry.                 *)
LEMMA SmpInitStep ==
    ASSUME SchedInv, smp_init
    PROVE  SchedInv'
  <1> USE ThreadNames, Places
  <1>1. pc[BSP] = "smp_init" /\ pc' = [pc EXCEPT ![BSP] = "init"]
        /\ ap_initialized' = TRUE
        /\ UNCHANGED <<running, current, thread_initialized,
                       new_thread_lock, cpu_idx, exists, state, cpu_id,
                       ctx, child_vfork_done, saved, freed, new, idx,
                       vfork>>
    BY DEF smp_init, Goto, fields, locals
  <1>2. TypeOK'
    BY <1>1 DEF SchedInv, TypeOK, PC, RunState, Ctx
  <1>3. LockHeld'
    BY <1>1 DEF SchedInv, LockHeld, Holding, TypeOK
  <1>4. ObjectsInOrder'
    BY <1>1 DEF SchedInv, ObjectsInOrder, TypeOK
  <1>5. NoHole'
    BY <1>1 DEF SchedInv, NoHole
  <1>6. Flows'
    BY <1>1 DEF SchedInv, Flows, Fits, TypeOK
  <1>7. Booted'
    BY <1>1 DEF SchedInv, Booted, IdleReady, Fits, TypeOK
  <1>8. Booting'
    BY <1>1 DEF SchedInv, Booting, BootOrder, IdleReady, IdlesBelow, AllIdles, TypeOK
  <1>9. IdlesFirst'
    BY <1>1 DEF SchedInv, IdlesFirst, AllIdles
  <1>10. Unplaced' = Unplaced
    BY <1>1 DEF Unplaced, SchedInv, TypeOK
  <1>11. RoundRobin'
    BY <1>1, <1>10, PlacedKept DEF SchedInv, RoundRobin, TypeOK
  <1> QED
    BY <1>2, <1>3, <1>4, <1>5, <1>6, <1>7, <1>8, <1>9, <1>11 DEF SchedInv

(* An application processor reaches its second loop.                       *)
LEMMA ApStartStep ==
    ASSUME SchedInv, NEW c \in CPU, ApStart(c)
    PROVE  SchedInv'
  <1> USE ThreadNames, Places
  <1>1. pc[c] = "ap_entry" /\ pc' = [pc EXCEPT ![c] = "ap_wait"]
        /\ UNCHANGED <<running, current, ap_initialized,
                       thread_initialized, new_thread_lock, cpu_idx,
                       exists, state, cpu_id, ctx, child_vfork_done,
                       saved, freed, new, idx, vfork>>
    BY DEF ApStart, Goto, boot, fields, locals
  <1>2. TypeOK'
    BY <1>1 DEF SchedInv, TypeOK, PC, RunState, Ctx
  <1>3. LockHeld'
    BY <1>1 DEF SchedInv, LockHeld, Holding, TypeOK
  <1>4. ObjectsInOrder'
    BY <1>1 DEF SchedInv, ObjectsInOrder, TypeOK
  <1>5. NoHole'
    BY <1>1 DEF SchedInv, NoHole
  <1>6. Flows'
    BY <1>1 DEF SchedInv, Flows, Fits, TypeOK
  <1>7. Booted'
    BY <1>1 DEF SchedInv, Booted, IdleReady, Fits, TypeOK
  <1>8. Booting'
    BY <1>1 DEF SchedInv, Booting, BootOrder, IdleReady, IdlesBelow, AllIdles, TypeOK
  <1>9. IdlesFirst'
    BY <1>1 DEF SchedInv, IdlesFirst, AllIdles
  <1>10. Unplaced' = Unplaced
    BY <1>1 DEF Unplaced, SchedInv, TypeOK
  <1>11. RoundRobin'
    BY <1>1, <1>10, PlacedKept DEF SchedInv, RoundRobin, TypeOK
  <1> QED
    BY <1>2, <1>3, <1>4, <1>5, <1>6, <1>7, <1>8, <1>9, <1>11 DEF SchedInv

(* It leaves the loop only with its idle thread complete.                  *)
LEMMA ApEnterStep ==
    ASSUME SchedInv, NEW c \in CPU, ApEnter(c)
    PROVE  SchedInv'
  <1> USE ThreadNames, Places
  <1>1. pc[c] = "ap_wait" /\ pc' = [pc EXCEPT ![c] = "run"]
        /\ thread_initialized
        /\ current' = [current EXCEPT ![c] = IF Idle(c) \in exists THEN Idle(c) ELSE None]
        /\ UNCHANGED <<running, ap_initialized, thread_initialized,
                       new_thread_lock, cpu_idx, exists, state, cpu_id,
                       ctx, child_vfork_done, saved, freed, new, idx,
                       vfork>>
    BY DEF ApEnter, Goto, boot, fields, locals
  <1>2. TypeOK'
    BY <1>1 DEF SchedInv, TypeOK, PC, RunState, Ctx
  <1>3. LockHeld'
    BY <1>1 DEF SchedInv, LockHeld, Holding, TypeOK
  <1>4. ObjectsInOrder'
    BY <1>1 DEF SchedInv, ObjectsInOrder, TypeOK
  <1>5. NoHole'
    BY <1>1 DEF SchedInv, NoHole
  <1>6. Flows'
    BY <1>1 DEF SchedInv, Flows, Fits, TypeOK
  <1>7. Booted'
    BY <1>1 DEF SchedInv, Booted, IdleReady, Fits, TypeOK
  <1>8. Booting'
    BY <1>1 DEF SchedInv, Booting, BootOrder, IdleReady, IdlesBelow, AllIdles, TypeOK
  <1>9. IdlesFirst'
    BY <1>1 DEF SchedInv, IdlesFirst, AllIdles
  <1>10. Unplaced' = Unplaced
    BY <1>1 DEF Unplaced, SchedInv, TypeOK
  <1>11. RoundRobin'
    BY <1>1, <1>10, PlacedKept DEF SchedInv, RoundRobin, TypeOK
  <1> QED
    BY <1>2, <1>3, <1>4, <1>5, <1>6, <1>7, <1>8, <1>9, <1>11 DEF SchedInv

(* thread::init goes on to the next thread.                                *)
LEMMA InitCreatesStep ==
    ASSUME SchedInv, InitCreates
    PROVE  SchedInv'
  <1> USE ThreadNames, Places
  <1>1. pc[BSP] = "init" /\ pc' = [pc EXCEPT ![BSP] = "lock"]
        /\ Slot(1) \notin exists
        /\ (AllIdles => cpu_idx' = 0) /\ (~AllIdles => cpu_idx' = cpu_idx)
        /\ UNCHANGED <<running, current, ap_initialized,
                       thread_initialized, new_thread_lock, exists,
                       state, cpu_id, ctx, child_vfork_done, saved,
                       freed, new, idx, vfork>>
    BY DEF InitCreates, Goto, boot, fields, locals, AllIdles
  <1>same. cpu_idx' = cpu_idx
    BY <1>1 DEF SchedInv, Booted, Booting, BootOrder
  <1>2. TypeOK'
    BY <1>1, <1>same DEF SchedInv, TypeOK, PC, RunState, Ctx
  <1>3. LockHeld'
    BY <1>1, <1>same DEF SchedInv, LockHeld, Holding, TypeOK
  <1>4. ObjectsInOrder'
    BY <1>1, <1>same DEF SchedInv, ObjectsInOrder, TypeOK
  <1>5. NoHole'
    BY <1>1, <1>same DEF SchedInv, NoHole
  <1>6. Flows'
    BY <1>1, <1>same DEF SchedInv, Flows, Fits, TypeOK
  <1>7. Booted'
    BY <1>1, <1>same DEF SchedInv, Booted, IdleReady, Fits, TypeOK
  <1>8. Booting'
    BY <1>1, <1>same DEF SchedInv, Booting, BootOrder, IdleReady, IdlesBelow, AllIdles, TypeOK
  <1>9. IdlesFirst'
    BY <1>1, <1>same DEF SchedInv, IdlesFirst, AllIdles
  <1>10. Unplaced' = Unplaced
    BY <1>1 DEF Unplaced, SchedInv, TypeOK
  <1>11. RoundRobin'
    BY <1>1, <1>same, <1>10, PlacedKept DEF SchedInv, RoundRobin, TypeOK
  <1> QED
    BY <1>2, <1>3, <1>4, <1>5, <1>6, <1>7, <1>8, <1>9, <1>11 DEF SchedInv

(* thread::init ends with every idle thread complete.                      *)
LEMMA InitDoneStep ==
    ASSUME SchedInv, InitDone
    PROVE  SchedInv'
  <1> USE ThreadNames, Places
  <1>1. pc[BSP] = "init" /\ pc' = [pc EXCEPT ![BSP] = "run"]
        /\ Slot(1) \in exists
        /\ current' = [current EXCEPT ![BSP] = Idle(BSP)]
        /\ thread_initialized' = TRUE
        /\ UNCHANGED <<running, ap_initialized, new_thread_lock, cpu_idx,
                       exists, state, cpu_id, ctx, child_vfork_done,
                       saved, freed, new, idx, vfork>>
    BY DEF InitDone, Goto, fields, locals
  <1>2. TypeOK'
    BY <1>1 DEF SchedInv, TypeOK, PC, RunState, Ctx
  <1>3. LockHeld'
    BY <1>1 DEF SchedInv, LockHeld, Holding, TypeOK
  <1>4. ObjectsInOrder'
    BY <1>1 DEF SchedInv, ObjectsInOrder, TypeOK
  <1>5. NoHole'
    BY <1>1 DEF SchedInv, NoHole
  <1>6. Flows'
    BY <1>1 DEF SchedInv, Flows, Fits, TypeOK
  <1>7. Booted'
    <2>1. AllIdles
      BY <1>1 DEF SchedInv, IdlesFirst
    <2>2. \A k \in CPU : IdleReady(k)
      BY <1>1, <2>1 DEF SchedInv, Booted, Booting, BootOrder, AllIdles, TypeOK
    <2> QED
      BY <1>1, <2>2 DEF SchedInv, Booted, Booting, IdleReady, Fits, TypeOK
  <1>8. Booting'
    BY <1>1 DEF SchedInv, Booting, BootOrder, IdleReady, IdlesBelow, AllIdles, TypeOK
  <1>9. IdlesFirst'
    BY <1>1 DEF SchedInv, IdlesFirst, AllIdles
  <1>10. Unplaced' = Unplaced
    BY <1>1 DEF Unplaced, SchedInv, TypeOK
  <1>11. RoundRobin'
    BY <1>1, <1>10, PlacedKept DEF SchedInv, RoundRobin, TypeOK
  <1> QED
    BY <1>2, <1>3, <1>4, <1>5, <1>6, <1>7, <1>8, <1>9, <1>11 DEF SchedInv

(* new_thread_lock is taken.                                               *)
LEMMA TakeLockStep ==
    ASSUME SchedInv, NEW c \in CPU, TakeLock(c)
    PROVE  SchedInv'
  <1> USE ThreadNames, Places
  <1>1. pc[c] = "lock" /\ pc' = [pc EXCEPT ![c] = "find"]
        /\ new_thread_lock = -1 /\ new_thread_lock' = c
        /\ UNCHANGED <<running, current, ap_initialized,
                       thread_initialized, cpu_idx, exists, state,
                       cpu_id, ctx, child_vfork_done, saved, freed, new,
                       idx, vfork>>
    BY DEF TakeLock, Goto, boot, fields, locals
  <1>2. TypeOK'
    BY <1>1 DEF SchedInv, TypeOK, PC, RunState, Ctx
  <1>3. LockHeld'
    BY <1>1 DEF SchedInv, LockHeld, Holding, TypeOK
  <1>4. ObjectsInOrder'
    BY <1>1 DEF SchedInv, ObjectsInOrder, TypeOK
  <1>5. NoHole'
    BY <1>1 DEF SchedInv, NoHole
  <1>6. Flows'
    BY <1>1 DEF SchedInv, Flows, Fits, TypeOK
  <1>7. Booted'
    BY <1>1 DEF SchedInv, Booted, IdleReady, Fits, TypeOK
  <1>8. Booting'
    BY <1>1 DEF SchedInv, Booting, BootOrder, IdleReady, IdlesBelow, AllIdles, TypeOK
  <1>9. IdlesFirst'
    BY <1>1 DEF SchedInv, IdlesFirst, AllIdles
  <1>10. Unplaced' = Unplaced
    BY <1>1 DEF Unplaced, SchedInv, TypeOK
  <1>11. RoundRobin'
    BY <1>1, <1>10, PlacedKept DEF SchedInv, RoundRobin, TypeOK
  <1> QED
    BY <1>2, <1>3, <1>4, <1>5, <1>6, <1>7, <1>8, <1>9, <1>11 DEF SchedInv

(* Without a place create faults and keeps the lock.                       *)
LEMMA NoPlaceStep ==
    ASSUME SchedInv, NEW c \in CPU, NoPlace(c)
    PROVE  SchedInv'
  <1> USE ThreadNames, Places
  <1>1. pc[c] = "find" /\ pc' = [pc EXCEPT ![c] = "halted"]
        /\ EmptyIdle \cup EmptySlots = {}
        /\ UNCHANGED <<running, current, ap_initialized,
                       thread_initialized, new_thread_lock, cpu_idx,
                       exists, state, cpu_id, ctx, child_vfork_done,
                       saved, freed, new, idx, vfork>>
    BY DEF NoPlace, Goto, boot, fields, locals
  <1>2. TypeOK'
    BY <1>1 DEF SchedInv, TypeOK, PC, RunState, Ctx
  <1>3. LockHeld'
    BY <1>1 DEF SchedInv, LockHeld, Holding, TypeOK
  <1>4. ObjectsInOrder'
    BY <1>1 DEF SchedInv, ObjectsInOrder, TypeOK
  <1>5. NoHole'
    BY <1>1 DEF SchedInv, NoHole
  <1>6. Flows'
    BY <1>1 DEF SchedInv, Flows, Fits, TypeOK
  <1>7. Booted'
    BY <1>1 DEF SchedInv, Booted, IdleReady, Fits, TypeOK
  <1>8. Booting'
    <2>1. Slot(1) \in exists
      BY <1>1 DEF EmptySlots
    <2> QED
      BY <1>1, <2>1 DEF SchedInv, Booting, BootOrder, TypeOK
  <1>9. IdlesFirst'
    BY <1>1 DEF SchedInv, IdlesFirst, AllIdles
  <1>10. Unplaced' = Unplaced
    BY <1>1 DEF Unplaced, SchedInv, TypeOK
  <1>11. RoundRobin'
    BY <1>1, <1>10, PlacedKept DEF SchedInv, RoundRobin, TypeOK
  <1> QED
    BY <1>2, <1>3, <1>4, <1>5, <1>6, <1>7, <1>8, <1>9, <1>11 DEF SchedInv

(* alloc_cpu_id reads cpu_idx, under the lock.                             *)
LEMMA ReadIdxStep ==
    ASSUME SchedInv, NEW c \in CPU, ReadIdx(c)
    PROVE  SchedInv'
  <1> USE ThreadNames, Places
  <1>1. pc[c] = "read_idx" /\ pc' = [pc EXCEPT ![c] = "write_idx"]
        /\ idx' = [idx EXCEPT ![c] = cpu_idx]
        /\ UNCHANGED <<running, current, ap_initialized,
                       thread_initialized, new_thread_lock, cpu_idx,
                       exists, state, cpu_id, ctx, child_vfork_done,
                       saved, freed, new, vfork>>
    BY DEF ReadIdx, Goto, boot, fields, locals
  <1>2. TypeOK'
    BY <1>1 DEF SchedInv, TypeOK, PC, RunState, Ctx
  <1>3. LockHeld'
    BY <1>1 DEF SchedInv, LockHeld, Holding, TypeOK
  <1>4. ObjectsInOrder'
    BY <1>1 DEF SchedInv, ObjectsInOrder, TypeOK
  <1>5. NoHole'
    BY <1>1 DEF SchedInv, NoHole
  <1>6. Flows'
    BY <1>1 DEF SchedInv, Flows, Fits, TypeOK
  <1>7. Booted'
    BY <1>1 DEF SchedInv, Booted, IdleReady, Fits, TypeOK
  <1>8. Booting'
    BY <1>1 DEF SchedInv, Booting, BootOrder, IdleReady, IdlesBelow, AllIdles, TypeOK
  <1>9. IdlesFirst'
    BY <1>1 DEF SchedInv, IdlesFirst, AllIdles
  <1>10. Unplaced' = Unplaced
    BY <1>1 DEF Unplaced, SchedInv, TypeOK
  <1>11. RoundRobin'
    BY <1>1, <1>10, PlacedKept DEF SchedInv, RoundRobin, TypeOK
  <1> QED
    BY <1>2, <1>3, <1>4, <1>5, <1>6, <1>7, <1>8, <1>9, <1>11 DEF SchedInv

(* create ends: the thread is runnable and the lock free.                  *)
LEMMA FinishStep ==
    ASSUME SchedInv, NEW c \in CPU, Finish(c)
    PROVE  SchedInv'
  <1> USE ThreadNames, Places
  <1>1. pc[c] = "finish" /\ pc' = [pc EXCEPT ![c] = IF thread_initialized THEN "clone" ELSE "init"]
        /\ state' = [state EXCEPT ![new[c]] = "kRunNone"]
        /\ new_thread_lock' = -1
        /\ UNCHANGED <<running, current, ap_initialized,
                       thread_initialized, cpu_idx, exists, cpu_id, ctx,
                       child_vfork_done, saved, freed, new, idx, vfork>>
    BY DEF Finish, Goto, boot, locals
  <1>2. TypeOK'
    BY <1>1 DEF SchedInv, TypeOK, PC, RunState, Ctx
  <1>3. LockHeld'
    BY <1>1 DEF SchedInv, LockHeld, Holding, TypeOK
  <1>4. ObjectsInOrder'
    BY <1>1 DEF SchedInv, ObjectsInOrder, TypeOK
  <1>5. NoHole'
    BY <1>1 DEF SchedInv, NoHole
  <1>6. Flows'
    BY <1>1 DEF SchedInv, Flows, Fits, TypeOK
  <1>7. Booted'
    BY <1>1 DEF SchedInv, Booted, IdleReady, Fits, TypeOK
  <1>8. Booting'
    BY <1>1 DEF SchedInv, Booting, BootOrder, IdleReady, IdlesBelow, AllIdles, TypeOK
  <1>9. IdlesFirst'
    BY <1>1 DEF SchedInv, IdlesFirst, AllIdles
  <1>10. Unplaced' = Unplaced
    BY <1>1 DEF Unplaced, SchedInv, TypeOK
  <1>11. RoundRobin'
    BY <1>1, <1>10, PlacedKept DEF SchedInv, RoundRobin, TypeOK
  <1> QED
    BY <1>2, <1>3, <1>4, <1>5, <1>6, <1>7, <1>8, <1>9, <1>11 DEF SchedInv

(* A CPU that faults stops where it is.                                    *)
LEMMA FaultStep ==
    ASSUME SchedInv, NEW c \in CPU, pc[c] \in {"run", "vfork"}, Fault(c)
    PROVE  SchedInv'
  <1> USE ThreadNames, Places
  <1>1. pc' = [pc EXCEPT ![c] = "halted"]
        /\ UNCHANGED <<running, current, ap_initialized,
                       thread_initialized, new_thread_lock, cpu_idx,
                       exists, state, cpu_id, ctx, child_vfork_done,
                       saved, freed, new, idx, vfork>>
    BY DEF Fault, boot, fields, locals
  <1>2. TypeOK'
    BY <1>1 DEF SchedInv, TypeOK, PC, RunState, Ctx
  <1>3. LockHeld'
    BY <1>1 DEF SchedInv, LockHeld, Holding, TypeOK
  <1>4. ObjectsInOrder'
    BY <1>1 DEF SchedInv, ObjectsInOrder, TypeOK
  <1>5. NoHole'
    BY <1>1 DEF SchedInv, NoHole
  <1>6. Flows'
    BY <1>1 DEF SchedInv, Flows, Fits, TypeOK
  <1>7. Booted'
    BY <1>1 DEF SchedInv, Booted, IdleReady, Fits, TypeOK
  <1>8. Booting'
    BY <1>1 DEF SchedInv, Booting, BootOrder, IdleReady, IdlesBelow, AllIdles, TypeOK
  <1>9. IdlesFirst'
    BY <1>1 DEF SchedInv, IdlesFirst, AllIdles
  <1>10. Unplaced' = Unplaced
    BY <1>1 DEF Unplaced, SchedInv, TypeOK
  <1>11. RoundRobin'
    BY <1>1, <1>10, PlacedKept DEF SchedInv, RoundRobin, TypeOK
  <1> QED
    BY <1>2, <1>3, <1>4, <1>5, <1>6, <1>7, <1>8, <1>9, <1>11 DEF SchedInv

(* A thread calls clone.                                                   *)
LEMMA CloneStep ==
    ASSUME SchedInv, NEW c \in CPU, NEW v \in BOOLEAN, k_clone(c, v)
    PROVE  SchedInv'
  <1> USE ThreadNames, Places
  <1>1. pc[c] = "run" /\ pc' = [pc EXCEPT ![c] = "lock"]
        /\ vfork' = [vfork EXCEPT ![c] = v]
        /\ UNCHANGED <<running, current, ap_initialized,
                       thread_initialized, new_thread_lock, cpu_idx,
                       exists, state, cpu_id, ctx, child_vfork_done,
                       saved, freed, new, idx>>
    BY DEF k_clone, InThread, boot, fields, locals
  <1>2. TypeOK'
    BY <1>1 DEF SchedInv, TypeOK, PC, RunState, Ctx
  <1>3. LockHeld'
    BY <1>1 DEF SchedInv, LockHeld, Holding, TypeOK
  <1>4. ObjectsInOrder'
    BY <1>1 DEF SchedInv, ObjectsInOrder, TypeOK
  <1>5. NoHole'
    BY <1>1 DEF SchedInv, NoHole
  <1>6. Flows'
    BY <1>1 DEF SchedInv, Flows, Fits, TypeOK
  <1>7. Booted'
    BY <1>1 DEF SchedInv, Booted, IdleReady, Fits, TypeOK
  <1>8. Booting'
    BY <1>1 DEF SchedInv, Booting, BootOrder, IdleReady, IdlesBelow, AllIdles, TypeOK
  <1>9. IdlesFirst'
    BY <1>1 DEF SchedInv, IdlesFirst, AllIdles
  <1>10. Unplaced' = Unplaced
    BY <1>1 DEF Unplaced, SchedInv, TypeOK
  <1>11. RoundRobin'
    BY <1>1, <1>10, PlacedKept DEF SchedInv, RoundRobin, TypeOK
  <1> QED
    BY <1>2, <1>3, <1>4, <1>5, <1>6, <1>7, <1>8, <1>9, <1>11 DEF SchedInv

(* The object gets its context: from here on it may run.                   *)
LEMMA BuildStep ==
    ASSUME SchedInv, NEW c \in CPU, Build(c)
    PROVE  SchedInv'
  <1> USE ThreadNames, Places
  <1>1. pc[c] = "build" /\ pc' = [pc EXCEPT ![c] = "finish"]
        /\ ctx' = [ctx EXCEPT ![new[c]] = IF thread_initialized THEN "null" ELSE "entry"]
        /\ child_vfork_done' = [child_vfork_done EXCEPT ![new[c]] = FALSE]
        /\ UNCHANGED <<running, current, ap_initialized,
                       thread_initialized, new_thread_lock, cpu_idx,
                       exists, state, cpu_id, saved, freed, new, idx,
                       vfork>>
    BY DEF Build, Goto, boot, locals
  <1>2. TypeOK'
    BY <1>1 DEF SchedInv, TypeOK, PC, RunState, Ctx
  <1>3. LockHeld'
    BY <1>1 DEF SchedInv, LockHeld, Holding, TypeOK
  <1>4. ObjectsInOrder'
    BY <1>1 DEF SchedInv, ObjectsInOrder, TypeOK, LockHeld, Holding
  <1>5. NoHole'
    BY <1>1 DEF SchedInv, NoHole
  <1>6. Flows'
    BY <1>1 DEF SchedInv, Flows, Fits, TypeOK
  <1>7. Booted'
    BY <1>1 DEF SchedInv, Booted, IdleReady, Fits, TypeOK
  <1>8. Booting'
    BY <1>1 DEF SchedInv, Booting, BootOrder, IdleReady, IdlesBelow, AllIdles, TypeOK
  <1>9. IdlesFirst'
    BY <1>1 DEF SchedInv, IdlesFirst, AllIdles
  <1>10. Unplaced' = Unplaced
    BY <1>1 DEF Unplaced, SchedInv, TypeOK
  <1>11. RoundRobin'
    BY <1>1, <1>10, PlacedKept DEF SchedInv, RoundRobin, TypeOK
  <1> QED
    BY <1>2, <1>3, <1>4, <1>5, <1>6, <1>7, <1>8, <1>9, <1>11 DEF SchedInv

(* k_clone copies the context into the child.                              *)
LEMMA CloneCopyStep ==
    ASSUME SchedInv, NEW c \in CPU, NEW ok \in BOOLEAN, CloneCopy(c, ok)
    PROVE  SchedInv'
  <1> USE ThreadNames, Places
  <1>1. pc[c] = "clone" /\ pc' = [pc EXCEPT ![c] = IF ~ok THEN "halted" ELSE IF vfork[c] THEN "vfork" ELSE "run"]
        /\ saved' = [saved EXCEPT ![c] = [flow |-> running[c], pc |-> "run"]]
        /\ ctx' = [ctx EXCEPT ![new[c]] = "copied"]
        /\ child_vfork_done' \in [Thread -> BOOLEAN]
        /\ UNCHANGED <<running, current, ap_initialized,
                       thread_initialized, new_thread_lock, cpu_idx,
                       exists, state, cpu_id, freed, new, idx, vfork>>
    BY DEF CloneCopy, Goto, boot, locals, SchedInv, TypeOK
  <1>2. TypeOK'
    BY <1>1 DEF SchedInv, TypeOK, PC, RunState, Ctx
  <1>3. LockHeld'
    BY <1>1 DEF SchedInv, LockHeld, Holding, TypeOK
  <1>4. ObjectsInOrder'
    BY <1>1 DEF SchedInv, ObjectsInOrder, TypeOK
  <1>5. NoHole'
    BY <1>1 DEF SchedInv, NoHole
  <1>6. Flows'
    BY <1>1 DEF SchedInv, Flows, Fits, TypeOK
  <1>7. Booted'
    BY <1>1 DEF SchedInv, Booted, IdleReady, Fits, TypeOK, Flows
  <1>8. Booting'
    BY <1>1 DEF SchedInv, Booting, BootOrder, IdleReady, IdlesBelow, AllIdles, TypeOK
  <1>9. IdlesFirst'
    BY <1>1 DEF SchedInv, IdlesFirst, AllIdles
  <1>10. Unplaced' = Unplaced
    BY <1>1 DEF Unplaced, SchedInv, TypeOK
  <1>11. RoundRobin'
    BY <1>1, <1>10, PlacedKept DEF SchedInv, RoundRobin, TypeOK
  <1> QED
    BY <1>2, <1>3, <1>4, <1>5, <1>6, <1>7, <1>8, <1>9, <1>11 DEF SchedInv

(* The object becomes visible with what the heap left in it.               *)
LEMMA StorePlaceStep ==
    ASSUME SchedInv, NEW c \in CPU, NEW s \in RunState, NEW x \in CPU, StorePlace(c, s, x)
    PROVE  SchedInv'
  <1> USE ThreadNames, Places
  <1>1. pc[c] = "store" /\ pc' = [pc EXCEPT ![c] = "read_idx"]
        /\ exists' = exists \cup {new[c]}
        /\ state' = [state EXCEPT ![new[c]] = s]
        /\ cpu_id' = [cpu_id EXCEPT ![new[c]] = x]
        /\ UNCHANGED <<running, current, ap_initialized,
                       thread_initialized, new_thread_lock, cpu_idx, ctx,
                       child_vfork_done, saved, freed, new, idx, vfork>>
    BY DEF StorePlace, Goto, boot, locals
  <1>new. new[c] \in Thread /\ new[c] \notin exists
    BY <1>1 DEF SchedInv, ObjectsInOrder
  <1>2. TypeOK'
    BY <1>1, <1>new DEF SchedInv, TypeOK, PC, RunState, Ctx
  <1>3. LockHeld'
    BY <1>1, <1>new DEF SchedInv, LockHeld, Holding, TypeOK
  <1>4. ObjectsInOrder'
    BY <1>1, <1>new DEF SchedInv, ObjectsInOrder, TypeOK, LockHeld, Holding
  <1>5. NoHole'
    <2> SUFFICES ASSUME NEW i \in Slots, Slot(i) \in exists', NEW j \in 1 .. i
                 PROVE  Slot(j) \in exists'
      BY DEF NoHole
    <2>1. CASE Slot(i) \in exists
      BY <1>1, <2>1 DEF SchedInv, NoHole
    <2>2. CASE Slot(i) = new[c]
      <3>1. j = i \/ j \in 1 .. i - 1
        OBVIOUS
      <3> QED
        BY <1>1, <2>2, <3>1 DEF SchedInv, ObjectsInOrder
    <2> QED
      BY <1>1, <2>1, <2>2
  <1>6. Flows'
    BY <1>1, <1>new DEF SchedInv, Flows, Fits, TypeOK
  <1>7. Booted'
    BY <1>1, <1>new DEF SchedInv, Booted, IdleReady, Fits, TypeOK
  <1>8. Booting'
    BY <1>1, <1>new DEF SchedInv, Booting, BootOrder, IdleReady, IdlesBelow, AllIdles, TypeOK
  <1>9. IdlesFirst'
    <2>1. ASSUME NEW i \in Slots, new[c] = Slot(i) PROVE AllIdles
      <3>1. CASE thread_initialized
        BY <3>1 DEF SchedInv, Booted, IdleReady, AllIdles
      <3>2. CASE ~thread_initialized
        <4>1. c = BSP /\ cpu_idx \in CPU
          BY <1>1, <3>2 DEF SchedInv, Booting, TypeOK
        <4> QED
          BY <1>1, <2>1, <3>2, <4>1 DEF SchedInv, Booting, BootOrder
      <3> QED
        BY <3>1, <3>2
    <2> QED
      BY <1>1, <2>1 DEF SchedInv, IdlesFirst, AllIdles
  <1>10. RoundRobin'
    <2>1. \A d \in CPU : pc'[d] = "write_idx" => idx'[d] = cpu_idx'
      BY <1>1 DEF SchedInv, RoundRobin, TypeOK
    <2>2. Unplaced' = Unplaced \cup {new[c]}
      BY <1>1 DEF SchedInv, Unplaced, TypeOK
    <2>3. \A k \in CPU : Placed(k)' = Placed(k)
      BY <1>1, <1>new, <2>2 DEF SchedInv, Placed, TypeOK
    <2>4. CASE Even
      BY <1>1, <2>1, <2>3, <2>4, EvenKept DEF RoundRobin
    <2>5. CASE \A i \in Slots : Slot(i) \notin exists
      <3>1. c = BSP /\ cpu_idx \in CPU /\ ~thread_initialized
        BY <1>1, <2>5 DEF SchedInv, Booted, Booting, TypeOK
      <3>2. CASE new[c] = Slot(1)
        <4>1. cpu_idx' = 0
          BY <1>1, <3>1, <3>2 DEF SchedInv, Booting, BootOrder
        <4>2. \A k \in CPU : Placed(k)' = {}
          BY <2>3, <2>5 DEF Placed
        <4> QED
          BY <2>1, <4>1, <4>2, EvenFirst DEF RoundRobin
      <3>3. CASE new[c] = Idle(cpu_idx)
        BY <1>1, <2>1, <2>5, <3>1, <3>3 DEF RoundRobin
      <3> QED
        BY <1>1, <3>1, <3>2, <3>3 DEF SchedInv, Booting, BootOrder
    <2> QED
      BY <2>4, <2>5 DEF SchedInv, RoundRobin
  <1> QED
    BY <1>2, <1>3, <1>4, <1>5, <1>6, <1>7, <1>8, <1>9, <1>10 DEF SchedInv

(* The wait of vfork ends.                                                 *)
LEMMA VforkEndStep ==
    ASSUME SchedInv, NEW c \in CPU, pc[c] = "vfork", pc' = [pc EXCEPT ![c] = "run"], child_vfork_done' \in [Thread -> BOOLEAN],
           UNCHANGED <<running, current, boot, new_thread_lock, cpu_idx, exists,
                       state, cpu_id, ctx, saved, freed, locals>>
    PROVE  SchedInv'
  <1> USE ThreadNames, Places
  <1>1. pc[c] = "vfork" /\ pc' = [pc EXCEPT ![c] = "run"]
        /\ child_vfork_done' \in [Thread -> BOOLEAN]
        /\ UNCHANGED <<running, current, ap_initialized,
                       thread_initialized, new_thread_lock, cpu_idx,
                       exists, state, cpu_id, ctx, saved, freed, new,
                       idx, vfork>>
    BY DEF boot, locals
  <1>2. TypeOK'
    BY <1>1 DEF SchedInv, TypeOK, PC, RunState, Ctx
  <1>3. LockHeld'
    BY <1>1 DEF SchedInv, LockHeld, Holding, TypeOK
  <1>4. ObjectsInOrder'
    BY <1>1 DEF SchedInv, ObjectsInOrder, TypeOK
  <1>5. NoHole'
    BY <1>1 DEF SchedInv, NoHole
  <1>6. Flows'
    BY <1>1 DEF SchedInv, Flows, Fits, TypeOK
  <1>7. Booted'
    BY <1>1 DEF SchedInv, Booted, IdleReady, Fits, TypeOK
  <1>8. Booting'
    BY <1>1 DEF SchedInv, Booting, BootOrder, IdleReady, IdlesBelow, AllIdles, TypeOK
  <1>9. IdlesFirst'
    BY <1>1 DEF SchedInv, IdlesFirst, AllIdles
  <1>10. Unplaced' = Unplaced
    BY <1>1 DEF Unplaced, SchedInv, TypeOK
  <1>11. RoundRobin'
    BY <1>1, <1>10, PlacedKept DEF SchedInv, RoundRobin, TypeOK
  <1> QED
    BY <1>2, <1>3, <1>4, <1>5, <1>6, <1>7, <1>8, <1>9, <1>11 DEF SchedInv

(* k_exit faults on its way.                                               *)
LEMMA ExitFaultsStep ==
    ASSUME SchedInv, NEW c \in CPU, ExitFaults(c)
    PROVE  SchedInv'
  <1> USE ThreadNames, Places
  <1>1. pc[c] = "run" /\ pc' = [pc EXCEPT ![c] = "halted"]
        /\ state' = [state EXCEPT ![current[c]] = "kRunTerminated"]
        /\ freed' = freed \cup {c}
        /\ UNCHANGED <<running, current, ap_initialized,
                       thread_initialized, new_thread_lock, cpu_idx,
                       exists, cpu_id, ctx, child_vfork_done, saved, new,
                       idx, vfork>>
    BY DEF ExitFaults, InThread, boot, locals
  <1>2. TypeOK'
    BY <1>1 DEF SchedInv, TypeOK, PC, RunState, Ctx
  <1>3. LockHeld'
    BY <1>1 DEF SchedInv, LockHeld, Holding, TypeOK
  <1>4. ObjectsInOrder'
    BY <1>1 DEF SchedInv, ObjectsInOrder, TypeOK
  <1>5. NoHole'
    BY <1>1 DEF SchedInv, NoHole
  <1>6. Flows'
    BY <1>1 DEF SchedInv, Flows, Fits, TypeOK
  <1>7. Booted'
    BY <1>1 DEF SchedInv, Booted, IdleReady, Fits, TypeOK
  <1>8. Booting'
    BY <1>1 DEF SchedInv, Booting, BootOrder, IdleReady, IdlesBelow, AllIdles, TypeOK
  <1>9. IdlesFirst'
    BY <1>1 DEF SchedInv, IdlesFirst, AllIdles
  <1>10. Unplaced' = Unplaced
    BY <1>1 DEF Unplaced, SchedInv, TypeOK
  <1>11. RoundRobin'
    BY <1>1, <1>10, PlacedKept DEF SchedInv, RoundRobin, TypeOK
  <1> QED
    BY <1>2, <1>3, <1>4, <1>5, <1>6, <1>7, <1>8, <1>9, <1>11 DEF SchedInv

(* The thread is placed and the next CPU is next.                          *)
LEMMA WriteIdxStep ==
    ASSUME SchedInv, NEW c \in CPU, WriteIdx(c)
    PROVE  SchedInv'
  <1> USE ThreadNames, Places
  <1>1. pc[c] = "write_idx" /\ pc' = [pc EXCEPT ![c] = "build"]
        /\ cpu_idx' = NextCpu(cpu_idx)
        /\ cpu_id' = [cpu_id EXCEPT ![new[c]] = cpu_idx]
        /\ UNCHANGED <<running, current, ap_initialized,
                       thread_initialized, new_thread_lock, exists,
                       state, ctx, child_vfork_done, saved, freed, new,
                       idx, vfork>>
    BY DEF WriteIdx, Goto, boot, locals, SchedInv, RoundRobin
  <1>new. new[c] \in Thread /\ new[c] \in exists /\ ctx[new[c]] = "none"
    BY <1>1 DEF SchedInv, ObjectsInOrder, TypeOK
  <1>next. /\ cpu_idx \in CPU /\ cpu_idx' \in CPU
           /\ cpu_idx = CpuCount - 1 => cpu_idx' = 0
           /\ cpu_idx # CpuCount - 1 => cpu_idx' = cpu_idx + 1
    <2>1. cpu_idx \in 0 .. CpuCount - 1 /\ CpuCount \in Nat
      BY CountsAssumption DEF SchedInv, TypeOK, CPU
    <2>2. CASE cpu_idx = CpuCount - 1
      BY <1>1, <2>1, <2>2 DEF NextCpu, CPU
    <2>3. CASE cpu_idx # CpuCount - 1
      <3>1. (cpu_idx + 1) % CpuCount = cpu_idx + 1
        BY <2>1, <2>3
      <3> QED
        BY <1>1, <2>1, <2>3, <3>1 DEF NextCpu, CPU
    <2> QED
      BY <2>2, <2>3
  <1>2. TypeOK'
    BY <1>1, <1>new, <1>next DEF SchedInv, TypeOK, PC, RunState, Ctx
  <1>3. LockHeld'
    BY <1>1, <1>new, <1>next DEF SchedInv, LockHeld, Holding, TypeOK
  <1>4. ObjectsInOrder'
    BY <1>1, <1>new, <1>next DEF SchedInv, ObjectsInOrder, TypeOK
  <1>5. NoHole'
    BY <1>1, <1>new, <1>next DEF SchedInv, NoHole
  <1>6. Flows'
    BY <1>1, <1>new, <1>next DEF SchedInv, Flows, Fits, TypeOK
  <1>7. Booted'
    BY <1>1, <1>new, <1>next DEF SchedInv, Booted, IdleReady, Fits, TypeOK
  <1>8. Booting'
    <2>1. CASE thread_initialized
      BY <1>1, <2>1 DEF Booting
    <2>2. CASE ~thread_initialized
      <3>1. c = BSP
        BY <1>1, <2>2 DEF SchedInv, Booting
      <3>2. pc'[BSP] = "build" /\ \A d \in CPU \ {BSP} : pc'[d] = pc[d]
        BY <1>1, <3>1 DEF SchedInv, TypeOK
      <3>3. \A k \in CPU : new[c] # Idle(k) => IdleReady(k)' = IdleReady(k)
        BY <1>1, <1>new DEF SchedInv, IdleReady, TypeOK
      <3>4. CASE new[c] = Slot(1) /\ AllIdles
        BY <1>1, <1>new, <2>2, <3>1, <3>2, <3>3, <3>4
           DEF SchedInv, Booting, BootOrder, AllIdles, TypeOK
      <3>5. CASE new[c] = Idle(cpu_idx) /\ IdlesBelow(cpu_idx + 1)
        <4>1. \A k \in CPU : new[c] = Idle(k) => cpu_id'[Idle(k)] = k
          BY <1>1, <1>new, <1>next, <3>5 DEF SchedInv, TypeOK
        <4>2. CASE cpu_idx = CpuCount - 1
          <5>1. AllIdles' /\ cpu_idx' = 0
            BY <1>1, <1>next, <3>5, <4>2 DEF IdlesBelow, AllIdles, CPU
          <5> QED
            BY <1>1, <1>new, <1>next, <2>2, <3>1, <3>2, <3>3, <3>5, <4>1, <5>1
               DEF SchedInv, Booting, BootOrder
        <4>3. CASE cpu_idx # CpuCount - 1
          <5>1. \A k \in CPU : Idle(k) \in exists' <=> k < cpu_idx'
            BY <1>1, <1>next, <3>5, <4>3 DEF IdlesBelow
          <5>2. ~AllIdles'
            BY <1>next, <5>1 DEF AllIdles
          <5>3. IdlesBelow(cpu_idx)'
            BY <5>1 DEF IdlesBelow
          <5> QED
            BY <1>1, <1>new, <1>next, <2>2, <3>1, <3>2, <3>3, <3>5, <4>1, <5>2, <5>3
               DEF SchedInv, Booting, BootOrder
        <4> QED
          BY <4>2, <4>3
      <3> QED
        BY <1>1, <2>2, <3>1, <3>4, <3>5 DEF SchedInv, Booting, BootOrder
    <2> QED
      BY <2>1, <2>2
  <1>9. IdlesFirst'
    BY <1>1, <1>new, <1>next DEF SchedInv, IdlesFirst, AllIdles
  <1>10. RoundRobin'
    <2>1. \A d \in CPU : d # c => ~Holding(d)
      BY <1>1 DEF SchedInv, LockHeld, Holding
    <2>2. \A d \in CPU : pc'[d] # "write_idx"
      BY <1>1, <2>1 DEF SchedInv, Holding, TypeOK
    <2>3. CASE \E k \in CPU : new[c] = Idle(k)
      <3>1. ~thread_initialized
        BY <1>new, <2>3 DEF SchedInv, Booted, IdleReady
      <3>2. c = BSP
        BY <1>1, <3>1 DEF SchedInv, Booting
      <3>3. Slot(1) \notin exists
        BY <1>1, <2>3, <3>1, <3>2 DEF SchedInv, Booting, BootOrder
      <3>4. \A i \in Slots : 1 \in 1 .. i
        BY DEF Slots
      <3>5. \A i \in Slots : Slot(i) \notin exists
        BY <3>3, <3>4 DEF SchedInv, NoHole
      <3> QED
        BY <1>1, <2>2, <3>5 DEF RoundRobin
    <2>4. CASE \E i \in Slots : new[c] = Slot(i)
      <3>1. PICK i \in Slots : new[c] = Slot(i)
        BY <2>4
      <3>2. Even
        BY <1>new, <3>1 DEF SchedInv, RoundRobin
      <3>3. Unplaced = {new[c]} /\ Unplaced' = {}
        BY <1>1, <2>1 DEF SchedInv, Unplaced, Holding, TypeOK
      <3>n. PICK n \in CPU : n = cpu_idx
        BY <1>next
      <3>4. i \notin Placed(n) /\ Placed(n)' = Placed(n) \cup {i}
        <4>1. i \notin Placed(n)
          BY <3>1, <3>3 DEF Placed
        <4>2. ASSUME NEW j \in Slots
              PROVE  /\ Slot(j) \in exists' \ Unplaced' <=> j = i \/ Slot(j) \in exists \ Unplaced
                     /\ cpu_id'[Slot(j)] = IF j = i THEN n ELSE cpu_id[Slot(j)]
          BY <1>1, <1>new, <3>1, <3>3, <3>n DEF SchedInv, TypeOK
        <4> QED
          BY <4>1, <4>2 DEF Placed
      <3>5. \A k \in CPU : k # n => Placed(k)' = Placed(k)
        BY <1>1, <1>new, <3>1, <3>3, <3>n DEF SchedInv, Placed, TypeOK
      <3>6. Even'
        BY <1>1, <1>next, <3>2, <3>n, <3>4, <3>5, EvenNext
      <3> QED
        BY <2>2, <3>6 DEF RoundRobin
    <2> QED
      BY <1>new, <2>3, <2>4
  <1> QED
    BY <1>2, <1>3, <1>4, <1>5, <1>6, <1>7, <1>8, <1>9, <1>10 DEF SchedInv

(* get_free_thread finds the first empty place.                            *)
LEMMA FindPlaceStep ==
    ASSUME SchedInv, NEW c \in CPU, FindPlace(c)
    PROVE  SchedInv'
  <1> USE ThreadNames, Places
  <1>1. pc[c] = "find" /\ pc' = [pc EXCEPT ![c] = "store"]
        /\ EmptyIdle \cup EmptySlots # {}
        /\ new' = [new EXCEPT ![c] = IF EmptyIdle # {} THEN Idle(Min(EmptyIdle))
                                    ELSE Slot(Min(EmptySlots))]
        /\ UNCHANGED <<running, current, ap_initialized,
                       thread_initialized, new_thread_lock, cpu_idx,
                       exists, state, cpu_id, ctx, child_vfork_done,
                       saved, freed, idx, vfork>>
    BY DEF FindPlace, Goto, boot, fields, locals
  <1>place. /\ EmptyIdle # {} => Min(EmptyIdle) \in EmptyIdle
                                /\ \A k \in EmptyIdle : Min(EmptyIdle) <= k
            /\ EmptyIdle = {} => Min(EmptySlots) \in EmptySlots
                                /\ \A k \in EmptySlots : Min(EmptySlots) <= k
            /\ new'[c] \in Thread \ exists
            /\ \A i \in Slots : new'[c] = Slot(i) => i = Min(EmptySlots) /\ EmptyIdle = {}
    <2>1. EmptyIdle \in SUBSET Nat /\ EmptySlots \in SUBSET Nat
      BY DEF EmptyIdle, EmptySlots
    <2>2. /\ EmptyIdle # {} => Min(EmptyIdle) \in EmptyIdle
                              /\ \A k \in EmptyIdle : Min(EmptyIdle) <= k
          /\ EmptyIdle = {} => Min(EmptySlots) \in EmptySlots
                              /\ \A k \in EmptySlots : Min(EmptySlots) <= k
      BY <1>1, <2>1, MinIsLeast
    <2>3. CASE EmptyIdle # {}
      BY <1>1, <2>2, <2>3 DEF EmptyIdle, SchedInv, TypeOK
    <2>4. CASE EmptyIdle = {}
      BY <1>1, <2>2, <2>4 DEF EmptySlots, SchedInv, TypeOK
    <2> QED
      BY <2>2, <2>3, <2>4
  <1>2. TypeOK'
    BY <1>1, <1>place DEF SchedInv, TypeOK, PC, RunState, Ctx
  <1>3. LockHeld'
    BY <1>1 DEF SchedInv, LockHeld, Holding, TypeOK
  <1>4. ObjectsInOrder'
    <2>1. ASSUME NEW i \in Slots, new'[c] = Slot(i), NEW j \in 1 .. i - 1
          PROVE  Slot(j) \in exists
      BY <1>place, <2>1 DEF EmptySlots, Slots
    <2> QED
      BY <1>1, <1>place, <2>1 DEF SchedInv, ObjectsInOrder, TypeOK
  <1>5. NoHole'
    BY <1>1 DEF SchedInv, NoHole
  <1>6. Flows'
    BY <1>1 DEF SchedInv, Flows, Fits, TypeOK
  <1>7. Booted'
    BY <1>1 DEF SchedInv, Booted, IdleReady, Fits, TypeOK
  <1>8. Booting'
    <2>1. CASE thread_initialized
      BY <1>1, <2>1 DEF Booting
    <2>2. CASE ~thread_initialized
      <3>1. c = BSP
        BY <1>1, <2>2 DEF SchedInv, Booting
      <3>2. Slot(1) \notin exists
        BY <1>1, <2>2, <3>1 DEF SchedInv, Booting, BootOrder
      <3>3. \/ new'[BSP] = Idle(cpu_idx) /\ IdlesBelow(cpu_idx)
            \/ new'[BSP] = Slot(1) /\ AllIdles /\ cpu_idx = 0
        <4>1. CASE AllIdles
          <5>1. EmptyIdle = {}
            BY <4>1 DEF EmptyIdle, AllIdles
          <5>2. 1 \in EmptySlots
            BY <3>2 DEF EmptySlots
          <5>3. Min(EmptySlots) = 1
            BY <5>1, <5>2, <1>place DEF EmptySlots, Slots
          <5>4. new'[BSP] = Slot(1)
            BY <1>1, <3>1, <5>1, <5>3 DEF SchedInv, TypeOK
          <5> QED
            BY <1>1, <2>2, <3>1, <3>2, <4>1, <5>4 DEF SchedInv, Booting, BootOrder
        <4>2. CASE ~AllIdles
          <5>1. EmptyIdle # {} /\ IdlesBelow(cpu_idx)
            BY <1>1, <2>2, <3>1, <4>2 DEF SchedInv, Booting, BootOrder, EmptyIdle, AllIdles
          <5>2. cpu_idx \in EmptyIdle /\ \A k \in EmptyIdle : cpu_idx <= k
            BY <5>1 DEF IdlesBelow, EmptyIdle, SchedInv, TypeOK
          <5>3. Min(EmptyIdle) = cpu_idx
            <6> DEFINE m == Min(EmptyIdle)
            <6>1. m \in EmptyIdle /\ \A k \in EmptyIdle : m <= k
              BY <1>place, <5>1
            <6>2. m \in Nat /\ cpu_idx \in Nat
              BY <5>2, <6>1 DEF EmptyIdle
            <6> HIDE DEF m
            <6>3. m <= cpu_idx /\ cpu_idx <= m
              BY <5>2, <6>1
            <6> QED
              BY <6>2, <6>3 DEF m
          <5> QED
            BY <1>1, <3>1, <5>1, <5>3 DEF SchedInv, TypeOK
        <4> QED
          BY <4>1, <4>2
      <3> QED
        BY <1>1, <2>2, <3>1, <3>2, <3>3
           DEF SchedInv, Booting, BootOrder, IdleReady, IdlesBelow, AllIdles, TypeOK
    <2> QED
      BY <2>1, <2>2
  <1>9. IdlesFirst'
    BY <1>1 DEF SchedInv, IdlesFirst, AllIdles
  <1>10. Unplaced' = Unplaced
    BY <1>1 DEF Unplaced, SchedInv, TypeOK
  <1>11. RoundRobin'
    BY <1>1, <1>10, PlacedKept DEF SchedInv, RoundRobin, TypeOK
  <1> QED
    BY <1>2, <1>3, <1>4, <1>5, <1>6, <1>7, <1>8, <1>9, <1>11 DEF SchedInv

(* The timer switches to a thread of this CPU that has a context.          *)
LEMMA SwitchStep ==
    ASSUME SchedInv, NEW c \in CPU, pc[c] \in {"run", "vfork"}, switch_to(c, current[c], search(c))
    PROVE  SchedInv'
  <1> USE ThreadNames, Places
  <1>1. pc' = [pc EXCEPT ![c] = IF ctx[search(c)] = "null" THEN "halted" ELSE "run"]
        /\ running' = [running EXCEPT ![c] = search(c)]
        /\ saved' = [saved EXCEPT ![c] = [flow |-> running[c], pc |-> pc[c]]]
        /\ ctx[search(c)] # "none"
        /\ state' = [state EXCEPT ![current[c]] = "kRunNone", ![search(c)] = "kRunActive"]
        /\ UNCHANGED <<current, ap_initialized, thread_initialized,
                       new_thread_lock, cpu_idx, exists, cpu_id, ctx,
                       child_vfork_done, freed, new, idx, vfork>>
    BY DEF switch_to, Enter, boot, locals
  <1>ready. thread_initialized /\ current[c] = Idle(c) /\ IdleReady(c) /\ Fits(c, saved[c].flow)
    BY <1>1 DEF SchedInv, Booted, Booting
  <1>next. search(c) \in Thread /\ search(c) \in exists /\ cpu_id[search(c)] = c
    BY <1>ready, SearchResult DEF IdleReady
  <1>2. TypeOK'
    BY <1>1, <1>ready, <1>next DEF SchedInv, TypeOK, PC, RunState, Ctx, Flow
  <1>3. LockHeld'
    BY <1>1, <1>ready, <1>next DEF SchedInv, LockHeld, Holding, TypeOK
  <1>4. ObjectsInOrder'
    BY <1>1, <1>ready, <1>next DEF SchedInv, ObjectsInOrder, TypeOK
  <1>5. NoHole'
    BY <1>1, <1>ready, <1>next DEF SchedInv, NoHole
  <1>6. Flows'
    BY <1>1, <1>ready, <1>next DEF SchedInv, Flows, Fits, TypeOK
  <1>7. Booted'
    BY <1>1, <1>ready, <1>next DEF SchedInv, Booted, IdleReady, Fits, TypeOK, Flows
  <1>8. Booting'
    BY <1>1, <1>ready, <1>next DEF SchedInv, Booting, BootOrder, IdleReady, IdlesBelow, AllIdles, TypeOK
  <1>9. IdlesFirst'
    BY <1>1, <1>ready, <1>next DEF SchedInv, IdlesFirst, AllIdles
  <1>10. Unplaced' = Unplaced
    BY <1>1 DEF Unplaced, SchedInv, TypeOK
  <1>11. RoundRobin'
    BY <1>1, <1>ready, <1>next, <1>10, PlacedKept DEF SchedInv, RoundRobin, TypeOK
  <1> QED
    BY <1>2, <1>3, <1>4, <1>5, <1>6, <1>7, <1>8, <1>9, <1>11 DEF SchedInv

(* k_exit goes on with another thread of this CPU, or with the frame last  *)
(* saved in the context of its idle thread.                                *)
LEMMA ExitStep ==
    ASSUME SchedInv, NEW c \in CPU, k_exit(c)
    PROVE  SchedInv'
  <1> USE ThreadNames, Places
  <1>1. pc[c] = "run"
        /\ pc' = [pc EXCEPT ![c] = pc'[c]] /\ running' = [running EXCEPT ![c] = running'[c]]
        /\ state' = [state EXCEPT ![current[c]] = "kRunTerminated"]
        /\ freed' = freed \cup {c}
        /\ \/ pc'[c] = saved[c].pc /\ running'[c] = saved[c].flow
           \/ /\ pc'[c] = IF ctx[search(c)] = "null" THEN "halted" ELSE "run"
              /\ running'[c] = search(c) /\ ctx[search(c)] # "none"
        /\ UNCHANGED <<current, ap_initialized, thread_initialized,
                       new_thread_lock, cpu_idx, exists, cpu_id, ctx,
                       child_vfork_done, saved, new, idx, vfork>>
    BY DEF k_exit, InThread, Enter, boot, locals, SchedInv, TypeOK
  <1>ready. thread_initialized /\ current[c] = Idle(c) /\ IdleReady(c) /\ Fits(c, saved[c].flow)
    BY <1>1 DEF SchedInv, Booted, Booting
  <1>next. search(c) \in Thread /\ search(c) \in exists /\ cpu_id[search(c)] = c
    BY <1>ready, SearchResult DEF IdleReady
  <1>pc. pc'[c] \in {"run", "vfork", "halted"} /\ Fits(c, running'[c])
    BY <1>1, <1>ready, <1>next DEF SchedInv, Flows, Fits
  <1>2. TypeOK'
    BY <1>1, <1>ready, <1>next, <1>pc DEF SchedInv, TypeOK, PC, RunState, Ctx, Flow
  <1>3. LockHeld'
    BY <1>1, <1>ready, <1>next, <1>pc DEF SchedInv, LockHeld, Holding, TypeOK
  <1>4. ObjectsInOrder'
    BY <1>1, <1>ready, <1>next, <1>pc DEF SchedInv, ObjectsInOrder, TypeOK
  <1>5. NoHole'
    BY <1>1, <1>ready, <1>next, <1>pc DEF SchedInv, NoHole
  <1>6. Flows'
    BY <1>1, <1>ready, <1>next, <1>pc DEF SchedInv, Flows, Fits, TypeOK
  <1>7. Booted'
    BY <1>1, <1>ready, <1>next, <1>pc DEF SchedInv, Booted, IdleReady, Fits, TypeOK
  <1>8. Booting'
    BY <1>1, <1>ready, <1>next, <1>pc DEF SchedInv, Booting, BootOrder, IdleReady, IdlesBelow, AllIdles, TypeOK
  <1>9. IdlesFirst'
    BY <1>1, <1>ready, <1>next, <1>pc DEF SchedInv, IdlesFirst, AllIdles
  <1>10. Unplaced' = Unplaced
    BY <1>1, <1>pc DEF Unplaced, SchedInv, TypeOK
  <1>11. RoundRobin'
    BY <1>1, <1>ready, <1>next, <1>pc, <1>10, PlacedKept DEF SchedInv, RoundRobin, TypeOK
  <1> QED
    BY <1>2, <1>3, <1>4, <1>5, <1>6, <1>7, <1>8, <1>9, <1>11 DEF SchedInv

(* The kernel before smp_init.                                             *)
LEMMA InitSchedInv == Init => SchedInv
  <1> SUFFICES ASSUME Init PROVE SchedInv
    OBVIOUS
  <1> USE ThreadNames, Places
  <1>1. TypeOK
    BY DEF Init, TypeOK, PC, Flow, RunState, Ctx, BSP
  <1>2. LockHeld /\ ObjectsInOrder /\ NoHole /\ Flows /\ IdlesFirst
    BY DEF Init, LockHeld, Holding, ObjectsInOrder, NoHole, Flows, Fits, IdlesFirst
  <1>3. Booted /\ RoundRobin
    BY DEF Init, Booted, RoundRobin
  <1>4. Booting
    <2>1. ~AllIdles /\ IdlesBelow(cpu_idx)
      BY DEF Init, AllIdles, IdlesBelow, BSP
    <2>2. BootOrder
      BY <2>1 DEF Init, BootOrder
    <2> QED
      BY <2>2 DEF Init, Booting
  <1> QED
    BY <1>1, <1>2, <1>3, <1>4 DEF SchedInv

(* Every step keeps the invariant.                                         *)
LEMMA NextSchedInv == SchedInv /\ [Next]_vars => SchedInv'
  <1> SUFFICES ASSUME SchedInv, [Next]_vars PROVE SchedInv'
    OBVIOUS
  <1>1. CASE UNCHANGED vars
    <2>1. Unplaced' = Unplaced
      BY <1>1 DEF vars, Unplaced, locals
    <2>2. RoundRobin'
      BY <1>1, <2>1, PlacedKept DEF vars, fields, locals, SchedInv, RoundRobin
    <2> QED
      BY <1>1, <2>2 DEF vars, boot, fields, locals, SchedInv, TypeOK, LockHeld, Holding,
         ObjectsInOrder, NoHole, Flows, Fits, Booted, IdleReady, Booting, BootOrder,
         IdlesBelow, AllIdles, IdlesFirst
  <1>2. CASE Boots
    BY <1>2, SmpInitStep, InitCreatesStep, InitDoneStep DEF Boots
  <1>3. ASSUME NEW c \in CPU, Creates(c) PROVE SchedInv'
    <2>1. CASE \E s \in {"kRunNone", "kRunActive"}, k \in CPU : StorePlace(c, s, k)
      BY <2>1, StorePlaceStep DEF RunState
    <2> QED
      BY <1>3, <2>1, TakeLockStep, FindPlaceStep, NoPlaceStep, ReadIdxStep, WriteIdxStep,
         BuildStep, FinishStep, CloneCopyStep DEF Creates
  <1>4. ASSUME NEW c \in CPU, pc[c] \in {"run", "vfork"}, do_lapic_timer(c) PROVE SchedInv'
    BY <1>4, SwitchStep, FaultStep DEF do_lapic_timer
  <1>5. ASSUME NEW c \in CPU, VforkWait(c) PROVE SchedInv'
    <2>1. CASE child_vfork_done[current[c]]
      <3>1. child_vfork_done' \in [Thread -> BOOLEAN]
        BY <1>5, <2>1, Zenon DEF VforkWait, SchedInv, TypeOK
      <3> QED
        BY <1>5, <2>1, <3>1, VforkEndStep DEF VforkWait
    <2>2. CASE ~child_vfork_done[current[c]]
      BY <1>4, <1>5, <2>2 DEF VforkWait
    <2> QED
      BY <2>1, <2>2
  <1>6. CASE Next
    <2>1. CASE \E c \in CPU :
              \/ ApStart(c) \/ ApEnter(c) \/ k_exit(c) \/ ExitFaults(c)
              \/ \E v \in BOOLEAN : k_clone(c, v)
      BY <2>1, ApStartStep, ApEnterStep, ExitStep, ExitFaultsStep, CloneStep
    <2>2. CASE \E c \in CPU : Tick(c)
      BY <1>4, <2>2 DEF Tick
    <2> QED
      BY <1>2, <1>3, <1>5, <1>6, <2>1, <2>2 DEF Next
  <1> QED
    BY <1>1, <1>6

(* The inductive invariant holds in every reachable state.                 *)
THEOREM SchedInvariant == Spec => []SchedInv
  BY InitSchedInv, NextSchedInv, PTL DEF Spec

-----------------------------------------------------------------------------
(* The properties                                                          *)

(* No thread, pointer or CPU number leaves its range: in particular        *)
(* alloc_cpu_id never hands out a CPU that does not exist, and create      *)
(* never publishes a null pointer.                                         *)
THEOREM SchedTypeOK == Spec => []TypeOK
  <1>1. SchedInv => TypeOK
    BY DEF SchedInv
  <1> QED
    BY SchedInvariant, <1>1, PTL

(* However many CPUs are in clone, each builds an object of its own, and   *)
(* threads[] fills up without a hole for search to stop at.                *)
THEOREM SchedPlacesExclusive == Spec => []PlacesExclusive
  <1>1. SchedInv => PlacesExclusive
    BY DEF SchedInv, PlacesExclusive, LockHeld, Holding, Creating, NoHole
  <1> QED
    BY SchedInvariant, <1>1, PTL

(* The placement of threads on CPUs stays within one of even, although     *)
(* cpu_idx is read and written in separate steps of several CPUs.          *)
THEOREM SchedBalanced == Spec => []Balanced
  <1>1. SchedInv => Balanced
    <2> SUFFICES ASSUME SchedInv, NEW k \in CPU, NEW l \in CPU
                 PROVE  Cardinality(Placed(k)) <= Cardinality(Placed(l)) + 1
      BY DEF Balanced
    <2>1. CASE Even
      BY <2>1, PlacedFinite, Places DEF Even
    <2>2. CASE \A i \in Slots : Slot(i) \notin exists
      <3>1. Placed(k) = {} /\ Placed(l) = {}
        BY <2>2 DEF Placed
      <3> QED
        BY <3>1, FS_EmptySet
    <2> QED
      BY <2>1, <2>2 DEF SchedInv, RoundRobin
  <1> QED
    BY SchedInvariant, <1>1, PTL

(* The boot handshake: no CPU takes a timer interrupt before its idle      *)
(* thread is complete, current and placed on it.                           *)
THEOREM SchedCpuReady == Spec => []CpuReady
  <1>1. SchedInv => CpuReady
    BY Places DEF SchedInv, CpuReady, Booted, Booting, IdleReady
  <1> QED
    BY SchedInvariant, <1>1, PTL

(* No thread ever executes on a CPU other than its own, although search    *)
(* reads objects that create has not completed.                            *)
THEOREM SchedOwnCpu == Spec => []OwnCpu
  <1>1. SchedInv => OwnCpu
    BY DEF SchedInv, OwnCpu, Flows, Fits
  <1> QED
    BY SchedInvariant, <1>1, PTL
=============================================================================
