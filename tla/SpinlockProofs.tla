--------------------------- MODULE SpinlockProofs ---------------------------
(***************************************************************************)
(* The safety of spin_lock / spin_unlock for any number of CPUs and any    *)
(* depth of interrupt nesting.                                             *)
(***************************************************************************)
EXTENDS Spinlock, TLAPS

(* Mutual exclusion alone is inductive only together with the fact that a  *)
(* context inside the lock code is the one its CPU executes; the ownership *)
(* of rflags needs mutual exclusion.                                       *)
LockInv ==
    /\ TypeOK
    /\ MutualExclusion
    /\ InterruptsOff
    /\ RflagsOwned

(* The running context is a context, and it is a pair of its CPU and its   *)
(* level.                                                                  *)
LEMMA TopIsContext ==
    ASSUME TypeOK, NEW c \in CPU
    PROVE  Top(c) \in Context /\ Top(c)[1] = c /\ Top(c)[2] = depth[c]
  BY DEF TypeOK, Top, Context, Level

(* SPIN_INIT with every CPU outside the lock satisfies the invariant.      *)
LEMMA InitLockInv == Init => LockInv
  <1> SUFFICES ASSUME Init PROVE LockInv
    OBVIOUS
  <1>1. TypeOK
    <2>1. depth \in [CPU -> Level]
      BY MaxNestAssumption DEF Init, Level
    <2>2. pc \in [Context -> PC] /\ lock \in {0, 1}
      BY DEF Init, PC
    <2>3. rflags \in BOOLEAN /\ intr \in [CPU -> BOOLEAN]
      BY DEF Init
    <2>4. saved \in [Context -> BOOLEAN] /\ loaded \in [Context -> BOOLEAN]
      BY Zenon DEF Init
    <2> QED
      BY <2>1, <2>2, <2>3, <2>4 DEF TypeOK
  <1>2. MutualExclusion /\ InterruptsOff /\ RflagsOwned
    BY DEF Init, MutualExclusion, InterruptsOff, RflagsOwned, Holders
  <1> QED
    BY <1>1, <1>2 DEF LockInv

(* Every instruction group of the lock, every interrupt and every sti or   *)
(* cli outside it keeps the types.                                         *)
LEMMA NextTypeOK == TypeOK /\ [Next]_vars => TypeOK'
  <1> SUFFICES ASSUME TypeOK, [Next]_vars PROVE TypeOK'
    OBVIOUS
  <1>1. CASE UNCHANGED vars
    BY <1>1 DEF TypeOK, vars
  <1>2. CASE Next
    <2>1. PICK c \in CPU :
              \/ PushFlags(c) \/ Cli(c) \/ TestAndSet(c) \/ SaveFlags(c)
              \/ ClearLock(c) \/ LoadFlags(c) \/ PopFlags(c)
              \/ Interrupt(c) \/ InterruptReturn(c)
              \/ \E b \in BOOLEAN : SetIF(c, b)
      BY <1>2 DEF Next
    <2>2. Top(c) \in Context
      BY TopIsContext
    <2>3. CASE PushFlags(c)
      BY <2>2, <2>3 DEF PushFlags, Step, TypeOK, PC
    <2>4. CASE Cli(c)
      BY <2>2, <2>4 DEF Cli, Step, TypeOK, PC
    <2>5. CASE TestAndSet(c)
      BY <2>2, <2>5 DEF TestAndSet, Step, TypeOK, PC
    <2>6. CASE SaveFlags(c)
      BY <2>2, <2>6 DEF SaveFlags, Step, TypeOK, PC
    <2>7. CASE ClearLock(c)
      BY <2>2, <2>7 DEF ClearLock, Step, TypeOK, PC
    <2>8. CASE LoadFlags(c)
      BY <2>2, <2>8 DEF LoadFlags, Step, TypeOK, PC
    <2>9. CASE PopFlags(c)
      BY <2>2, <2>9 DEF PopFlags, Step, TypeOK, PC
    <2>10. CASE Interrupt(c)
      BY <2>10, MaxNestAssumption DEF Interrupt, TypeOK, Level
    <2>11. CASE InterruptReturn(c)
      BY <2>11, MaxNestAssumption DEF InterruptReturn, TypeOK, Level
    <2>12. CASE \E b \in BOOLEAN : SetIF(c, b)
      BY <2>12 DEF SetIF, TypeOK
    <2> QED
      BY <2>1, <2>3, <2>4, <2>5, <2>6, <2>7, <2>8, <2>9, <2>10, <2>11, <2>12
  <1> QED
    BY <1>1, <1>2

(* The same for the three safety properties together.                      *)
LEMMA NextLockInv == LockInv /\ [Next]_vars => LockInv'
  <1> SUFFICES ASSUME LockInv, [Next]_vars PROVE LockInv'
    OBVIOUS
  <1> USE DEF LockInv
  <1>0. TypeOK'
    BY NextTypeOK
  <1>1. CASE UNCHANGED vars
    BY <1>0, <1>1 DEF vars, MutualExclusion, InterruptsOff, RflagsOwned, Holders
  <1>2. CASE Next
    <2>1. PICK c \in CPU :
              \/ PushFlags(c) \/ Cli(c) \/ TestAndSet(c) \/ SaveFlags(c)
              \/ ClearLock(c) \/ LoadFlags(c) \/ PopFlags(c)
              \/ Interrupt(c) \/ InterruptReturn(c)
              \/ \E b \in BOOLEAN : SetIF(c, b)
      BY <1>2 DEF Next
    <2> DEFINE t == Top(c)
    <2>2. t \in Context /\ t[1] = c /\ t[2] = depth[c]
      BY TopIsContext
    (* Another context of the same CPU is not inside the lock code.        *)
    <2>3. \A x \in Context : x[1] = c /\ x # t => pc[x] \in {"out", "cli"}
      BY <2>2 DEF InterruptsOff, Context
    <2> HIDE DEF t
    <2>4. CASE PushFlags(c)
      <3>1. pc[t] = "out" /\ pc' = [pc EXCEPT ![t] = "cli"] /\ depth' = depth
            /\ saved' = [saved EXCEPT ![t] = intr[c]]
            /\ UNCHANGED <<lock, rflags, intr, loaded>>
        BY <2>4 DEF PushFlags, Step, t
      <3>2. MutualExclusion'
        BY <2>2, <3>1 DEF MutualExclusion, Holders, TypeOK
      <3>3. InterruptsOff'
        BY <2>2, <3>1 DEF InterruptsOff, TypeOK
      <3>4. RflagsOwned'
        BY <2>2, <3>1 DEF RflagsOwned, TypeOK
      <3> QED
        BY <1>0, <3>2, <3>3, <3>4
    <2>5. CASE Cli(c)
      <3>1. pc[t] = "cli" /\ pc' = [pc EXCEPT ![t] = "bts"] /\ depth' = depth
            /\ intr' = [intr EXCEPT ![c] = FALSE]
            /\ UNCHANGED <<lock, rflags, saved, loaded>>
        BY <2>5 DEF Cli, Step, t
      <3>2. MutualExclusion'
        BY <2>2, <3>1 DEF MutualExclusion, Holders, TypeOK
      <3>3. InterruptsOff'
        BY <2>2, <3>1 DEF InterruptsOff, TypeOK, Context
      <3>4. RflagsOwned'
        BY <2>2, <3>1 DEF RflagsOwned, TypeOK
      <3> QED
        BY <1>0, <3>2, <3>3, <3>4
    <2>6. CASE TestAndSet(c)
      <3>1. pc[t] = "bts" /\ pc' = [pc EXCEPT ![t] = "save"] /\ depth' = depth
            /\ lock = 0 /\ lock' = 1
            /\ UNCHANGED <<rflags, intr, saved, loaded>>
        BY <2>6 DEF TestAndSet, Step, t
      <3>2. MutualExclusion'
        BY <2>2, <3>1 DEF MutualExclusion, Holders, TypeOK
      <3>3. InterruptsOff'
        BY <2>2, <3>1 DEF InterruptsOff, TypeOK
      <3>4. RflagsOwned'
        BY <2>2, <3>1 DEF RflagsOwned, TypeOK
      <3> QED
        BY <1>0, <3>2, <3>3, <3>4
    <2>7. CASE SaveFlags(c)
      <3>1. pc[t] = "save" /\ pc' = [pc EXCEPT ![t] = "held"] /\ depth' = depth
            /\ rflags' = saved[t]
            /\ UNCHANGED <<lock, intr, saved, loaded>>
        BY <2>7 DEF SaveFlags, Step, t
      <3>2. MutualExclusion'
        BY <2>2, <3>1 DEF MutualExclusion, Holders, TypeOK
      <3>3. InterruptsOff'
        BY <2>2, <3>1 DEF InterruptsOff, TypeOK
      <3>4. RflagsOwned'
        BY <2>2, <3>1 DEF RflagsOwned, MutualExclusion, Holders, TypeOK
      <3> QED
        BY <1>0, <3>2, <3>3, <3>4
    <2>8. CASE ClearLock(c)
      <3>1. pc[t] = "held" /\ pc' = [pc EXCEPT ![t] = "load"] /\ depth' = depth
            /\ lock' = 0
            /\ UNCHANGED <<rflags, intr, saved, loaded>>
        BY <2>8 DEF ClearLock, Step, t
      <3>2. MutualExclusion'
        BY <2>2, <3>1 DEF MutualExclusion, Holders, TypeOK
      <3>3. InterruptsOff'
        BY <2>2, <3>1 DEF InterruptsOff, TypeOK
      <3>4. RflagsOwned'
        BY <2>2, <3>1 DEF RflagsOwned, TypeOK
      <3> QED
        BY <1>0, <3>2, <3>3, <3>4
    <2>9. CASE LoadFlags(c)
      <3>1. pc[t] = "load" /\ pc' = [pc EXCEPT ![t] = "popfq"] /\ depth' = depth
            /\ loaded' = [loaded EXCEPT ![t] = rflags]
            /\ UNCHANGED <<lock, rflags, intr, saved>>
        BY <2>9 DEF LoadFlags, Step, t
      <3>2. MutualExclusion'
        BY <2>2, <3>1 DEF MutualExclusion, Holders, TypeOK
      <3>3. InterruptsOff'
        BY <2>2, <3>1 DEF InterruptsOff, TypeOK
      <3>4. RflagsOwned'
        BY <2>2, <3>1 DEF RflagsOwned, TypeOK
      <3> QED
        BY <1>0, <3>2, <3>3, <3>4
    <2>10. CASE PopFlags(c)
      <3>1. pc[t] = "popfq" /\ pc' = [pc EXCEPT ![t] = "out"] /\ depth' = depth
            /\ intr' = [intr EXCEPT ![c] = loaded[t]]
            /\ saved' = [saved EXCEPT ![t] = FALSE]
            /\ UNCHANGED <<lock, rflags>>
        BY <2>10 DEF PopFlags, Step, t
      <3>2. MutualExclusion'
        BY <2>2, <3>1 DEF MutualExclusion, Holders, TypeOK
      <3>3. InterruptsOff'
        <4> SUFFICES ASSUME NEW x \in Context, pc'[x] \notin {"out", "cli"}
                     PROVE  ~intr'[x[1]] /\ depth'[x[1]] = x[2]
          BY DEF InterruptsOff
        <4>1. x # t /\ pc'[x] = pc[x]
          BY <2>2, <3>1 DEF TypeOK
        <4>2. x[1] # c /\ x[1] \in CPU
          BY <2>3, <4>1 DEF Context
        <4> QED
          BY <3>1, <4>1, <4>2 DEF InterruptsOff, TypeOK
      <3>4. RflagsOwned'
        BY <2>2, <3>1 DEF RflagsOwned, TypeOK
      <3> QED
        BY <1>0, <3>2, <3>3, <3>4
    <2>11. CASE Interrupt(c)
      <3>1. intr[c] /\ depth' = [depth EXCEPT ![c] = @ + 1]
            /\ intr' = [intr EXCEPT ![c] = FALSE]
            /\ UNCHANGED <<lock, rflags, pc, saved, loaded>>
        BY <2>11 DEF Interrupt
      <3>2. MutualExclusion' /\ RflagsOwned'
        BY <3>1 DEF MutualExclusion, RflagsOwned, Holders
      <3>3. InterruptsOff'
        BY <3>1 DEF InterruptsOff, TypeOK, Context
      <3> QED
        BY <1>0, <3>2, <3>3
    <2>12. CASE InterruptReturn(c)
      <3>1. pc[t] = "out" /\ depth' = [depth EXCEPT ![c] = @ - 1]
            /\ intr' = [intr EXCEPT ![c] = TRUE]
            /\ UNCHANGED <<lock, rflags, pc, saved, loaded>>
        BY <2>12 DEF InterruptReturn, t
      <3>2. MutualExclusion' /\ RflagsOwned'
        BY <3>1 DEF MutualExclusion, RflagsOwned, Holders
      <3>3. InterruptsOff'
        BY <2>3, <3>1 DEF InterruptsOff, TypeOK, Context
      <3> QED
        BY <1>0, <3>2, <3>3
    <2>13. CASE \E b \in BOOLEAN : SetIF(c, b)
      <3>1. PICK b \in BOOLEAN : SetIF(c, b)
        BY <2>13
      <3>2. pc[t] = "out" /\ intr' = [intr EXCEPT ![c] = b]
            /\ UNCHANGED <<lock, rflags, depth, pc, saved, loaded>>
        BY <3>1 DEF SetIF, t
      <3>3. MutualExclusion' /\ RflagsOwned'
        BY <3>2 DEF MutualExclusion, RflagsOwned, Holders
      <3>4. InterruptsOff'
        BY <2>3, <3>2 DEF InterruptsOff, TypeOK, Context
      <3> QED
        BY <1>0, <3>3, <3>4
    <2> QED
      BY <2>1, <2>4, <2>5, <2>6, <2>7, <2>8, <2>9, <2>10, <2>11, <2>12, <2>13
  <1> QED
    BY <1>1, <1>2

(* The inductive invariant holds in every reachable state.                 *)
THEOREM LockInvariant == Spec => []LockInv
  BY InitLockInv, NextLockInv, PTL DEF Spec

(* Lock word, flag words, program counters and nesting depths stay in      *)
(* range: no handler nests beyond the bound and lock is 0 or 1.            *)
THEOREM SpinlockTypeOK == Spec => []TypeOK
  <1>1. LockInv => TypeOK
    BY DEF LockInv
  <1> QED
    BY LockInvariant, <1>1, PTL

(* spin_lock admits one holder at a time, on any number of CPUs, with any  *)
(* nesting of interrupt handlers that take the same lock.                  *)
THEOREM SpinlockMutualExclusion == Spec => []MutualExclusion
  <1>1. LockInv => MutualExclusion
    BY DEF LockInv
  <1> QED
    BY LockInvariant, <1>1, PTL

(* No handler ever runs on top of code that is inside the lock: interrupts *)
(* are off from the cli to the popfq, whichever RFLAGS other CPUs restore. *)
THEOREM SpinlockInterruptsOff == Spec => []InterruptsOff
  <1>1. LockInv => InterruptsOff
    BY DEF LockInv
  <1> QED
    BY LockInvariant, <1>1, PTL

(* The word spinlock_t.rflags belongs to the holder while the lock is      *)
(* held; the race on it starts only after the btr of spin_unlock.          *)
THEOREM SpinlockRflagsOwned == Spec => []RflagsOwned
  <1>1. LockInv => RflagsOwned
    BY DEF LockInv
  <1> QED
    BY LockInvariant, <1>1, PTL
=============================================================================
