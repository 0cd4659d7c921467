------------------------------ MODULE MutexProofs ------------------------------
(***************************************************************************)
(* Proofs about Mutex, for any number of processes, programs and mutexes   *)
(* and without any discipline of the callers: mutex_create() may run       *)
(* beside everything else.  That m->pid names the holder is false (run     *)
(* mutex_reuse); that nobody sleeps for a wakeup() that will not come is   *)
(* true, and does not depend on m->pid.                                    *)
(***************************************************************************)
EXTENDS Mutex, TLAPS

(* A call that works on a mutex works on one of the table. *)
IdInv == \A p \in Pid : pc[p] \notin {"user", "create"} => id[p] \in MutexId

IInv == TypeOK /\ IdInv /\ SleeperHasWaker

-----------------------------------------------------------------------------
(* Init establishes the invariant: nobody is in a call. *)
LEMMA InitInv ==
  ASSUME MAX_MUTEXES \in Nat
  PROVE  Init => IInv
  BY DEF Init, IInv, TypeOK, IdInv, SleeperHasWaker, MutexId

(* mutex_create() reads and writes pid only: it makes nobody sleep and       *)
(* changes no mutex that somebody sleeps on.                                 *)
LEMMA CreateStepInv ==
  ASSUME MAX_MUTEXES \in Nat, IInv, NEW p \in Pid, CreateStep(p)
  PROVE  IInv'
<1> USE DEF Goto, MutexId
<1>1. CASE Create(p)
  BY <1>1 DEF IInv, TypeOK, IdInv, SleeperHasWaker, Create
<1>2. CASE CreateNext(p)
  BY <1>2 DEF IInv, TypeOK, IdInv, SleeperHasWaker, CreateNext
<1>3. CASE CreateFound(p)
  BY <1>3 DEF IInv, TypeOK, IdInv, SleeperHasWaker, CreateFound
<1>4. CASE CreateClaim(p)
  <2>1. id[p] \in MutexId
    BY <1>4 DEF CreateClaim, IInv, IdInv
  <2>2. TypeOK'
    BY <1>4, <2>1 DEF CreateClaim, IInv, TypeOK
  <2>3. IdInv' /\ SleeperHasWaker'
    BY <1>4 DEF CreateClaim, IInv, TypeOK, IdInv, SleeperHasWaker
  <2> QED
    BY <2>2, <2>3 DEF IInv
<1>5. CASE CreateFail(p)
  BY <1>5 DEF IInv, TypeOK, IdInv, SleeperHasWaker, CreateFail
<1> QED
  BY <1>1, <1>2, <1>3, <1>4, <1>5 DEF CreateStep

(* A call starts with an id of the table and touches no mutex yet. *)
LEMMA CallInv ==
  ASSUME MAX_MUTEXES \in Nat, IInv, NEW p \in Pid, NEW m \in MutexId,
         Lock(p, m) \/ Unlock(p, m) \/ Free(p, m)
  PROVE  IInv'
<1> USE DEF Goto, MutexId
<1>1. CASE Lock(p, m)
  BY <1>1 DEF IInv, TypeOK, IdInv, SleeperHasWaker, Lock
<1>2. CASE Unlock(p, m)
  BY <1>2 DEF IInv, TypeOK, IdInv, SleeperHasWaker, Unlock
<1>3. CASE Free(p, m)
  <2>1. TypeOK'
    BY <1>3 DEF IInv, TypeOK, Free
  <2>2. IdInv' /\ SleeperHasWaker'
    BY <1>3 DEF IInv, TypeOK, IdInv, SleeperHasWaker, Free
  <2> QED
    BY <2>1, <2>2 DEF IInv
<1> QED
  BY <1>1, <1>2, <1>3

(* mutex_lock(): a process falls asleep on a locked mutex only, and m->locked *)
(* is otherwise only set.                                                     *)
LEMMA LockStepInv ==
  ASSUME MAX_MUTEXES \in Nat, IInv, NEW p \in Pid, LockStep(p)
  PROVE  IInv'
<1> USE DEF Goto
<1>1. id[p] \in MutexId
  BY DEF LockStep, LockAcquire, LockSleep, LockTake, LockReturn, IInv, IdInv
<1>2. CASE LockAcquire(p)
  BY <1>1, <1>2 DEF IInv, TypeOK, IdInv, SleeperHasWaker, LockAcquire
<1>3. CASE LockSleep(p)
  BY <1>1, <1>3 DEF IInv, TypeOK, IdInv, SleeperHasWaker, LockSleep
<1>4. CASE LockTake(p)
  <2>1. TypeOK' /\ IdInv'
    BY <1>1, <1>4 DEF IInv, TypeOK, IdInv, LockTake
  <2>2. SleeperHasWaker'
    BY <1>1, <1>4 DEF IInv, TypeOK, IdInv, SleeperHasWaker, LockTake
  <2> QED
    BY <2>1, <2>2 DEF IInv
<1>5. CASE LockReturn(p)
  <2>1. TypeOK'
    BY <1>1, <1>5 DEF IInv, TypeOK, LockReturn
  <2>2. IdInv' /\ SleeperHasWaker'
    BY <1>1, <1>5 DEF IInv, TypeOK, IdInv, SleeperHasWaker, LockReturn
  <2> QED
    BY <2>1, <2>2 DEF IInv
<1> QED
  BY <1>2, <1>3, <1>4, <1>5 DEF LockStep

(* mutex_unlock() and mutex_free(): who clears m->locked is on the way to     *)
(* wakeup(m), and wakeup(m) leaves nobody asleep on m.                        *)
LEMMA UnlockStepInv ==
  ASSUME MAX_MUTEXES \in Nat, IInv, NEW p \in Pid, UnlockStep(p)
  PROVE  IInv'
<1> USE DEF Goto
<1>1. id[p] \in MutexId
  BY DEF UnlockStep, UnlockAcquire, UnlockRefuse, UnlockClear, UnlockReturn, IInv, IdInv
<1>2. CASE UnlockAcquire(p)
  BY <1>1, <1>2 DEF IInv, TypeOK, IdInv, SleeperHasWaker, UnlockAcquire
<1>3. CASE UnlockRefuse(p)
  BY <1>1, <1>3 DEF IInv, TypeOK, IdInv, SleeperHasWaker, UnlockRefuse
<1>4. CASE UnlockClear(p)
  <2>1. TypeOK' /\ IdInv'
    BY <1>1, <1>4 DEF IInv, TypeOK, IdInv, UnlockClear
  <2>2. ASSUME NEW q \in Pid, pc'[q] = "sleep"
        PROVE  locked'[id'[q]] \/ \E r \in Pid : pc'[r] = "disown" /\ id'[r] = id'[q]
    <3>1. q # p /\ pc[q] = "sleep" /\ id' = id
      BY <1>4, <2>2 DEF UnlockClear, IInv, TypeOK
    <3>2. pc'[p] = "disown"
      BY <1>4 DEF UnlockClear, IInv, TypeOK
    <3>3. CASE id[q] = id[p]
      BY <3>1, <3>2, <3>3
    <3>4. CASE id[q] # id[p]
      BY <1>1, <1>4, <3>1, <3>4 DEF UnlockClear, IInv, TypeOK, IdInv, SleeperHasWaker
    <3> QED
      BY <3>3, <3>4
  <2> QED
    BY <2>1, <2>2 DEF IInv, SleeperHasWaker
<1>5. CASE UnlockReturn(p)
  <2>1. TypeOK'
    BY <1>1, <1>5 DEF IInv, TypeOK, UnlockReturn
  <2>2. IdInv'
    BY <1>1, <1>5 DEF IInv, TypeOK, IdInv, UnlockReturn
  <2>3. ASSUME NEW q \in Pid, pc'[q] = "sleep"
        PROVE  locked'[id'[q]] \/ \E r \in Pid : pc'[r] = "disown" /\ id'[r] = id'[q]
    <3>1. q # p /\ pc[q] = "sleep" /\ id[q] # id[p] /\ id' = id /\ locked' = locked
      BY <1>5, <2>3 DEF UnlockReturn
    <3>2. CASE locked[id[q]]
      BY <3>1, <3>2
    <3>3. ASSUME NEW r \in Pid, pc[r] = "disown", id[r] = id[q]
          PROVE  pc'[r] = "disown" /\ id'[r] = id'[q]
      BY <1>5, <3>1, <3>3 DEF UnlockReturn
    <3> QED
      BY <3>1, <3>2, <3>3 DEF IInv, SleeperHasWaker
  <2> QED
    BY <2>1, <2>2, <2>3 DEF IInv, SleeperHasWaker
<1> QED
  BY <1>2, <1>3, <1>4, <1>5 DEF UnlockStep

(* Every step preserves the invariant. *)
LEMMA StepInv ==
  ASSUME MAX_MUTEXES \in Nat
  PROVE  IInv /\ [Next]_vars => IInv'
<1> SUFFICES ASSUME IInv, [Next]_vars PROVE IInv'
  OBVIOUS
<1>1. CASE UNCHANGED vars
  BY <1>1 DEF vars, IInv, TypeOK, IdInv, SleeperHasWaker
<1>2. ASSUME NEW p \in Pid, CreateStep(p) \/ UseStep(p) PROVE IInv'
  BY <1>2, CreateStepInv, CallInv, LockStepInv, UnlockStepInv DEF UseStep
<1> QED
  BY <1>1, <1>2 DEF Next

(* A process asleep in mutex_lock() sleeps on a mutex that is locked, or is   *)
(* about to be woken by the mutex_unlock() or mutex_free() that cleared it:   *)
(* even when mutex_create() has given the mutex away a second time, clearing  *)
(* m->locked without wakeup(m) is impossible (mutex.c:51-59, 78-81, 100-103). *)
THEOREM MutexSleeperHasWaker ==
  ASSUME MAX_MUTEXES \in Nat
  PROVE  Spec => []SleeperHasWaker
<1>1. Init => IInv
  BY InitInv
<1>2. IInv /\ [Next]_vars => IInv'
  BY StepInv
<1>3. IInv => SleeperHasWaker
  BY DEF IInv
<1> QED
  BY <1>1, <1>2, <1>3, PTL DEF Spec

==============================================================================
