-------------------------------- MODULE Mutex --------------------------------
(***************************************************************************)
(* The mutex system calls, kernel/mutex.c: a table of mutexes which user   *)
(* programs create, lock, unlock and free by number.                       *)
(*                                                                         *)
(* mutex_create() holds mtable.lock, the other calls hold the mutex's own  *)
(* spinlock m->lk: both sides write m->pid.  The accesses of the two sides *)
(* to one mutex are therefore separate steps.  sleep() releases m->lk and  *)
(* sleeps atomically (module SleepLock).                                   *)
(*                                                                         *)
(* The callers are well-behaved, as in user/mutextest.c: a process locks a *)
(* mutex that a process of its program has created, one at a time, unlocks *)
(* only what it has locked, and frees only what it has created, when no    *)
(* process of the program uses it any more.  Nothing keeps a mutex_create  *)
(* of one program from running beside the other calls of another one.      *)
(***************************************************************************)
EXTENDS Integers, FiniteSets

CONSTANTS
  Pid,            \* pids of the processes, positive
  Program,        \* Program[p]: the program p belongs to (p and its relatives)
  MAX_MUTEXES,    \* kernel/mutex.h
  NoPid           \* lk->cpu of a free spinlock, as the process on that CPU

MutexId == 0 .. MAX_MUTEXES - 1

VARIABLES
  locked,         \* m->locked
  pid,            \* m->pid; 0 also marks the slot as unallocated
  lk,             \* holder of m->lk
  mtlock,         \* holder of mtable.lock
  pc,             \* where p is
  id,             \* the mutex p works on; the loop variable in mutex_create()
  created,        \* ids mutex_create() returned to p and p is not done with
  inside          \* ids mutex_lock() returned 0 for and p has not unlocked

vars == <<locked, pid, lk, mtlock, pc, id, created, inside>>

TypeOK ==
  /\ locked \in [MutexId -> BOOLEAN]
  /\ pid \in [MutexId -> Pid \cup {0}]
  /\ lk \in [MutexId -> Pid \cup {NoPid}]
  /\ mtlock \in Pid \cup {NoPid}
  /\ pc \in [Pid -> {"user", "create", "claim", "lock", "test", "sleep", "own",
                     "unlock", "check", "disown"}]
  /\ id \in [Pid -> 0 .. MAX_MUTEXES]
  /\ created \in [Pid -> SUBSET MutexId]
  /\ inside \in [Pid -> SUBSET MutexId]

(* mutex_init() is not called: the table is zero-initialised, with the same *)
(* effect.                                                                  *)
Init ==
  /\ locked = [m \in MutexId |-> FALSE]
  /\ pid = [m \in MutexId |-> 0]
  /\ lk = [m \in MutexId |-> NoPid]
  /\ mtlock = NoPid
  /\ pc = [p \in Pid |-> "user"]
  /\ id = [p \in Pid |-> 0]
  /\ created = [p \in Pid |-> {}]
  /\ inside = [p \in Pid |-> {}]

Goto(p, l) == pc' = [pc EXCEPT ![p] = l]

-----------------------------------------------------------------------------
(* mutex_create(): acquire(&mtable.lock), and walk the table ... *)
Create(p) ==
  /\ pc[p] = "user"
  /\ mtlock = NoPid
  /\ mtlock' = p
  /\ id' = [id EXCEPT ![p] = 0]
  /\ Goto(p, "create")
  /\ UNCHANGED <<locked, pid, lk, created, inside>>

(* ... past the slots in use ... *)
CreateNext(p) ==
  /\ pc[p] = "create"
  /\ id[p] < MAX_MUTEXES
  /\ pid[id[p]] # 0
  /\ id' = [id EXCEPT ![p] = @ + 1]
  /\ UNCHANGED <<locked, pid, lk, mtlock, pc, created, inside>>

(* ... to one with pid 0 ... *)
CreateFound(p) ==
  /\ pc[p] = "create"
  /\ id[p] < MAX_MUTEXES
  /\ pid[id[p]] = 0
  /\ Goto(p, "claim")
  /\ UNCHANGED <<locked, pid, lk, mtlock, id, created, inside>>

(* ... which it claims, releasing mtable.lock and returning the id. *)
CreateClaim(p) ==
  /\ pc[p] = "claim"
  /\ pid' = [pid EXCEPT ![id[p]] = p]
  /\ mtlock' = NoPid
  /\ created' = [created EXCEPT ![p] = @ \cup {id[p]}]
  /\ Goto(p, "user")
  /\ UNCHANGED <<locked, lk, id, inside>>

(* No slot: return -1. *)
CreateFail(p) ==
  /\ pc[p] = "create"
  /\ id[p] = MAX_MUTEXES
  /\ mtlock' = NoPid
  /\ Goto(p, "user")
  /\ UNCHANGED <<locked, pid, lk, id, created, inside>>

-----------------------------------------------------------------------------
Relatives(p) == {q \in Pid : Program[q] = Program[p]}

(* A relative of p has created m, so that p may know the id. *)
Known(p, m) == \E q \in Relatives(p) : m \in created[q]

(* No relative of p is using m. *)
Unused(p, m) ==
  \A q \in Relatives(p) : m \notin inside[q] /\ (pc[q] = "user" \/ id[q] # m)

(* The test of the id at the start of the three calls: another id gets -1    *)
(* and changes nothing.                                                      *)
ValidId(m) == m >= 0 /\ m < MAX_MUTEXES

(* mutex_lock(m) ... *)
Lock(p, m) ==
  /\ pc[p] = "user"
  /\ ValidId(m)
  /\ Known(p, m)
  /\ inside[p] = {}
  /\ id' = [id EXCEPT ![p] = m]
  /\ Goto(p, "lock")
  /\ UNCHANGED <<locked, pid, lk, mtlock, created, inside>>

(* ... acquire(&m->lk), at the start or at the end of sleep() ... *)
LockAcquire(p) ==
  /\ pc[p] = "lock"
  /\ lk[id[p]] = NoPid
  /\ lk' = [lk EXCEPT ![id[p]] = p]
  /\ Goto(p, "test")
  /\ UNCHANGED <<locked, pid, mtlock, id, created, inside>>

(* ... while(m->locked) sleep(m, &m->lk) ... *)
LockSleep(p) ==
  /\ pc[p] = "test"
  /\ locked[id[p]]
  /\ lk' = [lk EXCEPT ![id[p]] = NoPid]
  /\ Goto(p, "sleep")
  /\ UNCHANGED <<locked, pid, mtlock, id, created, inside>>

(* ... m->locked = 1 ... *)
LockTake(p) ==
  /\ pc[p] = "test"
  /\ ~ locked[id[p]]
  /\ locked' = [locked EXCEPT ![id[p]] = TRUE]
  /\ Goto(p, "own")
  /\ UNCHANGED <<pid, lk, mtlock, id, created, inside>>

(* ... m->pid = pid; release(&m->lk); return 0. *)
LockReturn(p) ==
  /\ pc[p] = "own"
  /\ pid' = [pid EXCEPT ![id[p]] = p]
  /\ lk' = [lk EXCEPT ![id[p]] = NoPid]
  /\ inside' = [inside EXCEPT ![p] = @ \cup {id[p]}]
  /\ Goto(p, "user")
  /\ UNCHANGED <<locked, mtlock, id, created>>

-----------------------------------------------------------------------------
(* mutex_unlock(m) and mutex_free(m) have the same body.  A program that     *)
(* frees a mutex is done with it, whatever mutex_free() answers.             *)
Unlock(p, m) ==
  /\ pc[p] = "user"
  /\ ValidId(m)
  /\ m \in inside[p]
  /\ id' = [id EXCEPT ![p] = m]
  /\ Goto(p, "unlock")
  /\ UNCHANGED <<locked, pid, lk, mtlock, created, inside>>

Free(p, m) ==
  /\ pc[p] = "user"
  /\ ValidId(m)
  /\ m \in created[p] /\ Unused(p, m)
  /\ created' = [created EXCEPT ![p] = @ \ {m}]
  /\ id' = [id EXCEPT ![p] = m]
  /\ Goto(p, "unlock")
  /\ UNCHANGED <<locked, pid, lk, mtlock, inside>>

(* acquire(&m->lk) ... *)
UnlockAcquire(p) ==
  /\ pc[p] = "unlock"
  /\ lk[id[p]] = NoPid
  /\ lk' = [lk EXCEPT ![id[p]] = p]
  /\ Goto(p, "check")
  /\ UNCHANGED <<locked, pid, mtlock, id, created, inside>>

(* ... if(m->pid != pid) { release(&m->lk); return -1; } ... *)
UnlockRefuse(p) ==
  /\ pc[p] = "check"
  /\ pid[id[p]] # p
  /\ lk' = [lk EXCEPT ![id[p]] = NoPid]
  /\ Goto(p, "user")
  /\ UNCHANGED <<locked, pid, mtlock, id, created, inside>>

(* ... m->locked = 0 ... *)
UnlockClear(p) ==
  /\ pc[p] = "check"
  /\ pid[id[p]] = p
  /\ locked' = [locked EXCEPT ![id[p]] = FALSE]
  /\ Goto(p, "disown")
  /\ UNCHANGED <<pid, lk, mtlock, id, created, inside>>

(* ... m->pid = 0; wakeup(m); release(&m->lk); return 0. *)
UnlockReturn(p) ==
  /\ pc[p] = "disown"
  /\ pid' = [pid EXCEPT ![id[p]] = 0]
  /\ pc' = [q \in Pid |-> IF q = p THEN "user"
                          ELSE IF pc[q] = "sleep" /\ id[q] = id[p] THEN "lock"
                          ELSE pc[q]]
  /\ lk' = [lk EXCEPT ![id[p]] = NoPid]
  /\ inside' = [inside EXCEPT ![p] = @ \ {id[p]}]
  /\ UNCHANGED <<locked, mtlock, id, created>>

-----------------------------------------------------------------------------
CreateStep(p) ==
  \/ Create(p) \/ CreateNext(p) \/ CreateFound(p) \/ CreateClaim(p) \/ CreateFail(p)

LockStep(p) == LockAcquire(p) \/ LockSleep(p) \/ LockTake(p) \/ LockReturn(p)

UnlockStep(p) == UnlockAcquire(p) \/ UnlockRefuse(p) \/ UnlockClear(p) \/ UnlockReturn(p)

UseStep(p) ==
  \/ \E m \in MutexId : Lock(p, m) \/ Unlock(p, m) \/ Free(p, m)
  \/ LockStep(p)
  \/ UnlockStep(p)

Next == \E p \in Pid : CreateStep(p) \/ UseStep(p)

Spec == Init /\ [][Next]_vars

-----------------------------------------------------------------------------
(* A mutex that mutex_lock() has given to p is locked and its pid field      *)
(* names p, until p's own mutex_unlock(): mutex.h:6 describes the field as   *)
(* "PID du processus detenant le verrou".  The code does not keep this:      *)
(* mutex_unlock() leaves pid 0, the mark of a slot that mutex_create() may   *)
(* give away, and mutex_create() writes pid under another spinlock than      *)
(* mutex_lock(), so that it can overwrite the holder.                        *)
HolderRecorded ==
  \A p \in Pid : \A m \in inside[p] :
    (pc[p] # "disown" \/ id[p] # m) => locked[m] /\ pid[m] = p

(* A process asleep in mutex_lock() waits for a mutex that is locked, or for *)
(* a wakeup() that is about to be called.                                    *)
SleeperHasWaker ==
  \A p \in Pid :
    pc[p] = "sleep" =>
      locked[id[p]] \/ \E q \in Pid : pc[q] = "disown" /\ id[q] = id[p]

==============================================================================
