------------------------------ MODULE SleepLock ------------------------------
(***************************************************************************)
(* One sleeping lock (kernel/sleeplock.c) used by every process of the     *)
(* table, on top of the sleep/wakeup/scheduler machinery of Sched.  The    *)
(* processes loop: acquiresleep(&L); critical section; releasesleep(&L).   *)
(* Every buffer and every in-memory inode of the file system is guarded by *)
(* such a lock, and begin_op(), pipes, the console, wait() and mutex_lock  *)
(* all use the same while(condition) sleep(chan, lk) pattern.              *)
(***************************************************************************)
EXTENDS Sched

CONSTANT lk       \* the spinlock inside the sleeping lock; also its channel

ASSUME SleepLockAssumption == Lock = {lk} /\ lk # NoChan

VARIABLES
  locked,         \* lk->locked
  pid             \* lk->pid: the process that holds the lock

vars == <<state, chan, plock, lock, cproc, spc, pc, widx, yielded, locked, pid>>

Labels == {"user", "test", "sleep_lock_proc", "sleep_release", "sleep_sched",
           "sleep_tidy", "sleep_reacquire", "critical", "wakeup"}

TypeOK ==
  /\ state \in [Procs -> {"RUNNABLE", "RUNNING", "SLEEPING"}]
  /\ chan \in [Procs -> {NoChan, lk}]
  /\ plock \in [Procs -> CPU \cup {NoCPU}]
  /\ lock \in [Lock -> CPU \cup {NoCPU}]
  /\ cproc \in [CPU -> Procs \cup {NoProc}]
  /\ spc \in [CPU -> {"scan", "swtch", "back"}]
  /\ pc \in [Procs -> Labels]
  /\ widx \in [Procs -> 0 .. NPROC]
  /\ yielded \in [Procs -> BOOLEAN]
  /\ locked \in BOOLEAN
  /\ pid \in Procs \cup {NoProc}

(* initsleeplock(); every process is RUNNABLE and has yet to leave         *)
(* forkret(), which releases p->lock as the end of yield() does.           *)
Init ==
  /\ state = [p \in Procs |-> "RUNNABLE"]
  /\ chan = [p \in Procs |-> NoChan]
  /\ plock = [p \in Procs |-> NoCPU]
  /\ lock = [l \in Lock |-> NoCPU]
  /\ cproc = [c \in CPU |-> NoProc]
  /\ spc = [c \in CPU |-> "scan"]
  /\ pc = [p \in Procs |-> "user"]
  /\ widx = [p \in Procs |-> 0]
  /\ yielded = [p \in Procs |-> TRUE]
  /\ locked = FALSE
  /\ pid = NoProc

-----------------------------------------------------------------------------
(* acquiresleep(): acquire(&lk->lk). *)
AcquireSleep(c, p) ==
  /\ At(c, p, "user")
  /\ lock[lk] = NoCPU
  /\ lock' = [lock EXCEPT ![lk] = c]
  /\ Goto(p, "test")
  /\ UNCHANGED <<state, chan, plock, cproc, spc, widx, yielded, locked, pid>>

(* while (lk->locked) sleep(lk, &lk->lk): call sleep(). *)
TestLocked(c, p) ==
  /\ At(c, p, "test")
  /\ locked
  /\ Goto(p, "sleep_lock_proc")
  /\ UNCHANGED <<state, chan, plock, lock, cproc, spc, widx, yielded, locked, pid>>

(* Mutation: the test of lk->locked is dropped. *)
TestIgnored(c, p) ==
  /\ At(c, p, "test")
  /\ locked' = TRUE
  /\ pid' = p
  /\ lock' = [lock EXCEPT ![lk] = NoCPU]
  /\ Goto(p, "critical")
  /\ UNCHANGED <<state, chan, plock, cproc, spc, widx, yielded>>

(* ... and otherwise lk->locked = 1; lk->pid = pid; release(&lk->lk). *)
TestFree(c, p) ==
  /\ At(c, p, "test")
  /\ ~ locked
  /\ locked' = TRUE
  /\ pid' = p
  /\ lock' = [lock EXCEPT ![lk] = NoCPU]
  /\ Goto(p, "critical")
  /\ UNCHANGED <<state, chan, plock, cproc, spc, widx, yielded>>

(* releasesleep(): acquire(&lk->lk); lk->locked = 0; lk->pid = 0, entering  *)
(* wakeup(lk) ...                                                           *)
ReleaseSleep(c, p) ==
  /\ At(c, p, "critical")
  /\ lock[lk] = NoCPU
  /\ lock' = [lock EXCEPT ![lk] = c]
  /\ locked' = FALSE
  /\ pid' = NoProc
  /\ widx' = [widx EXCEPT ![p] = 0]
  /\ Goto(p, "wakeup")
  /\ UNCHANGED <<state, chan, plock, cproc, spc, yielded>>

(* ... whose loop visits every other process ... *)
Wakeup(c, p) ==
  /\ WakeupStep(c, p, "wakeup", lk)
  /\ UNCHANGED <<locked, pid>>

(* ... and then release(&lk->lk). *)
ReleaseDone(c, p) ==
  /\ At(c, p, "wakeup")
  /\ widx[p] = NPROC
  /\ lock' = [lock EXCEPT ![lk] = NoCPU]
  /\ Goto(p, "user")
  /\ UNCHANGED <<state, chan, plock, cproc, spc, widx, yielded, locked, pid>>

-----------------------------------------------------------------------------
(* The steps of the sleeping lock itself, taken by p on CPU c. *)
LockStep(c, p) ==
  \/ AcquireSleep(c, p)
  \/ TestLocked(c, p)
  \/ TestFree(c, p)
  \/ ReleaseSleep(c, p)
  \/ Wakeup(c, p)
  \/ ReleaseDone(c, p)

(* The steps of sleep(), taken by p on CPU c. *)
SleepStep(c, p) ==
  /\ Sleep(c, p, lk, lk, "test")
  /\ UNCHANGED <<locked, pid>>

(* The steps of the scheduler, and the timer interrupt. *)
Dispatch(c, p) == Schedule(c, p) /\ UNCHANGED <<locked, pid>>

Return(c) == SwtchReturn(c) /\ UNCHANGED <<locked, pid>>

Preempt(c, p) == Yield(c, p) /\ UNCHANGED <<locked, pid>>

Resume(c, p) == YieldReturn(c, p) /\ UNCHANGED <<locked, pid>>

ProcStep(c, p) == LockStep(c, p) \/ SleepStep(c, p) \/ Resume(c, p)

Next ==
  \E c \in CPU :
    \/ Return(c)
    \/ \E p \in Procs : ProcStep(c, p) \/ Dispatch(c, p) \/ Preempt(c, p)

Spec == Init /\ [][Next]_vars

-----------------------------------------------------------------------------
(* Fairness.  A process that is given the CPU again and again advances      *)
(* again and again, a spinlock that is released again and again being won   *)
(* eventually (SF on the steps of p); the scheduler's walk over the table   *)
(* reaches every process that stays RUNNABLE (SF on Dispatch of p); a       *)
(* scheduler that was switched back to continues (WF); a pending timer      *)
(* interrupt is taken once interrupts are on (SF on Preempt).               *)
Fairness ==
  /\ \A p \in Procs : SF_vars(\E c \in CPU : LockStep(c, p) \/ SleepStep(c, p))
  /\ \A p \in Procs : SF_vars(\E c \in CPU : Resume(c, p))
  /\ \A p \in Procs : SF_vars(\E c \in CPU : Dispatch(c, p))
  /\ \A c \in CPU : WF_vars(Return(c))
  /\ \A c \in CPU : SF_vars(\E p \in Procs : Preempt(c, p))

FairSpec == Spec /\ Fairness

-----------------------------------------------------------------------------
(* p holds the sleeping lock: acquiresleep() has returned to it. *)
Holds(p) == pc[p] = "critical"

(* Mutual exclusion: acquiresleep() never returns to two processes before   *)
(* one of them has called releasesleep(), whatever the interleaving of      *)
(* wakeups, preemptions and latecomers; and while someone holds the lock    *)
(* lk->locked is set and lk->pid, which holdingsleep() tests, is theirs.    *)
MutualExclusion ==
  /\ \A p, q \in Procs : Holds(p) /\ Holds(q) => p = q
  /\ \A p \in Procs : Holds(p) => locked /\ pid = p

(* No lost wakeup: a process that sleeps on a lock which is free is still   *)
(* ahead of the loop of a wakeup() under way.  Were sleep() to drop lk      *)
(* before it has p->lock, a releasesleep() could slip in between and the    *)
(* sleeper would wait for ever.                                             *)
NoLostWakeup ==
  \A p \in Procs :
    state[p] = "SLEEPING" /\ ~ locked
      => \E q \in Procs : pc[q] = "wakeup" /\ widx[q] <= p

(* A process is current on one CPU at most, from the moment a scheduler     *)
(* picks it to the moment that scheduler has its own stack back: no CPU     *)
(* resumes a process whose kernel stack another CPU still stands on.        *)
OneCPUPerProcess ==
  \A c, d \in CPU : cproc[c] # NoProc /\ cproc[c] = cproc[d] => c = d

(* None of the panics of sched(), acquire() and release() can fire: sched() *)
(* is entered with p->lock the only spinlock held, no CPU acquires a lock   *)
(* it already holds, and none releases a lock it does not hold.             *)
NoPanic ==
  \A c \in CPU, p \in Procs :
    OnCPU(c, p) =>
      /\ yielded[p] => plock[p] = c
      /\ ~ yielded[p] =>
           /\ pc[p] = "sleep_sched" => SchedChecks(c, p, "SLEEPING")
           /\ pc[p] \in {"sleep_release", "sleep_sched", "sleep_tidy"} => plock[p] = c
           /\ pc[p] \in {"sleep_release", "test", "wakeup"} => lock[lk] = c
           /\ pc[p] \in {"user", "critical", "sleep_reacquire"} => lock[lk] # c
           /\ pc[p] = "sleep_lock_proc" => plock[p] # c
           /\ pc[p] = "wakeup" => plock[widx[p] % NPROC] # c

(* Every process that goes to sleep on the lock becomes RUNNABLE again: the  *)
(* holder gets to releasesleep() and its wakeup() reaches the sleeper.       *)
SleeperWakes ==
  \A p \in Procs : state[p] = "SLEEPING" ~> state[p] = "RUNNABLE"

-----------------------------------------------------------------------------
(* The inductive invariant, in parts. *)

(* p's thread is where it holds lk->lk, and where it holds p->lock. *)
HoldsLk(p) == pc[p] \in {"test", "sleep_lock_proc", "sleep_release", "wakeup"}

HoldsPlock(p) == yielded[p] \/ pc[p] \in {"sleep_release", "sleep_sched", "sleep_tidy"}

(* Who runs where, and that p->lock is handed over with the CPU: it is held  *)
(* by the CPU on which p runs or which is just switching away from p.        *)
SwitchInv ==
  /\ \A c \in CPU : cproc[c] = NoProc <=> spc[c] = "scan"
  /\ OneCPUPerProcess
  /\ \A p \in Procs : state[p] = "RUNNING" <=> \E c \in CPU : OnCPU(c, p)
  /\ \A c \in CPU : spc[c] = "back" => plock[cproc[c]] = c
  /\ \A c \in CPU, p \in Procs : OnCPU(c, p) /\ HoldsPlock(p) => plock[p] = c
  /\ \A p \in Procs, c \in CPU :
       plock[p] = c => cproc[c] = p /\ (spc[c] = "back" \/ HoldsPlock(p))

(* Where a process can be switched out. *)
SwitchedOutInv ==
  /\ \A p \in Procs : state[p] # "RUNNING" => yielded[p] \/ pc[p] = "sleep_tidy"
  /\ \A p \in Procs : yielded[p] => pc[p] \in {"user", "critical", "sleep_reacquire"}
  /\ \A p \in Procs : state[p] = "SLEEPING" => ~ yielded[p] /\ chan[p] = lk

(* lk->lk is held by the one process that is where it holds it. *)
SpinInv ==
  /\ \A c \in CPU, p \in Procs : OnCPU(c, p) /\ HoldsLk(p) => lock[lk] = c
  /\ \A c \in CPU : lock[lk] = c => \E p \in Procs : OnCPU(c, p) /\ HoldsLk(p)

(* lk->locked and lk->pid, and that whoever sleeps or is about to has a      *)
(* wakeup() ahead.                                                           *)
WaitInv ==
  /\ \A p \in Procs : Holds(p) => locked /\ pid = p
  /\ \A p \in Procs : pc[p] \in {"sleep_lock_proc", "sleep_release"} => locked
  /\ \A p \in Procs :
       pc[p] = "sleep_sched" \/ state[p] = "SLEEPING"
         => locked \/ \E q \in Procs : pc[q] = "wakeup" /\ widx[q] <= p

(* What every step of acquiresleep(), releasesleep(), sleep(), wakeup(),     *)
(* yield() and scheduler() preserves: p->lock travels with the CPU, lk->lk   *)
(* is held exactly where the code says, and no sleeper is forgotten.         *)
IInv == TypeOK /\ SwitchInv /\ SwitchedOutInv /\ SpinInv /\ WaitInv

==============================================================================
