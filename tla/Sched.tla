-------------------------------- MODULE Sched --------------------------------
(***************************************************************************)
(* Process switching in kernel/proc.c: the per-CPU scheduler, sched(),     *)
(* yield(), sleep() and wakeup(), at the granularity of the spinlocks that *)
(* make them correct.  A step is the code between two lock operations      *)
(* another CPU could observe, so p->lock and the lock handed to sleep()    *)
(* are explicit: the order in which they are taken and dropped is what     *)
(* keeps a wakeup from being lost.                                         *)
(*                                                                         *)
(* The module holds the machinery; SleepLock and Proc extend it with the   *)
(* code that calls it and define the specification.                        *)
(*                                                                         *)
(* Abstraction: scheduler() walks the process table in order.  Here a CPU  *)
(* may pick any process that is RUNNABLE, which admits every order.        *)
(***************************************************************************)
EXTENDS Integers, FiniteSets

CONSTANTS
  NPROC,      \* size of the process table (kernel/param.h)
  CPU,        \* the harts
  Lock,       \* spinlocks other than the p->lock's that callers of sleep() use
  NoCPU,      \* value of lk->cpu when the lock is free
  NoProc,     \* the null struct proc *
  NoChan      \* p->chan when the process is not sleeping

ASSUME SchedAssumption ==
  /\ NPROC \in Nat \ {0}
  /\ NoCPU \notin CPU
  /\ NoProc \notin 0 .. NPROC - 1

(* The process table: proc[0] .. proc[NPROC-1]. *)
Procs == 0 .. NPROC - 1

VARIABLES
  state,      \* p->state
  chan,       \* p->chan
  plock,      \* p->lock.cpu: the CPU that holds p->lock, or NoCPU
  lock,       \* the same for the spinlocks in Lock
  cproc,      \* c->proc
  spc,        \* where CPU c's scheduler thread is
  pc,         \* where p's kernel thread is
  widx,       \* wakeup()'s loop variable, as run by p
  yielded     \* p left the CPU in yield() and has not resumed yet

schedVars == <<state, chan, plock, lock, cproc, spc, pc, widx, yielded>>

(***************************************************************************)
(* spc[c]:                                                                 *)
(*   "scan"   looking for a process to run, holding no lock                *)
(*   "swtch"  suspended in swtch(): process cproc[c] is executing          *)
(*   "back"   a process has swtch'ed back: about to clear c->proc and      *)
(*            release its p->lock                                          *)
(***************************************************************************)
OnCPU(c, p) == spc[c] = "swtch" /\ cproc[c] = p

(* p's kernel thread can take its next step on CPU c at label l. *)
At(c, p, l) == OnCPU(c, p) /\ ~ yielded[p] /\ pc[p] = l

Goto(p, l) == pc' = [pc EXCEPT ![p] = l]

(* The spinlocks CPU c holds; mycpu()->noff is their number. *)
HeldPlocks(c) == {p \in Procs : plock[p] = c}

HeldLocks(c) == {l \in Lock : lock[l] = c}

-----------------------------------------------------------------------------
(* scheduler(): acquire p->lock, find p RUNNABLE, swtch to it with p->lock  *)
(* held.  A p that is not RUNNABLE is released at once and nothing changes. *)
Schedule(c, p) ==
  /\ spc[c] = "scan"
  /\ plock[p] = NoCPU
  /\ state[p] = "RUNNABLE"
  /\ plock' = [plock EXCEPT ![p] = c]
  /\ state' = [state EXCEPT ![p] = "RUNNING"]
  /\ cproc' = [cproc EXCEPT ![c] = p]
  /\ spc' = [spc EXCEPT ![c] = "swtch"]
  /\ UNCHANGED <<chan, lock, pc, widx, yielded>>

(* scheduler() after swtch() returns: c->proc = 0; release(&p->lock). *)
SwtchReturn(c) ==
  /\ spc[c] = "back"
  /\ plock' = [plock EXCEPT ![cproc[c]] = NoCPU]
  /\ cproc' = [cproc EXCEPT ![c] = NoProc]
  /\ spc' = [spc EXCEPT ![c] = "scan"]
  /\ UNCHANGED <<state, chan, lock, pc, widx, yielded>>

(* The tests of sched() whose failure panics: p->lock is held, it is the   *)
(* only lock held (noff is 1), and p has left the RUNNING state.           *)
SchedChecks(c, p, newstate) ==
  /\ plock[p] = c
  /\ Cardinality(HeldPlocks(c)) + Cardinality(HeldLocks(c)) = 1
  /\ newstate # "RUNNING"

(* sched(): swtch to CPU c's scheduler thread, p->lock still held. *)
sched(c) == spc' = [spc EXCEPT ![c] = "back"]

-----------------------------------------------------------------------------
(* Mutation: yield() without p->lock held across the switch. *)
YieldUnlocked(c, p) ==
  /\ OnCPU(c, p)
  /\ ~ yielded[p]
  /\ HeldPlocks(c) = {} /\ HeldLocks(c) = {}
  /\ state' = [state EXCEPT ![p] = "RUNNABLE"]
  /\ yielded' = [yielded EXCEPT ![p] = TRUE]
  /\ sched(c)
  /\ UNCHANGED <<chan, plock, lock, cproc, pc, widx>>

(* yield(), called from usertrap() and kerneltrap() on a timer interrupt.  *)
(* Interrupts are enabled exactly when the CPU holds no spinlock.          *)
Yield(c, p) ==
  /\ OnCPU(c, p)
  /\ ~ yielded[p]
  /\ HeldPlocks(c) = {} /\ HeldLocks(c) = {}
  /\ plock[p] = NoCPU
  /\ plock' = [plock EXCEPT ![p] = c]
  /\ state' = [state EXCEPT ![p] = "RUNNABLE"]
  /\ yielded' = [yielded EXCEPT ![p] = TRUE]
  /\ sched(c)
  /\ UNCHANGED <<chan, lock, cproc, pc, widx>>

(* The rest of yield() once p runs again; forkret() does the same for a    *)
(* process that runs for the first time: release(&p->lock).                *)
YieldReturn(c, p) ==
  /\ OnCPU(c, p)
  /\ yielded[p]
  /\ plock' = [plock EXCEPT ![p] = NoCPU]
  /\ yielded' = [yielded EXCEPT ![p] = FALSE]
  /\ UNCHANGED <<state, chan, lock, cproc, spc, pc, widx>>

-----------------------------------------------------------------------------
(* sleep(ch, l): acquire(&p->lock) while l is still held ... *)
SleepLockProc(c, p) ==
  /\ At(c, p, "sleep_lock_proc")
  /\ plock[p] = NoCPU
  /\ plock' = [plock EXCEPT ![p] = c]
  /\ Goto(p, "sleep_release")
  /\ UNCHANGED <<state, chan, lock, cproc, spc, widx, yielded>>

(* Mutation: sleep() forgets to release lk. *)
SleepKeepsLock(c, p, l) ==
  /\ At(c, p, "sleep_release")
  /\ Goto(p, "sleep_sched")
  /\ UNCHANGED <<state, chan, plock, lock, cproc, spc, widx, yielded>>

(* ... release(lk) ... *)
SleepRelease(c, p, l) ==
  /\ At(c, p, "sleep_release")
  /\ lock' = [lock EXCEPT ![l] = NoCPU]
  /\ Goto(p, "sleep_sched")
  /\ UNCHANGED <<state, chan, plock, cproc, spc, widx, yielded>>

(* ... p->chan = ch; p->state = SLEEPING; sched() ... *)
SleepSched(c, p, ch) ==
  /\ At(c, p, "sleep_sched")
  /\ SchedChecks(c, p, "SLEEPING")
  /\ chan' = [chan EXCEPT ![p] = ch]
  /\ state' = [state EXCEPT ![p] = "SLEEPING"]
  /\ sched(c)
  /\ Goto(p, "sleep_tidy")
  /\ UNCHANGED <<plock, lock, cproc, widx, yielded>>

(* ... and, running again: p->chan = 0; release(&p->lock) ... *)
SleepTidy(c, p) ==
  /\ At(c, p, "sleep_tidy")
  /\ chan' = [chan EXCEPT ![p] = NoChan]
  /\ plock' = [plock EXCEPT ![p] = NoCPU]
  /\ Goto(p, "sleep_reacquire")
  /\ UNCHANGED <<state, lock, cproc, spc, widx, yielded>>

(* ... acquire(lk), and return to the caller's loop at label ret. *)
SleepReacquire(c, p, l, ret) ==
  /\ At(c, p, "sleep_reacquire")
  /\ lock[l] = NoCPU
  /\ lock' = [lock EXCEPT ![l] = c]
  /\ Goto(p, ret)
  /\ UNCHANGED <<state, chan, plock, cproc, spc, widx, yielded>>

(* Mutation: sleep() releases lk before it acquires p->lock. *)
SleepUnlocksFirst(c, p, ch, l, ret) ==
  \/ /\ At(c, p, "sleep_lock_proc")
     /\ lock[l] = c
     /\ lock' = [lock EXCEPT ![l] = NoCPU]
     /\ UNCHANGED <<state, chan, plock, cproc, spc, pc, widx, yielded>>
  \/ /\ At(c, p, "sleep_lock_proc")
     /\ lock[l] # c
     /\ plock[p] = NoCPU
     /\ plock' = [plock EXCEPT ![p] = c]
     /\ Goto(p, "sleep_sched")
     /\ UNCHANGED <<state, chan, lock, cproc, spc, widx, yielded>>
  \/ SleepSched(c, p, ch)
  \/ SleepTidy(c, p)
  \/ SleepReacquire(c, p, l, ret)

(* One call of sleep(ch, l) by p, returning to ret. *)
Sleep(c, p, ch, l, ret) ==
  \/ SleepLockProc(c, p)
  \/ SleepRelease(c, p, l)
  \/ SleepSched(c, p, ch)
  \/ SleepTidy(c, p)
  \/ SleepReacquire(c, p, l, ret)

-----------------------------------------------------------------------------
(* wakeup(ch): the loop body for proc[i].  Skips the caller, otherwise      *)
(* acquires proc[i].lock, makes proc[i] RUNNABLE if it sleeps on ch, and    *)
(* releases the lock.                                                       *)
WakeupBody(p, i, ch) ==
  IF i = p
    THEN UNCHANGED state
    ELSE /\ plock[i] = NoCPU
         /\ state' = [state EXCEPT ![i] =
                        IF state[i] = "SLEEPING" /\ chan[i] = ch
                          THEN "RUNNABLE" ELSE @]

(* Mutation: p++ only inside the test p != myproc(): the loop stays there. *)
WakeupStuck(c, p, label, ch) ==
  /\ At(c, p, label)
  /\ widx[p] < NPROC
  /\ WakeupBody(p, widx[p], ch)
  /\ widx' = [widx EXCEPT ![p] = IF @ = p THEN @ ELSE @ + 1]
  /\ UNCHANGED <<chan, plock, lock, cproc, spc, pc, yielded>>

WakeupStep(c, p, label, ch) ==
  /\ At(c, p, label)
  /\ widx[p] < NPROC
  /\ WakeupBody(p, widx[p], ch)
  /\ widx' = [widx EXCEPT ![p] = @ + 1]
  /\ UNCHANGED <<chan, plock, lock, cproc, spc, pc, yielded>>

==============================================================================
