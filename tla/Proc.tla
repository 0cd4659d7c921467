--------------------------------- MODULE Proc ---------------------------------
(***************************************************************************)
(* The life cycle of processes, kernel/proc.c: fork(), exit(), wait() and  *)
(* kill(), with reparenting to init, on top of the scheduling, sleep() and *)
(* wakeup() of Sched.  wait_lock and every p->lock are explicit.           *)
(*                                                                         *)
(* Abstractions: memory, files and the exit status are left out; what can  *)
(* fail in allocproc() and fork() for want of memory is a choice.  A       *)
(* process in user space may call any of the four at any time; slot Init   *)
(* is the init process, which never exits and is never killed.             *)
(***************************************************************************)
EXTENDS Sched

CONSTANTS
  wait_lock,      \* the spinlock of that name
  MaxPid          \* bound on nextpid

ASSUME ProcAssumption ==
  /\ Lock = {wait_lock}
  /\ NoChan \notin Procs
  /\ MaxPid \in Nat \ {0}

(* initproc: userinit() runs when the table is empty. *)
Initproc == 0

VARIABLES
  parent,         \* p->parent
  pid,            \* p->pid, 0 in an UNUSED slot
  killed,         \* p->killed
  nextpid,        \* the next pid allocpid() returns
  idx,            \* p's loop variable in allocproc(), reparent() and wait();
                  \* between allocproc() and the end of fork(), np
  havekids        \* the variable of wait()

procVars == <<parent, pid, killed, nextpid, idx, havekids>>

vars == <<state, chan, plock, lock, cproc, spc, pc, widx, yielded,
          parent, pid, killed, nextpid, idx, havekids>>

Labels == {"user", "fork_scan", "fork_parent", "fork_run", "wait_top", "wait_scan",
           "reparent", "wake_init", "wake_parent",
           "exit_release", "exit_sched", "zombie", "sleep_lock_proc",
           "sleep_release", "sleep_sched", "sleep_tidy", "sleep_reacquire"}

TypeOK ==
  /\ state \in [Procs -> {"UNUSED", "USED", "SLEEPING", "RUNNABLE", "RUNNING", "ZOMBIE"}]
  /\ chan \in [Procs -> Procs \cup {NoChan}]
  /\ plock \in [Procs -> CPU \cup {NoCPU}]
  /\ lock \in [Lock -> CPU \cup {NoCPU}]
  /\ cproc \in [CPU -> Procs \cup {NoProc}]
  /\ spc \in [CPU -> {"scan", "swtch", "back"}]
  /\ pc \in [Procs -> Labels]
  /\ widx \in [Procs -> 0 .. NPROC]
  /\ yielded \in [Procs -> BOOLEAN]
  /\ parent \in [Procs -> Procs \cup {NoProc}]
  /\ pid \in [Procs -> 0 .. MaxPid]
  /\ killed \in [Procs -> BOOLEAN]
  /\ nextpid \in 1 .. MaxPid + 1
  /\ idx \in [Procs -> 0 .. NPROC]
  /\ havekids \in [Procs -> BOOLEAN]

(* After userinit(): init is RUNNABLE, about to run forkret(), and every    *)
(* other slot is UNUSED.                                                    *)
Init ==
  /\ state = [p \in Procs |-> IF p = Initproc THEN "RUNNABLE" ELSE "UNUSED"]
  /\ chan = [p \in Procs |-> NoChan]
  /\ plock = [p \in Procs |-> NoCPU]
  /\ lock = [l \in Lock |-> NoCPU]
  /\ cproc = [c \in CPU |-> NoProc]
  /\ spc = [c \in CPU |-> "scan"]
  /\ pc = [p \in Procs |-> "user"]
  /\ widx = [p \in Procs |-> 0]
  /\ yielded = [p \in Procs |-> TRUE]
  /\ parent = [p \in Procs |-> NoProc]
  /\ pid = [p \in Procs |-> IF p = Initproc THEN 1 ELSE 0]
  /\ killed = [p \in Procs |-> FALSE]
  /\ nextpid = 2
  /\ idx = [p \in Procs |-> 0]
  /\ havekids = [p \in Procs |-> FALSE]

SetIdx(p, i) == idx' = [idx EXCEPT ![p] = i]

AcquireWaitLock(c) ==
  /\ lock[wait_lock] = NoCPU
  /\ lock' = [lock EXCEPT ![wait_lock] = c]

ReleaseWaitLock == lock' = [lock EXCEPT ![wait_lock] = NoCPU]

-----------------------------------------------------------------------------
(* The bound of the model: a pid is left for every fork() under way. *)
PidLeft == nextpid + Cardinality({q \in Procs : pc[q] = "fork_scan"}) <= MaxPid

(* fork(): allocproc() looks for an UNUSED slot ... *)
Fork(c, p) ==
  /\ At(c, p, "user") /\ ~ killed[p]
  /\ PidLeft
  /\ SetIdx(p, 0)
  /\ Goto(p, "fork_scan")
  /\ UNCHANGED <<state, chan, plock, lock, cproc, spc, widx, yielded,
                 parent, pid, killed, nextpid, havekids>>

(* ... passes those in use; with none left fork() returns -1 ... *)
ForkScan(c, p) ==
  /\ At(c, p, "fork_scan")
  /\ \/ /\ idx[p] < NPROC
        /\ plock[idx[p]] = NoCPU
        /\ state[idx[p]] # "UNUSED"
        /\ SetIdx(p, idx[p] + 1)
        /\ UNCHANGED pc
     \/ /\ idx[p] = NPROC
        /\ Goto(p, "user")
        /\ UNCHANGED idx
  /\ UNCHANGED <<state, chan, plock, lock, cproc, spc, widx, yielded,
                 parent, pid, killed, nextpid, havekids>>

(* ... takes one: a new pid, USED, a context that starts in forkret(), a    *)
(* copy of the parent; all under np->lock ...                               *)
ForkAlloc(c, p) ==
  LET np == idx[p] IN
  /\ At(c, p, "fork_scan")
  /\ np < NPROC
  /\ plock[np] = NoCPU
  /\ state[np] = "UNUSED"
  /\ pid' = [pid EXCEPT ![np] = nextpid]
  /\ nextpid' = nextpid + 1
  /\ state' = [state EXCEPT ![np] = "USED"]
  /\ pc' = [pc EXCEPT ![np] = "user", ![p] = "fork_parent"]
  /\ yielded' = [yielded EXCEPT ![np] = TRUE]
  /\ UNCHANGED <<chan, plock, lock, cproc, spc, widx,
                 parent, killed, idx, havekids>>

(* freeproc(q), under q->lock. *)
FreeProc(q) ==
  /\ pid' = [pid EXCEPT ![q] = 0]
  /\ parent' = [parent EXCEPT ![q] = NoProc]
  /\ chan' = [chan EXCEPT ![q] = NoChan]
  /\ killed' = [killed EXCEPT ![q] = FALSE]
  /\ state' = [state EXCEPT ![q] = "UNUSED"]

(* ... or has no memory for it: freeproc(np), return -1 ... *)
ForkNoMemory(c, p) ==
  /\ At(c, p, "fork_scan")
  /\ idx[p] < NPROC
  /\ plock[idx[p]] = NoCPU
  /\ state[idx[p]] = "UNUSED"
  /\ nextpid' = nextpid + 1
  /\ FreeProc(idx[p])
  /\ Goto(p, "user")
  /\ UNCHANGED <<plock, lock, cproc, spc, widx, yielded, idx, havekids>>

(* ... acquire(&wait_lock); np->parent = p; release(&wait_lock) ... *)
ForkParent(c, p) ==
  /\ At(c, p, "fork_parent")
  /\ lock[wait_lock] = NoCPU
  /\ parent' = [parent EXCEPT ![idx[p]] = p]
  /\ Goto(p, "fork_run")
  /\ UNCHANGED <<state, chan, plock, lock, cproc, spc, widx, yielded,
                 pid, killed, nextpid, idx, havekids>>

(* ... acquire(&np->lock); np->state = RUNNABLE; release(&np->lock). *)
ForkRun(c, p) ==
  /\ At(c, p, "fork_run")
  /\ plock[idx[p]] = NoCPU
  /\ state' = [state EXCEPT ![idx[p]] = "RUNNABLE"]
  /\ Goto(p, "user")
  /\ UNCHANGED <<chan, plock, lock, cproc, spc, widx, yielded,
                 parent, pid, killed, nextpid, idx, havekids>>

-----------------------------------------------------------------------------
(* Mutation: exit() does not call reparent(). *)
ExitKeepsChildren(c, p) ==
  /\ At(c, p, "user")
  /\ p # Initproc
  /\ AcquireWaitLock(c)
  /\ SetIdx(p, NPROC)
  /\ Goto(p, "reparent")
  /\ UNCHANGED <<state, chan, plock, cproc, spc, widx, yielded,
                 parent, pid, killed, nextpid, havekids>>

(* exit(): called by the process, or by usertrap() when it has been killed. *)
(* acquire(&wait_lock) ...                                                  *)
Exit(c, p) ==
  /\ At(c, p, "user")
  /\ p # Initproc
  /\ AcquireWaitLock(c)
  /\ SetIdx(p, 0)
  /\ Goto(p, "reparent")
  /\ UNCHANGED <<state, chan, plock, cproc, spc, widx, yielded,
                 parent, pid, killed, nextpid, havekids>>

(* Mutation: reparent() does not wake init. *)
ReparentSilently(c, p) ==
  /\ At(c, p, "reparent")
  /\ idx[p] < NPROC
  /\ parent' = [parent EXCEPT ![idx[p]] = IF @ = p THEN Initproc ELSE @]
  /\ SetIdx(p, idx[p] + 1)
  /\ UNCHANGED <<state, chan, plock, lock, cproc, spc, pc, widx, yielded,
                 pid, killed, nextpid, havekids>>

(* ... reparent(p): each child is given to init, followed by wakeup(init) .. *)
Reparent(c, p) ==
  /\ At(c, p, "reparent")
  /\ idx[p] < NPROC
  /\ IF parent[idx[p]] = p
       THEN /\ parent' = [parent EXCEPT ![idx[p]] = Initproc]
            /\ widx' = [widx EXCEPT ![p] = 0]
            /\ Goto(p, "wake_init")
       ELSE UNCHANGED <<parent, widx, pc>>
  /\ SetIdx(p, idx[p] + 1)
  /\ UNCHANGED <<state, chan, plock, lock, cproc, spc, yielded,
                 pid, killed, nextpid, havekids>>

WakeInit(c, p) ==
  /\ WakeupStep(c, p, "wake_init", Initproc)
  /\ UNCHANGED procVars

WakeInitDone(c, p) ==
  /\ At(c, p, "wake_init")
  /\ widx[p] = NPROC
  /\ Goto(p, "reparent")
  /\ UNCHANGED <<state, chan, plock, lock, cproc, spc, widx, yielded>>
  /\ UNCHANGED procVars

(* ... wakeup(p->parent) ... *)
ReparentDone(c, p) ==
  /\ At(c, p, "reparent")
  /\ idx[p] = NPROC
  /\ widx' = [widx EXCEPT ![p] = 0]
  /\ Goto(p, "wake_parent")
  /\ UNCHANGED <<state, chan, plock, lock, cproc, spc, yielded>>
  /\ UNCHANGED procVars

WakeParent(c, p) ==
  /\ WakeupStep(c, p, "wake_parent", parent[p])
  /\ UNCHANGED procVars

(* ... acquire(&p->lock); p->state = ZOMBIE ... *)
ExitZombie(c, p) ==
  /\ At(c, p, "wake_parent")
  /\ widx[p] = NPROC
  /\ plock[p] = NoCPU
  /\ plock' = [plock EXCEPT ![p] = c]
  /\ state' = [state EXCEPT ![p] = "ZOMBIE"]
  /\ Goto(p, "exit_release")
  /\ UNCHANGED <<chan, lock, cproc, spc, widx, yielded>>
  /\ UNCHANGED procVars

(* Mutation: exit() keeps wait_lock when it calls sched(). *)
ExitKeepsLock(c, p) ==
  /\ At(c, p, "exit_release")
  /\ Goto(p, "exit_sched")
  /\ UNCHANGED <<state, chan, plock, lock, cproc, spc, widx, yielded>>
  /\ UNCHANGED procVars

(* ... release(&wait_lock) ... *)
ExitRelease(c, p) ==
  /\ At(c, p, "exit_release")
  /\ ReleaseWaitLock
  /\ Goto(p, "exit_sched")
  /\ UNCHANGED <<state, chan, plock, cproc, spc, widx, yielded>>
  /\ UNCHANGED procVars

(* ... sched(), never to return. *)
ExitSched(c, p) ==
  /\ At(c, p, "exit_sched")
  /\ SchedChecks(c, p, "ZOMBIE")
  /\ sched(c)
  /\ Goto(p, "zombie")
  /\ UNCHANGED <<state, chan, plock, lock, cproc, widx, yielded>>
  /\ UNCHANGED procVars

-----------------------------------------------------------------------------
(* wait(): acquire(&wait_lock) ... *)
Wait(c, p) ==
  /\ At(c, p, "user") /\ ~ killed[p]
  /\ AcquireWaitLock(c)
  /\ Goto(p, "wait_top")
  /\ UNCHANGED <<state, chan, plock, cproc, spc, widx, yielded>>
  /\ UNCHANGED procVars

(* ... havekids = 0, start a scan of the table ... *)
WaitTop(c, p) ==
  /\ At(c, p, "wait_top")
  /\ havekids' = [havekids EXCEPT ![p] = FALSE]
  /\ SetIdx(p, 0)
  /\ Goto(p, "wait_scan")
  /\ UNCHANGED <<state, chan, plock, lock, cproc, spc, widx, yielded,
                 parent, pid, killed, nextpid>>

(* ... a slot that is not a child, or a child that has not exited ... *)
WaitScan(c, p) ==
  /\ At(c, p, "wait_scan")
  /\ idx[p] < NPROC
  /\ IF parent[idx[p]] = p
       THEN /\ plock[idx[p]] = NoCPU
            /\ state[idx[p]] # "ZOMBIE"
            /\ havekids' = [havekids EXCEPT ![p] = TRUE]
       ELSE UNCHANGED havekids
  /\ SetIdx(p, idx[p] + 1)
  /\ UNCHANGED <<state, chan, plock, lock, cproc, spc, pc, widx, yielded,
                 parent, pid, killed, nextpid>>

(* Mutation: wait() looks at the child without acquiring pp->lock. *)
WaitReapUnlocked(c, p) ==
  LET pp == idx[p] IN
  /\ At(c, p, "wait_scan")
  /\ pp < NPROC
  /\ parent[pp] = p
  /\ state[pp] = "ZOMBIE"
  /\ FreeProc(pp)
  /\ ReleaseWaitLock
  /\ Goto(p, "user")
  /\ UNCHANGED <<plock, cproc, spc, widx, yielded, nextpid, idx, havekids>>

(* ... one that has: freeproc(pp), release both locks, return its pid; or   *)
(* leave it, when copyout() of its exit status fails ...                    *)
WaitReap(c, p) ==
  LET pp == idx[p] IN
  /\ At(c, p, "wait_scan")
  /\ pp < NPROC
  /\ parent[pp] = p
  /\ plock[pp] = NoCPU
  /\ state[pp] = "ZOMBIE"
  /\ FreeProc(pp) \/ UNCHANGED <<pid, parent, chan, killed, state>>
  /\ ReleaseWaitLock
  /\ Goto(p, "user")
  /\ UNCHANGED <<plock, cproc, spc, widx, yielded, nextpid, idx, havekids>>

(* ... end of the scan: no children, or killed(p): return -1 ... *)
WaitFail(c, p) ==
  /\ At(c, p, "wait_scan")
  /\ idx[p] = NPROC
  /\ ~ havekids[p] \/ (plock[p] = NoCPU /\ killed[p])
  /\ ReleaseWaitLock
  /\ Goto(p, "user")
  /\ UNCHANGED <<state, chan, plock, cproc, spc, widx, yielded>>
  /\ UNCHANGED procVars

(* ... otherwise sleep(p, &wait_lock) and scan again. *)
WaitSleep(c, p) ==
  /\ At(c, p, "wait_scan")
  /\ idx[p] = NPROC
  /\ havekids[p]
  /\ plock[p] = NoCPU
  /\ ~ killed[p]
  /\ Goto(p, "sleep_lock_proc")
  /\ UNCHANGED <<state, chan, plock, lock, cproc, spc, widx, yielded>>
  /\ UNCHANGED procVars

-----------------------------------------------------------------------------
(* kill(n): the slot q that its search finds with pid n.  The slots it      *)
(* passes are locked and unlocked without effect.  n may be 0, the pid of   *)
(* UNUSED slots: the process next made in such a slot is born killed.       *)
Kill(c, p, q) ==
  /\ At(c, p, "user") /\ ~ killed[p]
  /\ q # Initproc
  /\ plock[q] = NoCPU
  /\ killed' = [killed EXCEPT ![q] = TRUE]
  /\ state' = [state EXCEPT ![q] = IF @ = "SLEEPING" THEN "RUNNABLE" ELSE @]
  /\ UNCHANGED <<chan, plock, lock, cproc, spc, pc, widx, yielded,
                 parent, pid, nextpid, idx, havekids>>

-----------------------------------------------------------------------------
ForkStep(c, p) ==
  \/ Fork(c, p) \/ ForkScan(c, p) \/ ForkAlloc(c, p) \/ ForkNoMemory(c, p)
  \/ ForkParent(c, p) \/ ForkRun(c, p)

ExitStep(c, p) ==
  \/ Exit(c, p) \/ Reparent(c, p) \/ WakeInit(c, p) \/ WakeInitDone(c, p)
  \/ ReparentDone(c, p) \/ WakeParent(c, p) \/ ExitZombie(c, p)
  \/ ExitRelease(c, p) \/ ExitSched(c, p)

WaitStep(c, p) ==
  \/ Wait(c, p) \/ WaitTop(c, p) \/ WaitScan(c, p) \/ WaitReap(c, p)
  \/ WaitFail(c, p) \/ WaitSleep(c, p)
  \/ Sleep(c, p, p, wait_lock, "wait_top") /\ UNCHANGED procVars

Dispatch(c, p) == Schedule(c, p) /\ UNCHANGED procVars

Return(c) == SwtchReturn(c) /\ UNCHANGED procVars

Preempt(c, p) == Yield(c, p) /\ UNCHANGED procVars

Resume(c, p) == YieldReturn(c, p) /\ UNCHANGED procVars

KillStep(c, p) == \E q \in Procs : Kill(c, p, q)

Next ==
  \E c \in CPU :
    \/ Return(c)
    \/ \E p \in Procs :
         \/ ForkStep(c, p) \/ ExitStep(c, p) \/ WaitStep(c, p) \/ KillStep(c, p)
         \/ Dispatch(c, p) \/ Preempt(c, p) \/ Resume(c, p)

Spec == Init /\ [][Next]_vars

-----------------------------------------------------------------------------
(* p sleeps in wait(). *)
Waiting(p) == state[p] = "SLEEPING" /\ chan[p] = p

Children(p) == {q \in Procs : parent[q] = p}

(* A process asleep in wait() has a child, and if a child of it is already a *)
(* zombie then somebody is about to wake it: an exiting process that has     *)
(* just handed the zombie over to init and is still ahead of init in its     *)
(* wakeup loop.  An exit between wait()'s scan and its sleep, or a child     *)
(* inherited while asleep, is never missed.                                  *)
NoMissedExit ==
  \A p \in Procs : Waiting(p) =>
    /\ Children(p) # {}
    /\ (\E q \in Children(p) : state[q] = "ZOMBIE") =>
         p = Initproc /\ \E r \in Procs : pc[r] = "wake_init" /\ widx[r] <= p

(* A process always has a parent that can still wait() for it: exit() hands  *)
(* its children to init before it becomes a zombie, also those being born.   *)
ParentAlive ==
  \A q \in Procs :
    /\ parent[q] # NoProc => state[parent[q]] \notin {"UNUSED", "USED", "ZOMBIE"}
    /\ state[q] \in {"RUNNABLE", "RUNNING", "SLEEPING", "ZOMBIE"} /\ q # Initproc
         => parent[q] # NoProc

(* wait() frees a child only when no CPU is on its kernel stack any more: a  *)
(* slot that is current on a CPU is neither UNUSED nor being set up anew,    *)
(* and it is current on that CPU only.                                       *)
FreedOffCPU ==
  /\ \A c \in CPU : cproc[c] # NoProc => state[cproc[c]] \notin {"UNUSED", "USED"}
  /\ \A c, d \in CPU : cproc[c] # NoProc /\ cproc[c] = cproc[d] => c = d

(* None of the panics of sched() can fire, in sleep() or exit(), and a       *)
(* zombie that has switched away is never run again ("zombie exit").         *)
NoPanic ==
  \A c \in CPU, p \in Procs :
    OnCPU(c, p) /\ ~ yielded[p] =>
      /\ pc[p] = "sleep_sched" => SchedChecks(c, p, "SLEEPING")
      /\ pc[p] = "exit_sched" => SchedChecks(c, p, "ZOMBIE")
      /\ pc[p] # "zombie"

==============================================================================
