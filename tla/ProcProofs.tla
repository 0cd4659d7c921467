------------------------------- MODULE ProcProofs -------------------------------
(***************************************************************************)
(* Proofs about Proc, for every number of CPUs and slots.  First: who holds*)
(* the locks, on which CPU a process runs, and what its state says of where*)
(* it is.  Then the process tree: no process has a dead parent, and no     *)
(* parent sleeps in wait() through the exit() of a child.                  *)
(***************************************************************************)
EXTENDS Proc, FiniteSetTheorems, TLAPS

(* The parts of TypeOK that the argument needs: pids play no part in it. *)
TypeInv ==
  /\ state \in [Procs -> {"UNUSED", "USED", "SLEEPING", "RUNNABLE", "RUNNING", "ZOMBIE"}]
  /\ chan \in [Procs -> Procs \cup {NoChan}]
  /\ plock \in [Procs -> CPU \cup {NoCPU}]
  /\ lock \in [Lock -> CPU \cup {NoCPU}]
  /\ cproc \in [CPU -> Procs \cup {NoProc}]
  /\ spc \in [CPU -> {"scan", "swtch", "back"}]
  /\ pc \in [Procs -> Labels]
  /\ widx \in [Procs -> 0 .. NPROC]
  /\ yielded \in [Procs -> BOOLEAN]
  /\ parent \in [Procs -> Procs \cup {NoProc}]
  /\ idx \in [Procs -> 0 .. NPROC]
  /\ havekids \in [Procs -> BOOLEAN]

(* Where p has its own p->lock, and where it has wait_lock. *)
PlockLabels == {"sleep_release", "sleep_sched", "sleep_tidy", "exit_release", "exit_sched"}
WaitLockLabels == {"wait_top", "wait_scan", "reparent", "wake_init", "wake_parent",
                   "exit_release", "sleep_lock_proc", "sleep_release"}

(* A CPU holds p->lock exactly while it runs p where the code holds it, or   *)
(* is switching away from p; and p is current on one CPU at most.            *)
SwitchInv ==
  /\ \A c \in CPU : spc[c] = "scan" <=> cproc[c] = NoProc
  /\ \A c, d \in CPU : cproc[c] # NoProc /\ cproc[c] = cproc[d] => c = d
  /\ \A c \in CPU : \A p \in Procs : plock[p] = c => cproc[c] = p
  /\ \A c \in CPU : \A p \in Procs :
       cproc[c] = p =>
         (plock[p] = c <=> (spc[c] = "back" \/ yielded[p] \/ pc[p] \in PlockLabels))

(* What p->state says of where p is. *)
StateOf(p) ==
  /\ state[p] = "UNUSED" => pc[p] \in {"user", "zombie"} /\ parent[p] = NoProc
  /\ state[p] = "USED" => pc[p] = "user" /\ yielded[p]
  /\ state[p] \in {"UNUSED", "USED"} => \A c \in CPU : cproc[c] # p
  /\ state[p] = "RUNNABLE" => yielded[p] \/ pc[p] = "sleep_tidy"
  /\ state[p] = "SLEEPING" => pc[p] = "sleep_tidy" /\ ~ yielded[p] /\ chan[p] = p
  /\ state[p] = "ZOMBIE" => pc[p] \in {"exit_release", "exit_sched", "zombie"}
  /\ pc[p] \in {"exit_release", "exit_sched"} => state[p] = "ZOMBIE"
  /\ pc[p] = "zombie" => state[p] \in {"ZOMBIE", "UNUSED"}
  /\ yielded[p] => pc[p] \notin PlockLabels \cup WaitLockLabels \cup {"zombie"}
  /\ \A c \in CPU : OnCPU(c, p) =>
       \/ state[p] = "RUNNING"
       \/ state[p] = "ZOMBIE" /\ pc[p] \in {"exit_release", "exit_sched"}

StateInv == \A p \in Procs : StateOf(p)

(* Who is RUNNING, or on the way out of exit(), is on a CPU. *)
RunInv ==
  \A p \in Procs : state[p] = "RUNNING" \/ pc[p] \in {"exit_release", "exit_sched"} =>
    \E c \in CPU : OnCPU(c, p)

(* wait_lock is held by the CPU that runs a process at one of its labels. *)
WaitLockInv ==
  /\ \A c \in CPU : lock[wait_lock] = c =>
       spc[c] = "swtch" /\ cproc[c] # NoProc /\ pc[cproc[c]] \in WaitLockLabels
  /\ \A p \in Procs : pc[p] \in WaitLockLabels =>
       \E c \in CPU : OnCPU(c, p) /\ lock[wait_lock] = c

(* The slot fork() has taken is its own until it is RUNNABLE. *)
ForkInv ==
  \A p \in Procs : pc[p] \in {"fork_parent", "fork_run"} =>
    /\ idx[p] \in Procs
    /\ state[idx[p]] = "USED"
    /\ parent[idx[p]] = IF pc[p] = "fork_parent" THEN NoProc ELSE p
    /\ \A q \in Procs : q # p /\ pc[q] \in {"fork_parent", "fork_run"} => idx[q] # idx[p]

SwitchInd == TypeInv /\ SwitchInv /\ StateInv /\ RunInv /\ WaitLockInv /\ ForkInv

-----------------------------------------------------------------------------
(* The steps of CPU c that concern p. *)
AnyStep(c, p) ==
  \/ ForkStep(c, p) \/ ExitStep(c, p) \/ WaitStep(c, p) \/ KillStep(c, p)
  \/ Dispatch(c, p) \/ Preempt(c, p) \/ Resume(c, p) \/ Return(c)

(* A step in which p, running, goes on in its code: it keeps its state, its   *)
(* CPU and its p->lock, and takes or drops wait_lock as it comes to a label  *)
(* that has it or leaves the last one.                                       *)
Moves(c, p) ==
  /\ OnCPU(c, p) /\ ~ yielded[p]
  /\ UNCHANGED <<state, chan, plock, cproc, spc, yielded>>
  /\ pc[p] \notin PlockLabels \cup {"zombie"} /\ pc'[p] \notin PlockLabels \cup {"zombie"}
  /\ \A q \in Procs \ {p} : pc'[q] = pc[q] /\ idx'[q] = idx[q]
  /\ pc'[p] \in {"fork_parent", "fork_run"} => ForkParent(c, p)
  /\ UNCHANGED parent \/ ForkParent(c, p) \/ Reparent(c, p)
  /\ \/ UNCHANGED lock /\ (pc'[p] \in WaitLockLabels <=> pc[p] \in WaitLockLabels)
     \/ AcquireWaitLock(c) /\ pc'[p] \in WaitLockLabels
     \/ ReleaseWaitLock /\ pc[p] \in WaitLockLabels /\ pc'[p] \notin WaitLockLabels

(* A step of a wakeup() or kill(): at most, sleepers become RUNNABLE. *)
Wakes(c, p) ==
  /\ OnCPU(c, p)
  /\ UNCHANGED <<chan, plock, lock, cproc, spc, pc, yielded, parent, idx>>
  /\ \A q \in Procs :
       state'[q] = state[q] \/ (state[q] = "SLEEPING" /\ state'[q] = "RUNNABLE")

(* The other steps change more: each is a case of its own. *)
Step(c, p) ==
  \/ Moves(c, p) \/ Wakes(c, p)
  \/ ForkAlloc(c, p) \/ ForkNoMemory(c, p) \/ ForkRun(c, p)
  \/ ExitZombie(c, p) \/ ExitRelease(c, p) \/ ExitSched(c, p)
  \/ WaitReap(c, p)
  \/ SleepLockProc(c, p) /\ UNCHANGED procVars
  \/ SleepRelease(c, p, wait_lock) /\ UNCHANGED procVars
  \/ SleepSched(c, p, p) /\ UNCHANGED procVars
  \/ SleepTidy(c, p) /\ UNCHANGED procVars
  \/ Dispatch(c, p) \/ Preempt(c, p) \/ Resume(c, p) \/ Return(c)

(* The leaves are mostly reasoning about sets; the ones that are not say so. *)
USE ZenonT(60)

(* The table's indices. *)
LEMMA Indices ==
  /\ Initproc \in Procs /\ 0 \in 0 .. NPROC /\ NPROC \in 0 .. NPROC
  /\ \A i \in Procs : i \in Nat /\ i \in 0 .. NPROC /\ i + 1 \in 0 .. NPROC /\ i < NPROC /\ i # NPROC
  /\ \A i \in 0 .. NPROC : i \in Nat /\ (i # NPROC => i \in Procs) /\ (i < NPROC => i \in Procs)
  /\ \A i \in Procs, j \in 0 .. NPROC : i < j + 1 <=> i < j \/ i = j
  /\ NoProc \notin Procs
  BY SchedAssumption, SMTT(30) DEF Initproc, Procs

(* wait_lock is held by one process at most, and by none when it is free. *)
LEMMA WaitLockUnique ==
  ASSUME SwitchInd
  PROVE  /\ \A p, q \in Procs : pc[p] \in WaitLockLabels /\ pc[q] \in WaitLockLabels => p = q
         /\ lock[wait_lock] = NoCPU => \A q \in Procs : pc[q] \notin WaitLockLabels
  BY SchedAssumption, SMTT(30) DEF SwitchInd, WaitLockInv, SwitchInv, OnCPU

(* A process that executes is RUNNING, except at the end of exit(). *)
LEMMA Running ==
  ASSUME SwitchInd, NEW c \in CPU, NEW p \in Procs, OnCPU(c, p),
         pc[p] \notin {"exit_release", "exit_sched"}
  PROVE  state[p] = "RUNNING" /\ pc[p] # "zombie"
  BY DEF SwitchInd, StateInv, StateOf

(* A process whose p->lock is free is neither about to switch in sleep() nor *)
(* in exit(), and is current nowhere once it is a zombie.                    *)
LEMMA Unlocked ==
  ASSUME SwitchInd, NEW p \in Procs, plock[p] = NoCPU
  PROVE  /\ pc[p] \notin {"sleep_sched", "exit_release", "exit_sched"}
         /\ state[p] = "ZOMBIE" => \A c \in CPU : cproc[c] # p
<1>inv. TypeInv /\ SwitchInv /\ StateInv /\ RunInv
  BY DEF SwitchInd
<1> USE <1>inv
<1> USE SchedAssumption
<1>1. ASSUME NEW c \in CPU, cproc[c] = p
      PROVE  spc[c] = "swtch" /\ ~ yielded[p] /\ pc[p] \notin PlockLabels
  BY <1>1, Indices, SMTT(30) DEF SwitchInv, TypeInv
<1>2. pc[p] = "sleep_sched" => state[p] = "RUNNING"
  BY SMTT(30) DEF StateInv, StateOf, TypeInv, PlockLabels
<1>3. pc[p] \notin {"sleep_sched", "exit_release", "exit_sched"}
  BY <1>1, <1>2 DEF RunInv, OnCPU, PlockLabels
<1>4. ASSUME NEW c \in CPU, cproc[c] = p, state[p] = "ZOMBIE" PROVE FALSE
  BY <1>1, <1>3, <1>4 DEF StateInv, StateOf, OnCPU
<1> QED
  BY <1>3, <1>4

(* A timer interrupt is taken where p holds no lock. *)
LEMMA Preempted ==
  ASSUME SwitchInd, NEW c \in CPU, NEW p \in Procs, Preempt(c, p)
  PROVE  state[p] = "RUNNING" /\ pc[p] \notin PlockLabels \cup WaitLockLabels \cup {"zombie"}
<1>inv. TypeInv /\ SwitchInv /\ StateInv /\ WaitLockInv
  BY DEF SwitchInd
<1> USE <1>inv
<1> USE SchedAssumption, ProcAssumption DEF Preempt, Yield, OnCPU, HeldPlocks, HeldLocks
<1>1. pc[p] \notin PlockLabels
  BY DEF SwitchInv
<1>2. pc[p] \notin WaitLockLabels
  BY SMTT(30) DEF WaitLockInv, SwitchInv
<1> QED
  BY <1>1, <1>2, Running DEF PlockLabels

(* Every step of CPU c that concerns p is one of these: fork(), exit(),       *)
(* wait() and kill() change little in most of their steps.                   *)
LEMMA StepCases ==
  ASSUME SwitchInd, NEW c \in CPU, NEW p \in Procs, AnyStep(c, p)
  PROVE  Step(c, p)
<1>inv. TypeInv
  BY DEF SwitchInd
<1> USE <1>inv
<1> USE DEF TypeInv, At, Goto, Moves, PlockLabels, WaitLockLabels
<1>1. CASE Fork(c, p)
  BY <1>1 DEF Step, Fork, SetIdx
<1>2. CASE ForkScan(c, p)
  BY <1>2 DEF Step, ForkScan, SetIdx
<1>3. CASE ForkParent(c, p)
  BY <1>3 DEF Step, ForkParent
<1>4. CASE Exit(c, p)
  BY <1>4 DEF Step, Exit, SetIdx
<1>5. CASE Reparent(c, p)
  BY <1>5 DEF Step, Reparent, SetIdx
<1>6. CASE WakeInitDone(c, p)
  BY <1>6 DEF Step, WakeInitDone, procVars
<1>7. CASE ReparentDone(c, p)
  BY <1>7 DEF Step, ReparentDone, procVars
<1>8. CASE Wait(c, p)
  BY <1>8 DEF Step, Wait, procVars
<1>9. CASE WaitTop(c, p)
  BY <1>9 DEF Step, WaitTop, SetIdx
<1>10. CASE WaitScan(c, p)
  BY <1>10 DEF Step, WaitScan, SetIdx
<1>11. CASE WaitFail(c, p)
  BY <1>11 DEF Step, WaitFail, procVars
<1>12. CASE WaitSleep(c, p)
  BY <1>12 DEF Step, WaitSleep, procVars
<1>13. CASE SleepReacquire(c, p, wait_lock, "wait_top") /\ UNCHANGED procVars
  BY <1>13 DEF Step, SleepReacquire, AcquireWaitLock, procVars
<1>14. CASE WakeInit(c, p)
  BY <1>14 DEF Step, Wakes, WakeInit, WakeupStep, WakeupBody, procVars
<1>15. CASE WakeParent(c, p)
  BY <1>15 DEF Step, Wakes, WakeParent, WakeupStep, WakeupBody, procVars
<1>16. CASE KillStep(c, p)
  BY <1>16 DEF Step, Wakes, KillStep, Kill
<1> QED
  BY <1>1, <1>2, <1>3, <1>4, <1>5, <1>6, <1>7, <1>8, <1>9, <1>10, <1>11, <1>12, <1>13, <1>14, <1>15, <1>16
     DEF AnyStep, Step, ForkStep, ExitStep, WaitStep, Sleep

(* Every step keeps the variables in range: no loop over the table leaves it. *)
LEMMA TypeInvStep ==
  ASSUME SwitchInd, NEW c \in CPU, NEW p \in Procs, AnyStep(c, p)
  PROVE  TypeInv'
<1>inv. TypeInv /\ SwitchInv /\ ForkInv
  BY DEF SwitchInd
<1> USE <1>inv
<1> USE SchedAssumption, ProcAssumption, Indices DEF At, OnCPU, Goto
<1>1. CASE Fork(c, p)
  BY <1>1 DEF Fork, SetIdx, TypeInv, Labels
<1>2. CASE ForkScan(c, p)
  BY <1>2, SMTT(30) DEF ForkScan, SetIdx, TypeInv, Labels
<1>3. CASE ForkAlloc(c, p)
  BY <1>3 DEF ForkAlloc, TypeInv, Labels
<1>4. CASE ForkNoMemory(c, p)
  BY <1>4 DEF ForkNoMemory, FreeProc, TypeInv, Labels
<1>5. CASE ForkParent(c, p)
  BY <1>5 DEF ForkParent, TypeInv, Labels
<1>6. CASE ForkRun(c, p)
  BY <1>6 DEF ForkRun, TypeInv, Labels
<1>7. CASE Exit(c, p)
  BY <1>7 DEF Exit, AcquireWaitLock, SetIdx, TypeInv, Labels
<1>8. CASE Reparent(c, p)
  <2>0. idx' \in [Procs -> 0 .. NPROC] /\ idx[p] \in Procs
    BY <1>8 DEF Reparent, SetIdx, TypeInv
  <2>1. CASE parent[idx[p]] = p
    <3>1. pc' \in [Procs -> Labels]
      BY <1>8, <2>1 DEF Reparent, TypeInv, Labels
    <3>3. widx' \in [Procs -> 0 .. NPROC]
      BY <1>8, <2>1, SMTT(30) DEF Reparent, TypeInv
    <3>2. parent' \in [Procs -> Procs \cup {NoProc}] /\ havekids' \in [Procs -> BOOLEAN]
      <4>1. parent' = [parent EXCEPT ![idx[p]] = Initproc] /\ havekids' = havekids
        BY <1>8, <2>1 DEF Reparent
      <4> QED
        BY <4>1, Indices DEF TypeInv
    <3> QED
      BY <1>8, <2>0, <3>1, <3>2, <3>3 DEF Reparent, TypeInv
  <2>2. CASE parent[idx[p]] # p
    BY <1>8, <2>2 DEF Reparent, SetIdx, TypeInv, Labels
  <2> QED
    BY <2>1, <2>2
<1>9. CASE WakeInit(c, p)
  BY <1>9, SMTT(30) DEF WakeInit, WakeupStep, WakeupBody, procVars, TypeInv, Labels
<1>10. CASE WakeInitDone(c, p)
  BY <1>10 DEF WakeInitDone, procVars, TypeInv, Labels
<1>11. CASE ReparentDone(c, p)
  BY <1>11 DEF ReparentDone, procVars, TypeInv, Labels
<1>12. CASE WakeParent(c, p)
  BY <1>12, SMTT(30) DEF WakeParent, WakeupStep, WakeupBody, procVars, TypeInv, Labels
<1>13. CASE ExitZombie(c, p)
  BY <1>13 DEF ExitZombie, procVars, TypeInv, Labels
<1>14. CASE ExitRelease(c, p)
  BY <1>14 DEF ExitRelease, ReleaseWaitLock, procVars, TypeInv, Labels
<1>15. CASE ExitSched(c, p)
  BY <1>15 DEF ExitSched, sched, procVars, TypeInv, Labels
<1>16. CASE Wait(c, p)
  BY <1>16 DEF Wait, AcquireWaitLock, procVars, TypeInv, Labels
<1>17. CASE WaitTop(c, p)
  BY <1>17 DEF WaitTop, SetIdx, TypeInv, Labels
<1>18. CASE WaitScan(c, p)
  <2>0. idx' \in [Procs -> 0 .. NPROC] /\ idx[p] \in Procs
    BY <1>18 DEF WaitScan, SetIdx, TypeInv
  <2>1. CASE parent[idx[p]] = p
    <3>1. pc' \in [Procs -> Labels] /\ widx' \in [Procs -> 0 .. NPROC]
      BY <1>18, <2>1 DEF WaitScan, TypeInv, Labels
    <3>2. parent' \in [Procs -> Procs \cup {NoProc}] /\ havekids' \in [Procs -> BOOLEAN]
      BY <1>18, <2>0, <2>1 DEF WaitScan, TypeInv
    <3> QED
      BY <1>18, <2>0, <3>1, <3>2 DEF WaitScan, TypeInv
  <2>2. CASE parent[idx[p]] # p
    BY <1>18, <2>2 DEF WaitScan, SetIdx, TypeInv, Labels
  <2> QED
    BY <2>1, <2>2
<1>19. CASE WaitReap(c, p)
  <2>1. CASE FreeProc(idx[p])
    BY <1>19, <2>1 DEF WaitReap, FreeProc, ReleaseWaitLock, TypeInv, Labels
  <2>2. CASE UNCHANGED <<pid, parent, chan, killed, state>>
    BY <1>19, <2>2 DEF WaitReap, ReleaseWaitLock, TypeInv, Labels
  <2> QED
    BY <1>19, <2>1, <2>2 DEF WaitReap
<1>20. CASE WaitFail(c, p)
  BY <1>20 DEF WaitFail, ReleaseWaitLock, procVars, TypeInv, Labels
<1>21. CASE WaitSleep(c, p)
  BY <1>21 DEF WaitSleep, procVars, TypeInv, Labels
<1>22. CASE SleepLockProc(c, p) /\ UNCHANGED procVars
  BY <1>22 DEF SleepLockProc, procVars, TypeInv, Labels
<1>23. CASE SleepRelease(c, p, wait_lock) /\ UNCHANGED procVars
  BY <1>23 DEF SleepRelease, procVars, TypeInv, Labels
<1>24. CASE SleepSched(c, p, p) /\ UNCHANGED procVars
  BY <1>24 DEF SleepSched, sched, procVars, TypeInv, Labels
<1>25. CASE SleepTidy(c, p) /\ UNCHANGED procVars
  BY <1>25 DEF SleepTidy, procVars, TypeInv, Labels
<1>26. CASE SleepReacquire(c, p, wait_lock, "wait_top") /\ UNCHANGED procVars
  BY <1>26 DEF SleepReacquire, procVars, TypeInv, Labels
<1>27. CASE KillStep(c, p)
  BY <1>27, SMTT(30) DEF KillStep, Kill, TypeInv, Labels
<1>28. CASE Dispatch(c, p)
  BY <1>28 DEF Dispatch, Schedule, procVars, TypeInv, Labels
<1>29. CASE Preempt(c, p)
  BY <1>29 DEF Preempt, Yield, sched, procVars, TypeInv, Labels
<1>30. CASE Resume(c, p)
  BY <1>30 DEF Resume, YieldReturn, procVars, TypeInv, Labels
<1>31. CASE Return(c)
  BY <1>31 DEF Return, SwtchReturn, procVars, TypeInv, Labels
<1> QED
  BY <1>1, <1>2, <1>3, <1>4, <1>5, <1>6, <1>7, <1>8, <1>9, <1>10, <1>11, <1>12, <1>13, <1>14, <1>15, <1>16, <1>17, <1>18, <1>19, <1>20, <1>21, <1>22, <1>23, <1>24, <1>25, <1>26, <1>27, <1>28, <1>29, <1>30, <1>31
     DEF AnyStep, ForkStep, ExitStep, WaitStep, Sleep

(* What keeps SwitchInv: nobody comes to hold or to drop its p->lock. *)
LEMMA SwitchFrame ==
  ASSUME SwitchInv, UNCHANGED <<plock, cproc, spc, yielded>>,
         \A q \in Procs : pc'[q] \in PlockLabels <=> pc[q] \in PlockLabels
  PROVE  SwitchInv'
  BY DEF SwitchInv

(* Every step keeps p->lock with the CPU that runs or leaves p. *)
LEMMA SwitchInvStep ==
  ASSUME SwitchInd, NEW c \in CPU, NEW p \in Procs, Step(c, p)
  PROVE  SwitchInv'
<1>inv. TypeInv /\ SwitchInv /\ StateInv
  BY DEF SwitchInd
<1> USE <1>inv
<1> USE SchedAssumption, Indices DEF At, OnCPU, Goto
<1>1. CASE Moves(c, p) \/ Wakes(c, p)
  BY <1>1, SwitchFrame DEF Moves, Wakes
<1>2. CASE ForkAlloc(c, p)
  BY <1>2, SMTT(30) DEF ForkAlloc, TypeInv, SwitchInv, StateInv, StateOf, PlockLabels
<1>3. CASE ForkNoMemory(c, p)
  BY <1>3, SwitchFrame DEF ForkNoMemory, TypeInv, PlockLabels
<1>4. CASE ForkRun(c, p)
  BY <1>4, SwitchFrame DEF ForkRun, TypeInv, PlockLabels
<1>5. CASE ExitZombie(c, p)
  BY <1>5, SMTT(30) DEF ExitZombie, TypeInv, SwitchInv, PlockLabels
<1>6. CASE ExitRelease(c, p)
  BY <1>6, SwitchFrame DEF ExitRelease, TypeInv, PlockLabels
<1>7. CASE ExitSched(c, p)
  BY <1>7, SMTT(30) DEF ExitSched, sched, TypeInv, SwitchInv, PlockLabels
<1>8. CASE WaitReap(c, p)
  BY <1>8, SwitchFrame DEF WaitReap, TypeInv, PlockLabels
<1>9. CASE SleepLockProc(c, p)
  BY <1>9, SMTT(30) DEF SleepLockProc, TypeInv, SwitchInv, PlockLabels
<1>10. CASE SleepRelease(c, p, wait_lock)
  BY <1>10, SwitchFrame DEF SleepRelease, TypeInv, PlockLabels
<1>11. CASE SleepSched(c, p, p)
  BY <1>11, SMTT(30) DEF SleepSched, sched, TypeInv, SwitchInv, PlockLabels
<1>12. CASE SleepTidy(c, p)
  BY <1>12, SMTT(30) DEF SleepTidy, TypeInv, SwitchInv, PlockLabels
<1>13. CASE Dispatch(c, p)
  <2>1. \A d \in CPU : cproc[d] # p
    BY <1>13, SMTT(30) DEF Dispatch, Schedule, TypeInv, SwitchInv, StateInv, StateOf
  <2>2. yielded[p] \/ pc[p] \in PlockLabels
    BY <1>13 DEF Dispatch, Schedule, StateInv, StateOf, PlockLabels
  <2>3. /\ cproc[c] = NoProc /\ UNCHANGED <<pc, yielded>>
        /\ cproc'[c] = p /\ spc'[c] = "swtch" /\ plock'[p] = c
    BY <1>13, SMTT(30) DEF Dispatch, Schedule, TypeInv, SwitchInv
  <2>4. /\ \A d \in CPU \ {c} : cproc'[d] = cproc[d] /\ spc'[d] = spc[d]
        /\ \A q \in Procs \ {p} : plock'[q] = plock[q]
    BY <1>13 DEF Dispatch, Schedule, TypeInv
  <2> QED
    BY <2>1, <2>2, <2>3, <2>4, SMTT(30) DEF SwitchInv
<1>14. CASE Preempt(c, p)
  BY <1>14, SMTT(30) DEF Preempt, Yield, sched, TypeInv, SwitchInv
<1>15. CASE Resume(c, p)
  BY <1>15, SMTT(30) DEF Resume, YieldReturn, TypeInv, SwitchInv, StateInv, StateOf
<1>16. CASE Return(c)
  BY <1>16, SMTT(30) DEF Return, SwtchReturn, TypeInv, SwitchInv
<1> QED
  BY <1>1, <1>2, <1>3, <1>4, <1>5, <1>6, <1>7, <1>8, <1>9, <1>10, <1>11, <1>12, <1>13,
     <1>14, <1>15, <1>16 DEF Step

(* A process that a step leaves alone stays as StateOf says. *)
LEMMA StateKept ==
  ASSUME NEW q \in Procs, StateOf(q),
         state'[q] = state[q], chan'[q] = chan[q], parent'[q] = parent[q],
         yielded'[q] = yielded[q], pc'[q] = pc[q],
         \A d \in CPU : cproc'[d] = q => cproc[d] = q,
         \A d \in CPU : OnCPU(d, q)' => OnCPU(d, q)
  PROVE  StateOf(q)'
  BY DEF StateOf

(* A process that goes on RUNNING at a label of its own stays so too. *)
LEMMA StateRunning ==
  ASSUME NEW q \in Procs, state'[q] = "RUNNING", ~ yielded'[q],
         pc'[q] \notin {"exit_release", "exit_sched", "zombie"}
  PROVE  StateOf(q)'
  BY DEF StateOf

(* Every step keeps p->state true to where p is: a zombie is freed, and a     *)
(* sleeper made RUNNABLE, only when it has left its CPU.                     *)
LEMMA StateInvStep ==
  ASSUME SwitchInd, NEW c \in CPU, NEW p \in Procs, Step(c, p)
  PROVE  StateInv'
<1>inv. TypeInv /\ SwitchInv /\ StateInv /\ RunInv /\ WaitLockInv /\ ForkInv
  BY DEF SwitchInd
<1> USE <1>inv
<1> USE SchedAssumption, Indices
<1> SUFFICES ASSUME NEW q \in Procs PROVE StateOf(q)'
  BY DEF StateInv
<1>0. StateOf(q) /\ StateOf(p)
  BY DEF StateInv
<1>1. CASE Moves(c, p)
  <2>1. state[p] = "RUNNING"
    BY <1>1, Running DEF Moves, PlockLabels
  <2>2. CASE q = p
    BY <1>1, <2>1, <2>2, StateRunning DEF Moves, PlockLabels
  <2>3. CASE q # p
    <3>1. ForkParent(c, p) /\ state[q] = "UNUSED" => parent'[q] = parent[q]
      BY SMTT(30) DEF ForkParent, ForkInv, At, TypeInv
    <3>2. Reparent(c, p) /\ state[q] = "UNUSED" => parent'[q] = parent[q]
      BY <1>0 DEF Reparent, TypeInv, StateOf
    <3>3. state[q] = "UNUSED" => parent'[q] = parent[q]
      BY <1>1, <3>1, <3>2 DEF Moves
    <3> QED
      BY <1>0, <1>1, <2>3, <3>3 DEF Moves, StateOf, OnCPU
  <2> QED
    BY <2>2, <2>3
<1>2. CASE Wakes(c, p)
  BY <1>0, <1>2 DEF Wakes, StateOf, OnCPU
<1>3. CASE ForkAlloc(c, p)
  <2>1. /\ state[p] = "RUNNING" /\ idx[p] \in Procs /\ state[idx[p]] = "UNUSED"
        /\ UNCHANGED <<chan, parent, cproc, spc>>
    <3>1. state[p] = "RUNNING"
      BY <1>3, Running DEF ForkAlloc, At
    <3> QED
      BY <1>3, <3>1, Indices DEF ForkAlloc, TypeInv
  <2>2. CASE q = p
    BY <1>3, <2>1, <2>2, StateRunning DEF ForkAlloc, At, TypeInv
  <2>3. CASE q = idx[p]
    <3>1. q # p /\ state'[q] = "USED" /\ pc'[q] = "user" /\ yielded'[q]
      BY <1>3, <2>1, <2>3 DEF ForkAlloc, TypeInv
    <3> QED
      BY <1>0, <2>1, <2>3, <3>1 DEF StateOf, PlockLabels, WaitLockLabels, OnCPU
  <2>4. CASE q \notin {p, idx[p]}
    BY <1>0, <1>3, <2>1, <2>4, StateKept DEF ForkAlloc, TypeInv, OnCPU
  <2> QED
    BY <2>2, <2>3, <2>4
<1>4. CASE ForkNoMemory(c, p)
  <2>1. /\ state[p] = "RUNNING" /\ idx[p] \in Procs /\ state[idx[p]] = "UNUSED"
        /\ UNCHANGED <<yielded, cproc, spc>>
    <3>1. state[p] = "RUNNING"
      BY <1>4, Running DEF ForkNoMemory, At
    <3> QED
      BY <1>4, <3>1, Indices DEF ForkNoMemory, TypeInv
  <2>2. CASE q = p
    BY <1>4, <2>1, <2>2, StateRunning DEF ForkNoMemory, FreeProc, At, Goto, TypeInv
  <2>3. CASE q = idx[p]
    <3>1. q # p /\ state'[q] = "UNUSED" /\ pc'[q] = pc[q] /\ parent'[q] = NoProc
      BY <1>4, <2>1, <2>3 DEF ForkNoMemory, FreeProc, Goto, TypeInv
    <3> QED
      BY <1>0, <2>1, <2>3, <3>1 DEF StateOf, OnCPU
  <2>4. CASE q \notin {p, idx[p]}
    BY <1>0, <1>4, <2>1, <2>4, StateKept DEF ForkNoMemory, FreeProc, Goto, TypeInv, OnCPU
  <2> QED
    BY <2>2, <2>3, <2>4
<1>5. CASE ForkRun(c, p)
  <2>1. /\ state[p] = "RUNNING" /\ idx[p] \in Procs /\ state[idx[p]] = "USED"
        /\ UNCHANGED <<chan, parent, yielded, cproc, spc>>
    BY <1>5, Running DEF ForkRun, At, ForkInv
  <2>2. CASE q = p
    BY <1>5, <2>1, <2>2, StateRunning DEF ForkRun, At, Goto, TypeInv
  <2>3. CASE q = idx[p]
    <3>1. q # p /\ state'[q] = "RUNNABLE" /\ pc'[q] = pc[q]
      BY <1>5, <2>1, <2>3 DEF ForkRun, Goto, TypeInv
    <3> QED
      BY <1>0, <2>1, <2>3, <3>1 DEF StateOf, OnCPU
  <2>4. CASE q \notin {p, idx[p]}
    BY <1>0, <1>5, <2>1, <2>4, StateKept DEF ForkRun, Goto, TypeInv, OnCPU
  <2> QED
    BY <2>2, <2>3, <2>4
<1>6. CASE ExitZombie(c, p) \/ ExitRelease(c, p)
  <2>1. UNCHANGED <<chan, parent, yielded, cproc, spc>> /\ ~ yielded[p] /\ OnCPU(c, p)
    BY <1>6 DEF ExitZombie, ExitRelease, At, procVars
  <2>2. /\ pc'[p] \in {"exit_release", "exit_sched"} /\ state'[p] = "ZOMBIE"
        /\ q # p => pc'[q] = pc[q] /\ state'[q] = state[q]
    BY <1>0, <1>6 DEF ExitZombie, ExitRelease, At, Goto, TypeInv, StateOf
  <2>3. CASE q = p
    BY <2>1, <2>2, <2>3 DEF StateOf
  <2>4. CASE q # p
    BY <1>0, <2>1, <2>2, <2>4, StateKept DEF OnCPU
  <2> QED
    BY <2>3, <2>4
<1>7. CASE ExitSched(c, p)
  <2>1. /\ UNCHANGED <<state, chan, parent, yielded, cproc>> /\ ~ yielded[p]
        /\ state[p] = "ZOMBIE" /\ pc'[p] = "zombie" /\ (q # p => pc'[q] = pc[q])
    BY <1>0, <1>7 DEF ExitSched, At, Goto, TypeInv, StateOf, procVars
  <2>2. \A d \in CPU : OnCPU(d, q)' => OnCPU(d, q) /\ q # p
    BY <1>7, SMTT(30) DEF ExitSched, sched, At, OnCPU, TypeInv, SwitchInv
  <2>3. CASE q = p
    BY <2>1, <2>2, <2>3 DEF StateOf
  <2>4. CASE q # p
    BY <1>0, <2>1, <2>2, <2>4, StateKept
  <2> QED
    BY <2>3, <2>4
<1>8. CASE WaitReap(c, p)
  <2>1. /\ state[p] = "RUNNING" /\ idx[p] \in Procs /\ state[idx[p]] = "ZOMBIE"
        /\ UNCHANGED <<yielded, cproc, spc>>
    <3>1. state[p] = "RUNNING"
      BY <1>8, Running DEF WaitReap, At
    <3> QED
      BY <1>8, <3>1, Indices DEF WaitReap, TypeInv
  <2>2. pc[idx[p]] = "zombie" /\ \A d \in CPU : cproc[d] # idx[p]
    BY <1>8, <2>1, Unlocked DEF WaitReap, StateInv, StateOf
  <2>3. pc'[p] = "user" /\ \A r \in Procs \ {p} : pc'[r] = pc[r]
    BY <1>8 DEF WaitReap, Goto, TypeInv
  <2>4. \A r \in Procs \ {idx[p]} :
          state'[r] = state[r] /\ chan'[r] = chan[r] /\ parent'[r] = parent[r]
    BY <1>8, <2>1, SMTT(30) DEF WaitReap, FreeProc, TypeInv
  <2>5. \/ state'[idx[p]] = "UNUSED" /\ parent'[idx[p]] = NoProc
        \/ UNCHANGED <<state, chan, parent>>
    BY <1>8, <2>1, SMTT(30) DEF WaitReap, FreeProc, TypeInv
  <2>6. CASE q = p
    BY <1>8, <2>1, <2>3, <2>4, <2>6, StateRunning DEF WaitReap, At
  <2>7. CASE q = idx[p]
    BY <1>0, <2>1, <2>2, <2>3, <2>5, <2>7 DEF StateOf, OnCPU
  <2>8. CASE q \notin {p, idx[p]}
    BY <1>0, <2>1, <2>3, <2>4, <2>8, StateKept DEF OnCPU
  <2> QED
    BY <2>6, <2>7, <2>8
<1>9. CASE (SleepLockProc(c, p) \/ SleepRelease(c, p, wait_lock)) /\ UNCHANGED procVars
  <2>1. /\ state[p] = "RUNNING" /\ ~ yielded[p]
        /\ UNCHANGED <<state, chan, parent, yielded, cproc, spc>>
    BY <1>9, Running DEF SleepLockProc, SleepRelease, At, procVars
  <2>2. pc'[p] \in {"sleep_release", "sleep_sched"} /\ (q # p => pc'[q] = pc[q])
    BY <1>9 DEF SleepLockProc, SleepRelease, Goto, TypeInv
  <2>3. CASE q = p
    BY <2>1, <2>2, <2>3, StateRunning
  <2>4. CASE q # p
    BY <1>0, <2>1, <2>2, <2>4, StateKept DEF OnCPU
  <2> QED
    BY <2>3, <2>4
<1>10. CASE SleepSched(c, p, p) /\ UNCHANGED procVars
  <2>1. UNCHANGED <<parent, yielded, cproc>> /\ ~ yielded[p]
    BY <1>10 DEF SleepSched, At, procVars
  <2>2. state'[p] = "SLEEPING" /\ pc'[p] = "sleep_tidy" /\ chan'[p] = p
    BY <1>10 DEF SleepSched, Goto, TypeInv
  <2>3. q # p => state'[q] = state[q] /\ pc'[q] = pc[q] /\ chan'[q] = chan[q]
    BY <1>10 DEF SleepSched, Goto, TypeInv
  <2>4. \A d \in CPU : OnCPU(d, q)' => OnCPU(d, q) /\ q # p
    BY <1>10, SMTT(30) DEF SleepSched, sched, At, OnCPU, TypeInv, SwitchInv
  <2>5. CASE q = p
    BY <2>1, <2>2, <2>4, <2>5 DEF StateOf
  <2>6. CASE q # p
    BY <1>0, <2>1, <2>3, <2>4, <2>6, StateKept
  <2> QED
    BY <2>5, <2>6
<1>11. CASE SleepTidy(c, p) /\ UNCHANGED procVars
  <2>1. /\ state[p] = "RUNNING" /\ ~ yielded[p]
        /\ UNCHANGED <<state, parent, yielded, cproc, spc>>
    BY <1>11, Running DEF SleepTidy, At, procVars
  <2>2. pc'[p] = "sleep_reacquire" /\ (q # p => pc'[q] = pc[q] /\ chan'[q] = chan[q])
    BY <1>11 DEF SleepTidy, Goto, TypeInv
  <2>3. CASE q = p
    BY <2>1, <2>2, <2>3, StateRunning
  <2>4. CASE q # p
    BY <1>0, <2>1, <2>2, <2>4, StateKept DEF OnCPU
  <2> QED
    BY <2>3, <2>4
<1>12. CASE Dispatch(c, p)
  <2>1. UNCHANGED <<chan, parent, yielded, pc>> /\ state[p] = "RUNNABLE" /\ state'[p] = "RUNNING"
    BY <1>12 DEF Dispatch, Schedule, procVars, TypeInv
  <2>2. q # p => /\ state'[q] = state[q]
                 /\ \A d \in CPU : cproc'[d] = q => cproc[d] = q
                 /\ \A d \in CPU : OnCPU(d, q)' => OnCPU(d, q)
    BY <1>12 DEF Dispatch, Schedule, OnCPU, TypeInv
  <2>3. CASE q = p
    BY <1>0, <2>1, <2>3 DEF StateOf
  <2>4. CASE q # p
    BY <1>0, <2>1, <2>2, <2>4, StateKept
  <2> QED
    BY <2>3, <2>4
<1>13. CASE Preempt(c, p)
  <2>1. state[p] = "RUNNING" /\ pc[p] \notin PlockLabels \cup WaitLockLabels \cup {"zombie"}
    BY <1>13, Preempted
  <2>2. UNCHANGED <<chan, parent, pc, cproc>> /\ state'[p] = "RUNNABLE" /\ yielded'[p]
    BY <1>13 DEF Preempt, Yield, procVars, TypeInv
  <2>3. q # p => state'[q] = state[q] /\ yielded'[q] = yielded[q]
    BY <1>13 DEF Preempt, Yield, TypeInv
  <2>4. \A d \in CPU : OnCPU(d, q)' => OnCPU(d, q) /\ q # p
    BY <1>13, SMTT(30) DEF Preempt, Yield, sched, OnCPU, TypeInv, SwitchInv
  <2>5. CASE q = p
    BY <1>0, <2>1, <2>2, <2>4, <2>5 DEF StateOf, PlockLabels
  <2>6. CASE q # p
    BY <1>0, <2>2, <2>3, <2>4, <2>6, StateKept
  <2> QED
    BY <2>5, <2>6
<1>14. CASE Resume(c, p)
  <2>1. UNCHANGED <<state, chan, parent, pc, cproc, spc>> /\ ~ yielded'[p] /\ OnCPU(c, p)
    BY <1>14 DEF Resume, YieldReturn, procVars, TypeInv
  <2>2. yielded[p] /\ (q # p => yielded'[q] = yielded[q])
    BY <1>14 DEF Resume, YieldReturn, TypeInv
  <2>3. CASE q = p
    BY <1>0, <2>1, <2>2, <2>3, StateRunning DEF StateOf, PlockLabels
  <2>4. CASE q # p
    BY <1>0, <2>1, <2>2, <2>4, StateKept DEF OnCPU
  <2> QED
    BY <2>3, <2>4
<1>15. CASE Return(c)
  <2>1. UNCHANGED <<state, chan, parent, pc, yielded>>
    BY <1>15 DEF Return, SwtchReturn, procVars
  <2>2. \A d \in CPU : (cproc'[d] = q => cproc[d] = q) /\ (OnCPU(d, q)' => OnCPU(d, q))
    BY <1>15 DEF Return, SwtchReturn, OnCPU, TypeInv
  <2> QED
    BY <1>0, <2>1, <2>2, StateKept
<1> QED
  BY <1>1, <1>2, <1>3, <1>4, <1>5, <1>6, <1>7, <1>8, <1>9, <1>10, <1>11, <1>12, <1>13,
     <1>14, <1>15 DEF Step

(* What keeps RunInv: nobody new runs, and who runs stays on its CPU. *)
LEMMA RunFrame ==
  ASSUME RunInv,
         \A q \in Procs :
           state'[q] = "RUNNING" \/ pc'[q] \in {"exit_release", "exit_sched"} =>
             /\ state[q] = "RUNNING" \/ pc[q] \in {"exit_release", "exit_sched"}
             /\ \A d \in CPU : OnCPU(d, q) => OnCPU(d, q)'
  PROVE  RunInv'
  BY DEF RunInv

(* Every step keeps a RUNNING process on a CPU. *)
LEMMA RunInvStep ==
  ASSUME SwitchInd, NEW c \in CPU, NEW p \in Procs, Step(c, p)
  PROVE  RunInv'
<1>inv. TypeInv /\ SwitchInv /\ StateInv /\ RunInv /\ WaitLockInv
  BY DEF SwitchInd
<1> USE <1>inv
<1> USE SchedAssumption, Indices DEF At, OnCPU, Goto
<1>1. CASE Moves(c, p) \/ Wakes(c, p)
  BY <1>1, RunFrame DEF Moves, Wakes, PlockLabels
<1>2. CASE ForkAlloc(c, p)
  BY <1>2, RunFrame DEF ForkAlloc, TypeInv
<1>3. CASE ForkNoMemory(c, p)
  BY <1>3, RunFrame DEF ForkNoMemory, FreeProc, TypeInv
<1>4. CASE ForkRun(c, p)
  BY <1>4, RunFrame DEF ForkRun, TypeInv
<1>5. CASE ExitZombie(c, p)
  BY <1>5, RunFrame, Running DEF ExitZombie, procVars, TypeInv
<1>6. CASE ExitRelease(c, p)
  BY <1>6, RunFrame DEF ExitRelease, procVars, TypeInv
<1>7. CASE ExitSched(c, p)
  <2>1. state[p] = "ZOMBIE" /\ pc'[p] = "zombie"
    BY <1>7 DEF ExitSched, TypeInv, StateInv, StateOf
  <2>2. \A d \in CPU, q \in Procs \ {p} : OnCPU(d, q) => OnCPU(d, q)'
    BY <1>7 DEF ExitSched, sched, TypeInv
  <2> QED
    BY <1>7, <2>1, <2>2, RunFrame, SMTT(30) DEF ExitSched, procVars, TypeInv
<1>8. CASE WaitReap(c, p)
  BY <1>8, RunFrame DEF WaitReap, FreeProc, TypeInv
<1>9. CASE SleepLockProc(c, p) \/ SleepRelease(c, p, wait_lock) \/ SleepTidy(c, p)
  BY <1>9, RunFrame DEF SleepLockProc, SleepRelease, SleepTidy, TypeInv
<1>10. CASE SleepSched(c, p, p)
  BY <1>10, RunFrame DEF SleepSched, sched, TypeInv
<1>11. CASE Dispatch(c, p)
  <2>1. OnCPU(c, p)'
    BY <1>11 DEF Dispatch, Schedule, TypeInv
  <2>2. \A d \in CPU, q \in Procs : OnCPU(d, q) => OnCPU(d, q)'
    BY <1>11 DEF Dispatch, Schedule, TypeInv
  <2>3. \A q \in Procs \ {p} : state'[q] = state[q] /\ pc'[q] = pc[q]
    BY <1>11 DEF Dispatch, Schedule, TypeInv
  <2> QED
    BY <2>1, <2>2, <2>3, SMTT(30) DEF RunInv
<1>12. CASE Preempt(c, p)
  <2>1. state'[p] = "RUNNABLE" /\ pc'[p] \notin {"exit_release", "exit_sched"}
    BY <1>12, Preempted DEF Preempt, Yield, TypeInv, PlockLabels
  <2>2. \A d \in CPU, q \in Procs \ {p} : OnCPU(d, q) => OnCPU(d, q)'
    BY <1>12 DEF Preempt, Yield, sched, TypeInv
  <2>3. \A q \in Procs \ {p} : state'[q] = state[q] /\ pc'[q] = pc[q]
    BY <1>12 DEF Preempt, Yield, TypeInv
  <2> QED
    BY <2>1, <2>2, <2>3, SMTT(30) DEF RunInv
<1>13. CASE Resume(c, p)
  BY <1>13, RunFrame DEF Resume, YieldReturn
<1>14. CASE Return(c)
  BY <1>14, RunFrame DEF Return, SwtchReturn, TypeInv
<1> QED
  BY <1>1, <1>2, <1>3, <1>4, <1>5, <1>6, <1>7, <1>8, <1>9, <1>10, <1>11, <1>12, <1>13,
     <1>14 DEF Step

(* What keeps WaitLockInv: wait_lock stays where it is, and who is at one of   *)
(* its labels stays there and on its CPU.                                    *)
LEMMA WaitLockFrame ==
  ASSUME SwitchInd, UNCHANGED lock,
         \A q \in Procs : pc'[q] \in WaitLockLabels <=> pc[q] \in WaitLockLabels,
         \A d \in CPU, q \in Procs :
           OnCPU(d, q) /\ pc[q] \in WaitLockLabels => OnCPU(d, q)'
  PROVE  WaitLockInv'
  BY Indices, SMTT(30) DEF SwitchInd, WaitLockInv, OnCPU, TypeInv

(* p releases wait_lock as it leaves the last of its labels. *)
LEMMA WaitLockDropped ==
  ASSUME SwitchInd, NEW p \in Procs, pc[p] \in WaitLockLabels,
         ReleaseWaitLock, pc'[p] \notin WaitLockLabels,
         \A q \in Procs \ {p} : pc'[q] = pc[q]
  PROVE  WaitLockInv'
<1>inv. TypeInv /\ SwitchInv /\ WaitLockInv
  BY DEF SwitchInd
<1> USE <1>inv
<1>1. \A q \in Procs : pc'[q] \notin WaitLockLabels
  BY WaitLockUnique
<1>2. lock'[wait_lock] = NoCPU
  BY ProcAssumption DEF ReleaseWaitLock, TypeInv
<1> QED
  BY <1>1, <1>2, SchedAssumption DEF WaitLockInv

(* p on CPU c acquires the free wait_lock as it comes to the first of them. *)
LEMMA WaitLockTaken ==
  ASSUME SwitchInd, NEW c \in CPU, NEW p \in Procs, OnCPU(c, p)',
         AcquireWaitLock(c), pc'[p] \in WaitLockLabels,
         \A q \in Procs \ {p} : pc'[q] = pc[q]
  PROVE  WaitLockInv'
<1>inv. TypeInv /\ SwitchInv /\ WaitLockInv
  BY DEF SwitchInd
<1> USE <1>inv
<1>1. \A q \in Procs \ {p} : pc'[q] \notin WaitLockLabels
  BY WaitLockUnique DEF AcquireWaitLock
<1>2. lock'[wait_lock] = c
  BY ProcAssumption DEF AcquireWaitLock, TypeInv
<1> QED
  BY <1>1, <1>2, Indices DEF WaitLockInv, OnCPU

(* Every step keeps wait_lock with the one process whose code holds it. *)
LEMMA WaitLockInvStep ==
  ASSUME SwitchInd, NEW c \in CPU, NEW p \in Procs, Step(c, p)
  PROVE  WaitLockInv'
<1>inv. TypeInv /\ SwitchInv /\ StateInv /\ WaitLockInv
  BY DEF SwitchInd
<1> USE <1>inv
<1> USE SchedAssumption, Indices DEF At, Goto
<1>1. CASE Moves(c, p)
  <2>1. CASE UNCHANGED lock /\ (pc'[p] \in WaitLockLabels <=> pc[p] \in WaitLockLabels)
    BY <1>1, <2>1, WaitLockFrame DEF Moves, OnCPU
  <2>2. CASE AcquireWaitLock(c) /\ pc'[p] \in WaitLockLabels
    BY <1>1, <2>2, WaitLockTaken DEF Moves, OnCPU
  <2>3. CASE ReleaseWaitLock /\ pc[p] \in WaitLockLabels /\ pc'[p] \notin WaitLockLabels
    BY <1>1, <2>3, WaitLockDropped DEF Moves
  <2> QED
    BY <1>1, <2>1, <2>2, <2>3 DEF Moves
<1>2. CASE Wakes(c, p)
  BY <1>2, WaitLockFrame DEF Wakes, OnCPU
<1>3. CASE ForkAlloc(c, p)
  <2>1. \A q \in Procs : pc'[q] \in WaitLockLabels <=> pc[q] \in WaitLockLabels
    BY <1>3 DEF ForkAlloc, TypeInv, StateInv, StateOf, WaitLockLabels
  <2> QED
    BY <1>3, <2>1, WaitLockFrame DEF ForkAlloc, OnCPU
<1>4. CASE ForkNoMemory(c, p) \/ ForkRun(c, p)
  BY <1>4, WaitLockFrame, SMTT(30) DEF ForkNoMemory, ForkRun, TypeInv, OnCPU, WaitLockLabels
<1>5. CASE ExitZombie(c, p)
  BY <1>5, WaitLockFrame DEF ExitZombie, TypeInv, OnCPU, WaitLockLabels
<1>6. CASE ExitRelease(c, p)
  BY <1>6, WaitLockDropped DEF ExitRelease, TypeInv, WaitLockLabels
<1>7. CASE ExitSched(c, p)
  BY <1>7, WaitLockFrame DEF ExitSched, sched, TypeInv, OnCPU, WaitLockLabels
<1>8. CASE WaitReap(c, p)
  BY <1>8, WaitLockDropped DEF WaitReap, TypeInv, WaitLockLabels
<1>9. CASE SleepLockProc(c, p)
  BY <1>9, WaitLockFrame DEF SleepLockProc, TypeInv, OnCPU, WaitLockLabels
<1>10. CASE SleepRelease(c, p, wait_lock)
  BY <1>10, WaitLockDropped DEF SleepRelease, ReleaseWaitLock, TypeInv, WaitLockLabels
<1>11. CASE SleepSched(c, p, p)
  BY <1>11, WaitLockFrame DEF SleepSched, sched, TypeInv, OnCPU, WaitLockLabels
<1>12. CASE SleepTidy(c, p)
  BY <1>12, WaitLockFrame DEF SleepTidy, TypeInv, OnCPU, WaitLockLabels
<1>13. CASE Dispatch(c, p)
  BY <1>13, WaitLockFrame DEF Dispatch, Schedule, TypeInv, OnCPU
<1>14. CASE Preempt(c, p)
  <2>1. pc[p] \notin WaitLockLabels /\ UNCHANGED <<lock, pc>>
    BY <1>14, Preempted DEF Preempt, Yield
  <2>2. \A d \in CPU, q \in Procs \ {p} : OnCPU(d, q) => OnCPU(d, q)'
    BY <1>14 DEF Preempt, Yield, sched, OnCPU, TypeInv
  <2> QED
    BY <2>1, <2>2, WaitLockFrame
<1>15. CASE Resume(c, p)
  BY <1>15, WaitLockFrame DEF Resume, YieldReturn, OnCPU
<1>16. CASE Return(c)
  BY <1>16, WaitLockFrame DEF Return, SwtchReturn, TypeInv, OnCPU
<1> QED
  BY <1>1, <1>2, <1>3, <1>4, <1>5, <1>6, <1>7, <1>8, <1>9, <1>10, <1>11, <1>12, <1>13,
     <1>14, <1>15, <1>16 DEF Step

(* What keeps ForkInv: who is in fork() was already there, and its slot stays. *)
LEMMA ForkFrame ==
  ASSUME ForkInv,
         \A q \in Procs : pc'[q] \in {"fork_parent", "fork_run"} =>
           pc'[q] = pc[q] /\ idx'[q] = idx[q] /\ parent'[idx[q]] = parent[idx[q]],
         \A k \in Procs : state[k] = "USED" => state'[k] = "USED"
  PROVE  ForkInv'
  BY SMTT(30) DEF ForkInv

(* Every step leaves to fork() the slot it has taken: no reaper, wakeup or    *)
(* other fork() touches it before it is RUNNABLE.                            *)
LEMMA ForkInvStep ==
  ASSUME SwitchInd, NEW c \in CPU, NEW p \in Procs, Step(c, p)
  PROVE  ForkInv'
<1>inv. TypeInv /\ SwitchInv /\ StateInv /\ WaitLockInv /\ ForkInv
  BY DEF SwitchInd
<1> USE <1>inv
<1> USE SchedAssumption, Indices DEF At, Goto
<1>1. CASE ForkParent(c, p)
  <2>1. idx[p] \in Procs /\ state[idx[p]] = "USED" /\ pc[p] = "fork_parent"
    BY <1>1 DEF ForkParent, ForkInv
  <2>2. pc'[p] = "fork_run" /\ parent'[idx[p]] = p /\ state' = state /\ idx' = idx
    BY <1>1, <2>1 DEF ForkParent, TypeInv
  <2>3. \A q \in Procs \ {p} : pc'[q] = pc[q]
    BY <1>1 DEF ForkParent, TypeInv
  <2>4. \A k \in Procs \ {idx[p]} : parent'[k] = parent[k]
    BY <1>1 DEF ForkParent, TypeInv
  <2> QED
    BY <2>1, <2>2, <2>3, <2>4, SMTT(30) DEF ForkInv
<1>2. CASE Reparent(c, p)
  <2>1. UNCHANGED state /\ pc'[p] \in {"reparent", "wake_init"} /\ pc[p] = "reparent"
    BY <1>2 DEF Reparent, TypeInv
  <2>2. \A q \in Procs \ {p} : pc'[q] = pc[q] /\ idx'[q] = idx[q]
    BY <1>2 DEF Reparent, SetIdx, TypeInv
  <2>3. \A k \in Procs : parent[k] # p => parent'[k] = parent[k]
    BY <1>2 DEF Reparent, TypeInv
  <2>4. ASSUME NEW q \in Procs \ {p}, pc[q] \in {"fork_parent", "fork_run"}
        PROVE  parent'[idx[q]] = parent[idx[q]]
    BY <2>3, <2>4, SMTT(30) DEF ForkInv
  <2> QED
    BY <2>1, <2>2, <2>4, ForkFrame
<1>3. CASE Moves(c, p) /\ ~ ForkParent(c, p) /\ ~ Reparent(c, p)
  BY <1>3, ForkFrame DEF Moves
<1>4. CASE Wakes(c, p)
  BY <1>4, ForkFrame DEF Wakes
<1>5. CASE ForkAlloc(c, p)
  <2>1. /\ state[p] = "RUNNING" /\ idx[p] \in Procs /\ idx[p] # p
        /\ state[idx[p]] = "UNUSED"
    <3>1. state[p] = "RUNNING"
      BY <1>5, Running DEF ForkAlloc
    <3> QED
      BY <1>5, <3>1, Indices DEF ForkAlloc, TypeInv
  <2>2. /\ pc'[p] = "fork_parent" /\ pc'[idx[p]] = "user" /\ state'[idx[p]] = "USED"
        /\ UNCHANGED <<idx, parent>> /\ parent[idx[p]] = NoProc
    BY <1>5, <2>1, SMTT(30) DEF ForkAlloc, TypeInv, StateInv, StateOf
  <2>3. \A q \in Procs \ {p, idx[p]} : pc'[q] = pc[q] /\ state'[q] = state[q]
    BY <1>5, <2>1 DEF ForkAlloc, TypeInv
  <2>4. ASSUME NEW q \in Procs \ {p}, pc'[q] \in {"fork_parent", "fork_run"}
        PROVE  /\ pc'[q] = pc[q] /\ idx[q] \in Procs \ {idx[p]}
               /\ state'[idx[q]] = "USED"
               /\ parent[idx[q]] = IF pc[q] = "fork_parent" THEN NoProc ELSE q
               /\ \A r \in Procs : r # q /\ pc[r] \in {"fork_parent", "fork_run"} => idx[r] # idx[q]
    <3>1. pc'[q] = pc[q]
      BY <2>2, <2>3, <2>4
    <3>2. idx[q] \in Procs /\ state[idx[q]] = "USED"
      BY <2>4, <3>1 DEF ForkInv
    <3>3. idx[q] # idx[p] /\ state'[idx[q]] = "USED"
      BY <1>5, <2>1, <3>2 DEF ForkAlloc, TypeInv
    <3> QED
      BY <2>4, <3>1, <3>2, <3>3 DEF ForkInv
  <2> QED
    BY <2>1, <2>2, <2>4, SMTT(30) DEF ForkInv
<1>6. CASE ForkNoMemory(c, p)
  <2>1. \A k \in Procs : parent'[k] = parent[k]
    BY <1>6, SMTT(30) DEF ForkNoMemory, FreeProc, TypeInv, StateInv, StateOf
  <2> QED
    BY <1>6, <2>1, ForkFrame, SMTT(30) DEF ForkNoMemory, FreeProc, TypeInv, ForkInv
<1>7. CASE ForkRun(c, p)
  <2>1. idx[p] \in Procs /\ pc[p] = "fork_run" /\ UNCHANGED <<parent, idx>>
    BY <1>7 DEF ForkRun, ForkInv
  <2>2. pc'[p] = "user" /\ \A q \in Procs \ {p} : pc'[q] = pc[q]
    BY <1>7 DEF ForkRun, TypeInv
  <2>3. \A k \in Procs \ {idx[p]} : state'[k] = state[k]
    BY <1>7 DEF ForkRun, TypeInv
  <2> QED
    BY <2>1, <2>2, <2>3, SMTT(30) DEF ForkInv
<1>8. CASE ExitZombie(c, p)
  <2>1. state[p] = "RUNNING"
    BY <1>8, Running DEF ExitZombie
  <2> QED
    BY <1>8, <2>1, ForkFrame DEF ExitZombie, procVars, TypeInv
<1>9. CASE ExitRelease(c, p) \/ ExitSched(c, p)
  BY <1>9, ForkFrame DEF ExitRelease, ExitSched, procVars, TypeInv
<1>10. CASE WaitReap(c, p)
  <2>1. pc'[p] = "user" /\ UNCHANGED idx /\ \A q \in Procs \ {p} : pc'[q] = pc[q]
    BY <1>10 DEF WaitReap, TypeInv
  <2>2. idx[p] \in Procs /\ state[idx[p]] = "ZOMBIE"
    BY <1>10, Indices DEF WaitReap, TypeInv
  <2>3. \A k \in Procs \ {idx[p]} : parent'[k] = parent[k] /\ state'[k] = state[k]
    BY <1>10, <2>2, SMTT(30) DEF WaitReap, FreeProc, TypeInv
  <2>4. \A q \in Procs : pc[q] \in {"fork_parent", "fork_run"} => idx[q] \in Procs \ {idx[p]}
    BY <2>2 DEF ForkInv
  <2> QED
    BY <2>1, <2>2, <2>3, <2>4, ForkFrame
<1>11. CASE (SleepLockProc(c, p) \/ SleepRelease(c, p, wait_lock) \/ SleepTidy(c, p))
            /\ UNCHANGED procVars
  BY <1>11, ForkFrame, SMTT(30) DEF SleepLockProc, SleepRelease, SleepTidy, procVars, TypeInv
<1>12. CASE SleepSched(c, p, p) /\ UNCHANGED procVars
  <2>1. state[p] = "RUNNING"
    BY <1>12, Running DEF SleepSched
  <2> QED
    BY <1>12, <2>1, ForkFrame DEF SleepSched, procVars, TypeInv
<1>13. CASE Dispatch(c, p)
  BY <1>13, ForkFrame DEF Dispatch, Schedule, procVars, TypeInv
<1>14. CASE Preempt(c, p)
  <2>1. state[p] = "RUNNING"
    BY <1>14, Preempted
  <2> QED
    BY <1>14, <2>1, ForkFrame DEF Preempt, Yield, procVars, TypeInv
<1>15. CASE Resume(c, p) \/ Return(c)
  BY <1>15, ForkFrame DEF Resume, YieldReturn, Return, SwtchReturn, procVars
<1> QED
  BY <1>1, <1>2, <1>3, <1>4, <1>5, <1>6, <1>7, <1>8, <1>9, <1>10, <1>11, <1>12, <1>13,
     <1>14, <1>15 DEF Step

-----------------------------------------------------------------------------
(* After userinit() the invariant holds: init is alone, and nobody runs. *)
LEMMA SwitchIndInit == Init => SwitchInd
<1> SUFFICES ASSUME Init PROVE SwitchInd
  OBVIOUS
<1> USE SchedAssumption, Indices
<1>1. TypeInv
  BY DEF Init, TypeInv, Labels
<1>2. SwitchInv
  BY DEF Init, SwitchInv, PlockLabels
<1>3. StateInv
  BY DEF Init, StateInv, StateOf, PlockLabels, WaitLockLabels, OnCPU
<1>4. RunInv /\ WaitLockInv
  BY ProcAssumption DEF Init, RunInv, WaitLockInv, WaitLockLabels
<1>5. ForkInv
  BY DEF Init, ForkInv
<1> QED
  BY <1>1, <1>2, <1>3, <1>4, <1>5 DEF SwitchInd

(* A step of Next is a step of some CPU for some process. *)
LEMMA NextIsStep ==
  ASSUME Next PROVE \E c \in CPU, p \in Procs : AnyStep(c, p)
<1>1. PICK c \in CPU : Return(c) \/ \E p \in Procs : AnyStep(c, p)
  BY DEF Next, AnyStep
<1>2. Return(c) => AnyStep(c, Initproc)
  BY DEF AnyStep
<1> QED
  BY <1>1, <1>2, Indices

(* Every step of fork(), exit(), wait(), kill() and the scheduler keeps it. *)
LEMMA SwitchIndNext == SwitchInd /\ [Next]_vars => SwitchInd'
<1> SUFFICES ASSUME SwitchInd, [Next]_vars PROVE SwitchInd'
  OBVIOUS
<1>1. CASE Next
  <2>1. PICK c \in CPU, p \in Procs : AnyStep(c, p)
    BY <1>1, NextIsStep
  <2>2. Step(c, p)
    BY <2>1, StepCases
  <2>3. TypeInv' /\ SwitchInv' /\ StateInv'
    BY <2>1, <2>2, TypeInvStep, SwitchInvStep, StateInvStep
  <2>4. RunInv' /\ WaitLockInv' /\ ForkInv'
    BY <2>2, RunInvStep, WaitLockInvStep, ForkInvStep
  <2> QED
    BY <2>3, <2>4 DEF SwitchInd
<1>2. CASE UNCHANGED vars
  <2>1. (TypeInv /\ SwitchInv)'
    BY <1>2, SMTT(30) DEF SwitchInd, vars, TypeInv, SwitchInv
  <2>3. (WaitLockInv /\ ForkInv)'
    BY <1>2, SMTT(30) DEF SwitchInd, vars, WaitLockInv, OnCPU, ForkInv
  <2>2. (StateInv /\ RunInv)'
    BY <1>2, SMTT(30) DEF SwitchInd, vars, StateInv, StateOf, RunInv, OnCPU
  <2> QED
    BY <2>1, <2>2, <2>3 DEF SwitchInd
<1> QED
  BY <1>1, <1>2

(* The locks, the CPUs and the states stay in step with one another, however  *)
(* many CPUs fork, exit, wait and kill at once.                              *)
THEOREM ProcSwitchInvariant == Spec => []SwitchInd
  BY SwitchIndInit, SwitchIndNext, PTL DEF Spec

(* wait() never frees the slot of a process whose kernel stack a CPU is on.   *)
THEOREM ProcFreedOffCPU == Spec => []FreedOffCPU
<1>1. SwitchInd => FreedOffCPU
  BY SMTT(30) DEF SwitchInd, FreedOffCPU, StateInv, StateOf, SwitchInv, TypeInv
<1> QED
  BY <1>1, ProcSwitchInvariant, PTL

-----------------------------------------------------------------------------
(* The process tree. *)

(* Init stays; a process that exits has given its children away. *)
TreeInv ==
  /\ parent[Initproc] = NoProc
  /\ state[Initproc] \in {"RUNNABLE", "RUNNING", "SLEEPING"}
  /\ pc[Initproc] \notin {"reparent", "wake_init", "wake_parent", "exit_release", "exit_sched"}
  /\ \A p \in Procs : parent[p] # p
  /\ \A p, q \in Procs : pc[p] \in {"reparent", "wake_init"} /\ q < idx[p] => parent[q] # p
  /\ \A p, q \in Procs : pc[p] = "wake_parent" => parent[q] # p

(* p is asleep in wait() or on the way there. *)
Dozing(p) ==
  pc[p] \in {"sleep_lock_proc", "sleep_release", "sleep_sched"} \/ state[p] = "SLEEPING"

(* p has a child that has exited. *)
ZombieChild(p) == \E q \in Procs : parent[q] = p /\ state[q] = "ZOMBIE"

(* What the scan of wait() has seen so far. *)
ScanInv ==
  \A p \in Procs : pc[p] = "wait_scan" =>
    /\ havekids[p] => \E q \in Procs : parent[q] = p
    /\ \A q \in Procs : q < idx[p] /\ parent[q] = p => state[q] # "ZOMBIE"

(* A process on its way to sleep in wait() has children, and no zombie among *)
(* them but those whose wakeup is still ahead.                               *)
DozeInv ==
  \A p \in Procs : Dozing(p) =>
    /\ \E q \in Procs : parent[q] = p
    /\ ZombieChild(p) =>
         p = Initproc /\ \E r \in Procs : pc[r] = "wake_init" /\ widx[r] <= Initproc

(* The parent that an exit() has already tried to wake is not on its way to  *)
(* sleep.                                                                    *)
WokenInv ==
  \A q \in Procs :
    pc[q] = "wake_parent" /\ parent[q] \in Procs /\ parent[q] < widx[q] => ~ Dozing(parent[q])

ProcInd == SwitchInd /\ TreeInv /\ ParentAlive /\ ScanInv /\ DozeInv /\ WokenInv

-----------------------------------------------------------------------------
(* A step that leaves the tree alone: no process changes its parent, begins  *)
(* to live or dies, gets ahead in exit() or in the scan of wait(), or starts *)
(* to doze.                                                                  *)
Calm ==
  /\ \A q \in Procs :
       /\ parent'[q] = parent[q]
       /\ state'[q] \in {"RUNNABLE", "RUNNING", "SLEEPING"} <=>
            state[q] \in {"RUNNABLE", "RUNNING", "SLEEPING"}
       /\ state'[q] = "ZOMBIE" <=> state[q] = "ZOMBIE"
       /\ pc'[q] \in {"reparent", "wake_init", "wake_parent", "wait_scan"} \/ pc[q] = "wake_init" =>
            /\ pc'[q] = pc[q] /\ idx'[q] = idx[q]
            /\ widx'[q] = widx[q] /\ havekids'[q] = havekids[q]
       /\ pc'[q] \in {"exit_release", "exit_sched"} => pc[q] \in {"exit_release", "exit_sched"}
       /\ Dozing(q)' => Dozing(q)

(* The steps of CPU c that concern p, seen from the tree. *)
TreeStep(c, p) ==
  \/ Calm
  \/ ForkParent(c, p) \/ ForkRun(c, p)
  \/ Exit(c, p) \/ Reparent(c, p) \/ WakeInit(c, p) \/ WakeInitDone(c, p)
  \/ ReparentDone(c, p) \/ WakeParent(c, p) \/ ExitZombie(c, p)
  \/ WaitTop(c, p) \/ WaitScan(c, p) \/ WaitReap(c, p) \/ WaitSleep(c, p)

(* Most steps of fork() and of the scheduler, and all of sleep() but the      *)
(* first, leave the tree alone.                                              *)
LEMMA TreeStepCases ==
  ASSUME SwitchInd, NEW c \in CPU, NEW p \in Procs, AnyStep(c, p)
  PROVE  TreeStep(c, p)
<1>inv. TypeInv /\ StateInv
  BY DEF SwitchInd
<1> USE <1>inv
<1> USE SchedAssumption, Indices DEF At, OnCPU, Goto, TreeStep
<1>1. CASE Fork(c, p)
  BY <1>1 DEF Fork, SetIdx, Calm, Dozing, TypeInv
<1>2. CASE ForkScan(c, p)
  BY <1>2, SMTT(30) DEF ForkScan, SetIdx, Calm, Dozing, TypeInv
<1>3. CASE ForkAlloc(c, p)
  <2>1. idx[p] \in Procs /\ state[idx[p]] = "UNUSED" /\ pc[idx[p]] \in {"user", "zombie"}
    BY <1>3 DEF ForkAlloc, TypeInv, StateInv, StateOf
  <2>2. state'[idx[p]] = "USED" /\ \A k \in Procs \ {idx[p]} : state'[k] = state[k]
    BY <1>3, <2>1 DEF ForkAlloc, TypeInv
  <2>3. \A q \in Procs : pc'[q] # pc[q] => pc'[q] \in {"user", "fork_parent"} /\ pc[q] # "wake_init"
    BY <1>3, <2>1 DEF ForkAlloc, TypeInv
  <2>4. UNCHANGED <<parent, idx, widx, havekids>>
    BY <1>3 DEF ForkAlloc
  <2> QED
    BY <2>1, <2>2, <2>3, <2>4 DEF Calm, Dozing
<1>4. CASE ForkNoMemory(c, p)
  <2>1. \A k \in Procs : parent'[k] = parent[k] /\ state'[k] = state[k]
    BY <1>4 DEF ForkNoMemory, FreeProc, TypeInv, StateInv, StateOf
  <2> QED
    BY <1>4, <2>1 DEF ForkNoMemory, Calm, Dozing, TypeInv
<1>5. CASE ExitRelease(c, p)
  BY <1>5 DEF ExitRelease, procVars, Calm, Dozing, TypeInv
<1>6. CASE ExitSched(c, p)
  BY <1>6 DEF ExitSched, sched, procVars, Calm, Dozing, TypeInv
<1>7. CASE Wait(c, p)
  BY <1>7 DEF Wait, procVars, Calm, Dozing, TypeInv
<1>8. CASE WaitFail(c, p)
  BY <1>8 DEF WaitFail, procVars, Calm, Dozing, TypeInv
<1>9. CASE SleepLockProc(c, p) /\ UNCHANGED procVars
  BY <1>9 DEF SleepLockProc, procVars, Calm, Dozing, TypeInv
<1>10. CASE SleepRelease(c, p, wait_lock) /\ UNCHANGED procVars
  BY <1>10 DEF SleepRelease, procVars, Calm, Dozing, TypeInv
<1>11. CASE SleepSched(c, p, p) /\ UNCHANGED procVars
  <2>1. state[p] = "RUNNING"
    BY <1>11, Running DEF SleepSched
  <2> QED
    BY <1>11, <2>1 DEF SleepSched, sched, procVars, Calm, Dozing, TypeInv
<1>12. CASE SleepTidy(c, p) /\ UNCHANGED procVars
  BY <1>12 DEF SleepTidy, procVars, Calm, Dozing, TypeInv
<1>13. CASE SleepReacquire(c, p, wait_lock, "wait_top") /\ UNCHANGED procVars
  BY <1>13 DEF SleepReacquire, procVars, Calm, Dozing, TypeInv
<1>14. CASE KillStep(c, p)
  BY <1>14, SMTT(30) DEF KillStep, Kill, Calm, Dozing, TypeInv
<1>15. CASE Dispatch(c, p)
  BY <1>15 DEF Dispatch, Schedule, procVars, Calm, Dozing, TypeInv
<1>16. CASE Preempt(c, p)
  <2>1. state[p] = "RUNNING"
    BY <1>16, Preempted
  <2> QED
    BY <1>16, <2>1 DEF Preempt, Yield, sched, procVars, Calm, Dozing, TypeInv
<1>17. CASE Resume(c, p)
  BY <1>17 DEF Resume, YieldReturn, procVars, Calm, Dozing, TypeInv
<1>18. CASE Return(c)
  BY <1>18 DEF Return, SwtchReturn, procVars, Calm, Dozing, TypeInv
<1> QED
  BY <1>1, <1>2, <1>3, <1>4, <1>5, <1>6, <1>7, <1>8, <1>9, <1>10, <1>11, <1>12, <1>13, <1>14, <1>15, <1>16, <1>17, <1>18
     DEF AnyStep, ForkStep, ExitStep, WaitStep, Sleep

(* What keeps TreeInv: nobody gets another parent but none, and nobody gets   *)
(* ahead in exit().                                                          *)
LEMMA TreeFrame ==
  ASSUME TreeInv,
         \A q \in Procs : parent'[q] \in {parent[q], NoProc},
         state'[Initproc] \in {"RUNNABLE", "RUNNING", "SLEEPING"},
         pc'[Initproc] \notin {"reparent", "wake_init", "wake_parent", "exit_release", "exit_sched"},
         \A q \in Procs : pc'[q] \in {"reparent", "wake_init"} =>
           pc[q] \in {"reparent", "wake_init"} /\ idx'[q] = idx[q],
         \A q \in Procs : pc'[q] = "wake_parent" => pc[q] = "wake_parent"
  PROVE  TreeInv'
  BY Indices, SMTT(30) DEF TreeInv

(* Every step keeps what reparent() has done: no child comes back to a        *)
(* process that exits, since fork() is not under way in it.                   *)
LEMMA TreeInvStep ==
  ASSUME ProcInd, NEW c \in CPU, NEW p \in Procs, TreeStep(c, p)
  PROVE  TreeInv'
<1>inv. /\ SwitchInd /\ TypeInv /\ SwitchInv /\ StateInv /\ WaitLockInv /\ ForkInv
        /\ TreeInv /\ ParentAlive /\ ScanInv /\ DozeInv /\ WokenInv
  BY DEF ProcInd, SwitchInd
<1> USE <1>inv
<1> USE SchedAssumption, ProcAssumption, Indices DEF At, OnCPU, Goto
<1>1. CASE Calm
  BY <1>1, TreeFrame DEF Calm, TreeInv
<1>2. CASE ForkParent(c, p)
  <2>1. state[p] = "RUNNING"
    BY <1>2, Running DEF ForkParent
  <2>2. idx[p] \in Procs /\ state[idx[p]] = "USED"
    BY <1>2 DEF ForkParent, ForkInv
  <2>3. idx[p] # p /\ idx[p] # Initproc
    BY <2>1, <2>2 DEF TreeInv
  <2>4. parent'[idx[p]] = p /\ \A k \in Procs \ {idx[p]} : parent'[k] = parent[k]
    BY <1>2, <2>2 DEF ForkParent, TypeInv
  <2>5. state' = state /\ idx' = idx /\ pc'[p] = "fork_run" /\ \A q \in Procs \ {p} : pc'[q] = pc[q]
    BY <1>2 DEF ForkParent, TypeInv
  <2> QED
    BY <2>2, <2>3, <2>4, <2>5, SMTT(30) DEF TreeInv
<1>3. CASE ForkRun(c, p)
  BY <1>3, TreeFrame DEF ForkRun, TypeInv, TreeInv
<1>4. CASE Exit(c, p)
  BY <1>4, TreeFrame, SMTT(30) DEF Exit, AcquireWaitLock, SetIdx, TypeInv, TreeInv
<1>5. CASE Reparent(c, p)
  BY <1>5, TreeFrame, SMTT(30) DEF Reparent, SetIdx, TypeInv, TreeInv
<1>6. CASE WakeInit(c, p)
  BY <1>6, TreeFrame, SMTT(30) DEF WakeInit, WakeupStep, WakeupBody, procVars, TypeInv, TreeInv
<1>7. CASE WakeInitDone(c, p)
  BY <1>7, TreeFrame DEF WakeInitDone, procVars, TypeInv, TreeInv
<1>8. CASE ReparentDone(c, p)
  BY <1>8, TreeFrame, SMTT(30) DEF ReparentDone, procVars, TypeInv, TreeInv
<1>9. CASE WakeParent(c, p)
  BY <1>9, TreeFrame, SMTT(30) DEF WakeParent, WakeupStep, WakeupBody, procVars, TypeInv, TreeInv
<1>10. CASE ExitZombie(c, p)
  BY <1>10, TreeFrame, SMTT(30) DEF ExitZombie, procVars, TypeInv, TreeInv
<1>11. CASE WaitTop(c, p)
  BY <1>11, TreeFrame DEF WaitTop, SetIdx, TypeInv, TreeInv
<1>12. CASE WaitScan(c, p)
  BY <1>12, TreeFrame DEF WaitScan, SetIdx, TypeInv, TreeInv
<1>13. CASE WaitReap(c, p)
  BY <1>13, TreeFrame, SMTT(30) DEF WaitReap, FreeProc, ReleaseWaitLock, TypeInv, TreeInv
<1>14. CASE WaitSleep(c, p)
  BY <1>14, TreeFrame DEF WaitSleep, procVars, TypeInv, TreeInv
<1> QED
  BY <1>1, <1>2, <1>3, <1>4, <1>5, <1>6, <1>7, <1>8, <1>9, <1>10, <1>11, <1>12, <1>13, <1>14
     DEF TreeStep

(* What keeps ParentAlive: nobody gets a parent, dies or comes to life. *)
LEMMA AliveFrame ==
  ASSUME ParentAlive,
         TypeInv,
         \A q \in Procs : parent'[q] # NoProc => parent'[q] = parent[q],
         \A q \in Procs : state[q] \notin {"UNUSED", "USED", "ZOMBIE"} =>
           state'[q] \notin {"UNUSED", "USED", "ZOMBIE"},
         \A q \in Procs : state'[q] \in {"RUNNABLE", "RUNNING", "SLEEPING", "ZOMBIE"} =>
           /\ state[q] \in {"RUNNABLE", "RUNNING", "SLEEPING", "ZOMBIE"}
           /\ parent'[q] = parent[q]
  PROVE  ParentAlive'
  BY DEF ParentAlive, TypeInv

(* Every step keeps parents alive: exit() has no children left when it        *)
(* turns into a zombie, and init takes the ones it gives away.                *)
LEMMA ParentAliveStep ==
  ASSUME ProcInd, NEW c \in CPU, NEW p \in Procs, TreeStep(c, p)
  PROVE  ParentAlive'
<1>inv. /\ SwitchInd /\ TypeInv /\ SwitchInv /\ StateInv /\ WaitLockInv /\ ForkInv
        /\ TreeInv /\ ParentAlive /\ ScanInv /\ DozeInv /\ WokenInv
  BY DEF ProcInd, SwitchInd
<1> USE <1>inv
<1> USE SchedAssumption, ProcAssumption, Indices DEF At, OnCPU, Goto
<1>1. CASE Calm
  BY <1>1, AliveFrame DEF Calm, TypeInv
<1>2. CASE ForkParent(c, p)
  <2>1. state[p] = "RUNNING"
    BY <1>2, Running DEF ForkParent
  <2>2. idx[p] \in Procs
    BY <1>2 DEF ForkParent, ForkInv
  <2>3. parent'[idx[p]] = p /\ \A k \in Procs \ {idx[p]} : parent'[k] = parent[k]
    BY <1>2, <2>2 DEF ForkParent, TypeInv
  <2>4. state' = state
    BY <1>2 DEF ForkParent
  <2> QED
    BY <2>1, <2>3, <2>4 DEF ParentAlive
<1>3. CASE ForkRun(c, p)
  <2>1. idx[p] \in Procs /\ parent[idx[p]] = p
    BY <1>3 DEF ForkRun, ForkInv
  <2>2. state'[idx[p]] = "RUNNABLE" /\ \A k \in Procs \ {idx[p]} : state'[k] = state[k]
    BY <1>3, <2>1 DEF ForkRun, TypeInv
  <2>3. parent' = parent
    BY <1>3 DEF ForkRun
  <2> QED
    BY <2>1, <2>2, <2>3 DEF ParentAlive, TypeInv
<1>4. CASE Exit(c, p)
  BY <1>4, AliveFrame DEF Exit, AcquireWaitLock, SetIdx, TypeInv
<1>5. CASE Reparent(c, p)
  <2>1. \A k \in Procs : parent'[k] = parent[k] \/ (parent[k] = p /\ parent'[k] = Initproc)
    BY <1>5 DEF Reparent, SetIdx, TypeInv
  <2>2. state' = state /\ state[Initproc] \in {"RUNNABLE", "RUNNING", "SLEEPING"}
    BY <1>5 DEF Reparent, SetIdx, TreeInv
  <2> QED
    BY <2>1, <2>2 DEF ParentAlive
<1>6. CASE WakeInit(c, p)
  BY <1>6, AliveFrame, SMTT(30) DEF WakeInit, WakeupStep, WakeupBody, procVars, TypeInv
<1>7. CASE WakeInitDone(c, p)
  BY <1>7, AliveFrame DEF WakeInitDone, procVars, TypeInv
<1>8. CASE ReparentDone(c, p)
  BY <1>8, AliveFrame DEF ReparentDone, procVars, TypeInv
<1>9. CASE WakeParent(c, p)
  BY <1>9, AliveFrame, SMTT(30) DEF WakeParent, WakeupStep, WakeupBody, procVars, TypeInv
<1>10. CASE ExitZombie(c, p)
  <2>1. state[p] = "RUNNING"
    BY <1>10, Running DEF ExitZombie
  <2>2. \A q \in Procs : parent[q] # p
    BY <1>10 DEF ExitZombie, TreeInv
  <2>3. parent' = parent /\ \A k \in Procs \ {p} : state'[k] = state[k]
    BY <1>10 DEF ExitZombie, procVars, TypeInv
  <2> QED
    BY <2>1, <2>2, <2>3 DEF ParentAlive, TypeInv
<1>11. CASE WaitTop(c, p)
  BY <1>11, AliveFrame DEF WaitTop, SetIdx, TypeInv
<1>12. CASE WaitScan(c, p)
  BY <1>12, AliveFrame DEF WaitScan, SetIdx, TypeInv
<1>13. CASE WaitReap(c, p)
  BY <1>13, AliveFrame, SMTT(30) DEF WaitReap, FreeProc, ReleaseWaitLock, TypeInv
<1>14. CASE WaitSleep(c, p)
  BY <1>14, AliveFrame DEF WaitSleep, procVars, TypeInv
<1> QED
  BY <1>1, <1>2, <1>3, <1>4, <1>5, <1>6, <1>7, <1>8, <1>9, <1>10, <1>11, <1>12, <1>13, <1>14
     DEF TreeStep

(* What keeps ScanInv: who scans keeps its place and its children, none of    *)
(* which exits.                                                              *)
LEMMA ScanFrame ==
  ASSUME ScanInv,
         \A q \in Procs : pc'[q] = "wait_scan" =>
           /\ pc[q] = "wait_scan" /\ idx'[q] = idx[q] /\ havekids'[q] = havekids[q]
           /\ \A k \in Procs : parent'[k] = q <=> parent[k] = q
           /\ \A k \in Procs : parent[k] = q /\ state'[k] = "ZOMBIE" => state[k] = "ZOMBIE"
  PROVE  ScanInv'
  BY SMTT(30) DEF ScanInv

(* Every step keeps what the scan of wait() has seen: under wait_lock no      *)
(* child exits or comes.                                                      *)
LEMMA ScanInvStep ==
  ASSUME ProcInd, NEW c \in CPU, NEW p \in Procs, TreeStep(c, p)
  PROVE  ScanInv'
<1>inv. /\ SwitchInd /\ TypeInv /\ SwitchInv /\ StateInv /\ WaitLockInv /\ ForkInv
        /\ TreeInv /\ ParentAlive /\ ScanInv /\ DozeInv /\ WokenInv
  BY DEF ProcInd, SwitchInd
<1> USE <1>inv
<1> USE SchedAssumption, ProcAssumption, Indices DEF At, OnCPU, Goto
<1>1. CASE Calm
  BY <1>1, ScanFrame DEF Calm
<1>2. CASE ForkParent(c, p)
  <2>1. \A q \in Procs : pc[q] # "wait_scan"
    BY <1>2, WaitLockUnique DEF ForkParent, WaitLockLabels
  <2> QED
    BY <1>2, <2>1 DEF ForkParent, TypeInv, ScanInv
<1>3. CASE ForkRun(c, p)
  BY <1>3, ScanFrame DEF ForkRun, TypeInv
<1>4. CASE Exit(c, p)
  BY <1>4, ScanFrame DEF Exit, AcquireWaitLock, SetIdx, TypeInv
<1>5. CASE Reparent(c, p)
  <2>1. \A q \in Procs : pc[q] # "wait_scan"
    BY <1>5, WaitLockUnique DEF Reparent, WaitLockLabels
  <2>2. \A q \in Procs : pc'[q] # "wait_scan"
    BY <1>5, <2>1, SMTT(30) DEF Reparent, SetIdx, TypeInv
  <2> QED
    BY <2>2 DEF ScanInv
<1>6. CASE WakeInit(c, p)
  BY <1>6, ScanFrame, SMTT(30) DEF WakeInit, WakeupStep, WakeupBody, procVars, TypeInv
<1>7. CASE WakeInitDone(c, p)
  BY <1>7, ScanFrame DEF WakeInitDone, procVars, TypeInv
<1>8. CASE ReparentDone(c, p)
  BY <1>8, ScanFrame DEF ReparentDone, procVars, TypeInv
<1>9. CASE WakeParent(c, p)
  BY <1>9, ScanFrame, SMTT(30) DEF WakeParent, WakeupStep, WakeupBody, procVars, TypeInv
<1>10. CASE ExitZombie(c, p)
  <2>1. \A q \in Procs : pc[q] # "wait_scan"
    BY <1>10, WaitLockUnique DEF ExitZombie, WaitLockLabels
  <2>2. \A q \in Procs : pc'[q] # "wait_scan"
    BY <1>10, <2>1 DEF ExitZombie, procVars, TypeInv
  <2> QED
    BY <2>2 DEF ScanInv
<1>11. CASE WaitTop(c, p)
  <2>1. idx'[p] = 0 /\ ~ havekids'[p]
    BY <1>11 DEF WaitTop, SetIdx, TypeInv
  <2>2. \A q \in Procs \ {p} : pc'[q] = pc[q] /\ idx'[q] = idx[q] /\ havekids'[q] = havekids[q]
    BY <1>11 DEF WaitTop, SetIdx, TypeInv
  <2>3. parent' = parent /\ state' = state /\ \A q \in Procs : ~ (q < 0)
    BY <1>11, SMTT(30) DEF WaitTop, SetIdx
  <2> QED
    BY <2>1, <2>2, <2>3 DEF ScanInv
<1>12. CASE WaitScan(c, p)
  <2>1. idx[p] \in Procs /\ idx'[p] = idx[p] + 1 /\ pc[p] = "wait_scan"
    BY <1>12 DEF WaitScan, SetIdx, TypeInv
  <2>2. \A q \in Procs \ {p} : idx'[q] = idx[q] /\ havekids'[q] = havekids[q]
    BY <1>12 DEF WaitScan, SetIdx, TypeInv
  <2>3. parent' = parent /\ state' = state /\ pc' = pc
    BY <1>12 DEF WaitScan, SetIdx
  <2>4. parent[idx[p]] = p => state[idx[p]] # "ZOMBIE"
    BY <1>12 DEF WaitScan, SetIdx
  <2>5. parent[idx[p]] # p => havekids'[p] = havekids[p]
    BY <1>12 DEF WaitScan, SetIdx
  <2>6. \A k \in Procs : k < idx[p] + 1 <=> k < idx[p] \/ k = idx[p]
    BY <2>1
  <2>7. \A k \in Procs : k < idx'[p] /\ parent[k] = p => state[k] # "ZOMBIE"
    BY <2>1, <2>4, <2>6, SMTT(30) DEF ScanInv
  <2>8. havekids'[p] => \E k \in Procs : parent[k] = p
    BY <2>1, <2>5 DEF ScanInv
  <2> QED
    BY <2>2, <2>3, <2>7, <2>8 DEF ScanInv
<1>13. CASE WaitReap(c, p)
  BY <1>13, ScanFrame, SMTT(30) DEF WaitReap, FreeProc, ReleaseWaitLock, TypeInv
<1>14. CASE WaitSleep(c, p)
  BY <1>14, ScanFrame, SMTT(30) DEF WaitSleep, procVars, TypeInv
<1> QED
  BY <1>1, <1>2, <1>3, <1>4, <1>5, <1>6, <1>7, <1>8, <1>9, <1>10, <1>11, <1>12, <1>13, <1>14
     DEF TreeStep

(* What keeps WokenInv: nobody gets ahead in the wakeup of its parent, and     *)
(* nobody new dozes.                                                         *)
LEMMA WokenFrame ==
  ASSUME WokenInv,
         \A q \in Procs : pc'[q] = "wake_parent" =>
           pc[q] = "wake_parent" /\ widx'[q] = widx[q] /\ parent'[q] = parent[q],
         \A q \in Procs : Dozing(q)' => Dozing(q)
  PROVE  WokenInv'
  BY DEF WokenInv

(* Every step keeps who exit() has woken awake: to doze again it would need   *)
(* the wait_lock that exit() holds.                                           *)
LEMMA WokenInvStep ==
  ASSUME ProcInd, NEW c \in CPU, NEW p \in Procs, TreeStep(c, p)
  PROVE  WokenInv'
<1>inv. /\ SwitchInd /\ TypeInv /\ SwitchInv /\ StateInv /\ WaitLockInv /\ ForkInv
        /\ TreeInv /\ ParentAlive /\ ScanInv /\ DozeInv /\ WokenInv
  BY DEF ProcInd, SwitchInd
<1> USE <1>inv
<1> USE SchedAssumption, ProcAssumption, Indices DEF At, OnCPU, Goto
<1>1. CASE Calm
  BY <1>1, WokenFrame DEF Calm
<1>2. CASE ForkParent(c, p)
  <2>1. \A q \in Procs : pc[q] # "wake_parent"
    BY <1>2, WaitLockUnique DEF ForkParent, WaitLockLabels
  <2> QED
    BY <1>2, <2>1 DEF ForkParent, TypeInv, WokenInv
<1>3. CASE ForkRun(c, p)
  BY <1>3, WokenFrame DEF ForkRun, TypeInv, Dozing
<1>4. CASE Exit(c, p)
  BY <1>4, WokenFrame DEF Exit, AcquireWaitLock, SetIdx, TypeInv, Dozing
<1>5. CASE Reparent(c, p)
  <2>1. \A q \in Procs : pc[q] # "wake_parent"
    BY <1>5, WaitLockUnique DEF Reparent, WaitLockLabels
  <2>2. \A q \in Procs : pc'[q] # "wake_parent"
    BY <1>5, <2>1, SMTT(30) DEF Reparent, SetIdx, TypeInv
  <2> QED
    BY <2>2 DEF WokenInv
<1>6. CASE WakeInit(c, p)
  BY <1>6, WokenFrame, SMTT(30) DEF WakeInit, WakeupStep, WakeupBody, procVars, TypeInv, Dozing
<1>7. CASE WakeInitDone(c, p)
  BY <1>7, WokenFrame DEF WakeInitDone, procVars, TypeInv, Dozing
<1>8. CASE ReparentDone(c, p)
  <2>1. \A q \in Procs \ {p} : pc'[q] # "wake_parent"
    BY <1>8, WaitLockUnique DEF ReparentDone, procVars, WaitLockLabels, TypeInv
  <2>2. widx'[p] = 0 /\ \A q \in Procs : ~ (q < 0)
    BY <1>8, SMTT(30) DEF ReparentDone, procVars, TypeInv
  <2>3. parent' = parent
    BY <1>8 DEF ReparentDone, procVars
  <2> QED
    BY <2>1, <2>2, <2>3 DEF WokenInv
<1>9. CASE WakeParent(c, p)
  <2>1. \A q \in Procs \ {p} : pc'[q] # "wake_parent"
    BY <1>9, WaitLockUnique DEF WakeParent, WakeupStep, WakeupBody, procVars, WaitLockLabels, TypeInv
  <2>2. widx[p] \in Procs /\ widx'[p] = widx[p] + 1 /\ pc' = pc /\ parent' = parent /\ pc[p] = "wake_parent"
    BY <1>9 DEF WakeParent, WakeupStep, WakeupBody, procVars, TypeInv
  <2>3. \A q \in Procs : state'[q] = "SLEEPING" => state[q] = "SLEEPING"
    BY <1>9, SMTT(30) DEF WakeParent, WakeupStep, WakeupBody, procVars, TypeInv
  <2>4. \A q \in Procs : Dozing(q)' => Dozing(q)
    BY <2>2, <2>3 DEF Dozing
  <2>5. CASE parent[p] \in Procs /\ parent[p] < widx[p]
    BY <2>1, <2>2, <2>4, <2>5 DEF WokenInv
  <2>6. CASE parent[p] \in Procs /\ parent[p] = widx[p]
    <3>1. parent[p] # p /\ plock[parent[p]] = NoCPU
      BY <1>9, <2>6 DEF WakeParent, WakeupStep, WakeupBody, TreeInv
    <3>2. state'[parent[p]] # "SLEEPING"
      BY <1>9, <2>6, <3>1, SMTT(30) DEF WakeParent, WakeupStep, WakeupBody, TypeInv, StateInv, StateOf
    <3>3. pc[parent[p]] \notin {"sleep_lock_proc", "sleep_release", "sleep_sched"}
      BY <2>2, <2>6, <3>1, WaitLockUnique, Unlocked DEF WaitLockLabels
    <3> QED
      BY <2>1, <2>2, <3>2, <3>3 DEF WokenInv, Dozing
  <2>7. parent[p] \in Procs /\ parent[p] < widx'[p] => parent[p] < widx[p] \/ parent[p] = widx[p]
    BY <2>2, SMTT(30)
  <2> QED
    BY <2>1, <2>2, <2>5, <2>6, <2>7 DEF WokenInv
<1>10. CASE ExitZombie(c, p)
  BY <1>10, WokenFrame DEF ExitZombie, procVars, TypeInv, Dozing
<1>11. CASE WaitTop(c, p)
  BY <1>11, WokenFrame DEF WaitTop, SetIdx, TypeInv, Dozing
<1>12. CASE WaitScan(c, p)
  BY <1>12, WokenFrame DEF WaitScan, SetIdx, TypeInv, Dozing
<1>13. CASE WaitReap(c, p)
  <2>1. \A q \in Procs : pc[q] # "wake_parent"
    BY <1>13, WaitLockUnique DEF WaitReap, WaitLockLabels
  <2>2. \A q \in Procs : pc'[q] # "wake_parent"
    BY <1>13, <2>1 DEF WaitReap, FreeProc, ReleaseWaitLock, TypeInv
  <2> QED
    BY <2>2 DEF WokenInv
<1>14. CASE WaitSleep(c, p)
  <2>1. \A q \in Procs : pc[q] # "wake_parent"
    BY <1>14, WaitLockUnique DEF WaitSleep, WaitLockLabels
  <2>2. \A q \in Procs : pc'[q] # "wake_parent"
    BY <1>14, <2>1 DEF WaitSleep, procVars, TypeInv
  <2> QED
    BY <2>2 DEF WokenInv
<1> QED
  BY <1>1, <1>2, <1>3, <1>4, <1>5, <1>6, <1>7, <1>8, <1>9, <1>10, <1>11, <1>12, <1>13, <1>14
     DEF TreeStep

(* What keeps DozeInv: nobody new dozes, who dozes keeps its children and     *)
(* gets no new zombie, and a wakeup of init that is ahead stays ahead.       *)
LEMMA DozeFrame ==
  ASSUME DozeInv,
         \A q \in Procs : Dozing(q)' =>
           /\ Dozing(q)
           /\ \A k \in Procs : parent[k] = q => parent'[k] = q
           /\ \A k \in Procs : parent'[k] = q /\ state'[k] = "ZOMBIE" =>
                parent[k] = q /\ state[k] = "ZOMBIE",
         \A r \in Procs : pc[r] = "wake_init" /\ widx[r] <= Initproc =>
           pc'[r] = "wake_init" /\ widx'[r] <= Initproc
  PROVE  DozeInv'
  BY DEF DozeInv, ZombieChild

(* Every step keeps the zombies in sight of their parent: wait() goes to      *)
(* sleep only after a scan without any, and exit() makes one only after it    *)
(* has woken the parent.                                                      *)
LEMMA DozeInvStep ==
  ASSUME ProcInd, NEW c \in CPU, NEW p \in Procs, TreeStep(c, p)
  PROVE  DozeInv'
<1>inv. /\ SwitchInd /\ TypeInv /\ SwitchInv /\ StateInv /\ WaitLockInv /\ ForkInv
        /\ TreeInv /\ ParentAlive /\ ScanInv /\ DozeInv /\ WokenInv
  BY DEF ProcInd, SwitchInd
<1> USE <1>inv
<1> USE SchedAssumption, ProcAssumption, Indices DEF At, OnCPU, Goto
<1>1. CASE Calm
  BY <1>1, DozeFrame DEF Calm
<1>2. CASE ForkParent(c, p)
  <2>1. idx[p] \in Procs /\ state[idx[p]] = "USED" /\ parent[idx[p]] = NoProc
    BY <1>2 DEF ForkParent, ForkInv
  <2>2. \A k \in Procs \ {idx[p]} : parent'[k] = parent[k]
    BY <1>2, <2>1 DEF ForkParent, TypeInv
  <2>3. state' = state /\ widx' = widx
    BY <1>2 DEF ForkParent
  <2>4. \A q \in Procs : pc'[q] # pc[q] => pc'[q] = "fork_run" /\ pc[q] # "wake_init"
    BY <1>2 DEF ForkParent, TypeInv
  <2> QED
    BY <2>1, <2>2, <2>3, <2>4, DozeFrame DEF Dozing
<1>3. CASE ForkRun(c, p)
  BY <1>3, DozeFrame DEF ForkRun, TypeInv, Dozing
<1>4. CASE Exit(c, p)
  BY <1>4, DozeFrame DEF Exit, AcquireWaitLock, SetIdx, TypeInv, Dozing
<1>5. CASE Reparent(c, p)
  <2>1. pc[p] = "reparent" /\ pc'[p] \in {"reparent", "wake_init"} /\ idx[p] \in Procs
    BY <1>5 DEF Reparent, SetIdx, TypeInv
  <2>2. \A q \in Procs \ {p} : pc'[q] = pc[q] /\ pc[q] # "wake_init"
    BY <1>5, <2>1, WaitLockUnique DEF Reparent, TypeInv, WaitLockLabels
  <2>3. state' = state /\ state[p] = "RUNNING"
    BY <1>5, Running DEF Reparent
  <2>4. \A k \in Procs : \/ parent'[k] = parent[k]
                         \/ /\ parent[k] = p /\ parent'[k] = Initproc
                            /\ pc'[p] = "wake_init" /\ widx'[p] = Initproc
    BY <1>5 DEF Reparent, SetIdx, TypeInv, Initproc
  <2>5. \A q \in Procs : Dozing(q)' => Dozing(q) /\ q # p
    BY <2>1, <2>2, <2>3 DEF Dozing
  <2> SUFFICES ASSUME NEW q \in Procs, Dozing(q)'
               PROVE  /\ \E k \in Procs : parent'[k] = q
                      /\ \A k \in Procs : parent'[k] = q /\ state'[k] = "ZOMBIE" =>
                           q = Initproc /\ pc'[p] = "wake_init" /\ widx'[p] <= Initproc
    BY DEF DozeInv, ZombieChild
  <2>6. Dozing(q) /\ q # p
    BY <2>5
  <2>7. \E k \in Procs : parent[k] = q
    BY <2>6 DEF DozeInv
  <2>8. ~ ZombieChild(q)
    BY <2>1, <2>2, <2>6 DEF DozeInv
  <2> QED
    BY <2>3, <2>4, <2>6, <2>7, <2>8, SMTT(30) DEF ZombieChild
<1>6. CASE WakeInit(c, p)
  <2>1. pc[p] = "wake_init" /\ widx[p] \in Procs /\ widx'[p] = widx[p] + 1 /\ p # Initproc
    BY <1>6 DEF WakeInit, WakeupStep, WakeupBody, procVars, TypeInv, TreeInv
  <2>2. \A r \in Procs : pc[r] = "wake_init" => r = p
    BY <2>1, WaitLockUnique DEF WaitLockLabels
  <2>3. pc' = pc /\ parent' = parent
    BY <1>6 DEF WakeInit, WakeupStep, WakeupBody, procVars
  <2>4. \A q \in Procs : /\ state'[q] = "SLEEPING" => state[q] = "SLEEPING"
                         /\ state'[q] = "ZOMBIE" => state[q] = "ZOMBIE"
    BY <1>6, SMTT(30) DEF WakeInit, WakeupStep, WakeupBody, procVars, TypeInv
  <2>5. CASE widx[p] = Initproc
    <3>1. plock[Initproc] = NoCPU /\ state'[Initproc] # "SLEEPING"
      BY <1>6, <2>1, <2>5, SMTT(30) DEF WakeInit, WakeupStep, WakeupBody, TypeInv, StateInv, StateOf
    <3>2. pc[Initproc] \notin {"sleep_lock_proc", "sleep_release", "sleep_sched"}
      BY <2>1, <3>1, WaitLockUnique, Unlocked DEF WaitLockLabels
    <3>3. ~ Dozing(Initproc)'
      BY <2>3, <3>1, <3>2 DEF Dozing
    <3>4. \A q \in Procs : Dozing(q)' => Dozing(q) /\ q # Initproc
      BY <2>3, <2>4, <3>3 DEF Dozing
    <3> QED
      BY <2>3, <2>4, <3>4 DEF DozeInv, ZombieChild
  <2>6. CASE widx[p] # Initproc
    <3>1. ~ (widx[p] <= Initproc)
      BY <2>1, <2>6, SMTT(30) DEF Initproc
    <3>2. \A r \in Procs : ~ (pc[r] = "wake_init" /\ widx[r] <= Initproc)
      BY <2>2, <3>1
    <3>3. \A q \in Procs : Dozing(q)' => Dozing(q)
      BY <2>3, <2>4 DEF Dozing
    <3> QED
      BY <2>3, <2>4, <3>2, <3>3, DozeFrame
  <2> QED
    BY <2>5, <2>6
<1>7. CASE WakeInitDone(c, p)
  BY <1>7, DozeFrame, SMTT(30) DEF WakeInitDone, procVars, TypeInv, Dozing
<1>8. CASE ReparentDone(c, p)
  BY <1>8, DozeFrame DEF ReparentDone, procVars, TypeInv, Dozing
<1>9. CASE WakeParent(c, p)
  BY <1>9, DozeFrame, SMTT(30) DEF WakeParent, WakeupStep, WakeupBody, procVars, TypeInv, Dozing
<1>10. CASE ExitZombie(c, p)
  <2>1. parent' = parent /\ widx' = widx /\ \A k \in Procs \ {p} : state'[k] = state[k]
    BY <1>10 DEF ExitZombie, procVars, TypeInv
  <2>2. \A q \in Procs : pc'[q] # pc[q] => pc'[q] = "exit_release" /\ pc[q] # "wake_init"
    BY <1>10 DEF ExitZombie, TypeInv
  <2>3. state'[p] = "ZOMBIE"
    BY <1>10 DEF ExitZombie, TypeInv
  <2>4. \A q \in Procs : Dozing(q)' => Dozing(q)
    BY <2>1, <2>2, <2>3 DEF Dozing
  <2>5. \A q \in Procs : parent[p] = q => ~ Dozing(q)
    BY <1>10, SMTT(30) DEF ExitZombie, WokenInv
  <2> QED
    BY <2>1, <2>2, <2>4, <2>5, DozeFrame
<1>11. CASE WaitTop(c, p)
  BY <1>11, DozeFrame DEF WaitTop, SetIdx, TypeInv, Dozing
<1>12. CASE WaitScan(c, p)
  BY <1>12, DozeFrame DEF WaitScan, SetIdx, TypeInv, Dozing
<1>13. CASE WaitReap(c, p)
  <2>1. pc'[p] = "user" /\ widx' = widx /\ \A q \in Procs \ {p} : pc'[q] = pc[q]
    BY <1>13 DEF WaitReap, FreeProc, ReleaseWaitLock, TypeInv
  <2>2. idx[p] \in Procs /\ state[idx[p]] = "ZOMBIE" /\ parent[idx[p]] = p
    BY <1>13 DEF WaitReap, TypeInv
  <2>3. \A k \in Procs \ {idx[p]} : parent'[k] = parent[k] /\ state'[k] = state[k]
    <3>1. CASE FreeProc(idx[p])
      BY <2>2, <3>1 DEF FreeProc, TypeInv
    <3>2. CASE UNCHANGED <<pid, parent, chan, killed, state>>
      BY <3>2
    <3> QED
      BY <1>13, <3>1, <3>2 DEF WaitReap
  <2>4. state'[idx[p]] = "UNUSED" \/ (state' = state /\ parent' = parent)
    BY <1>13, <2>2 DEF WaitReap, FreeProc, TypeInv
  <2>5. state[p] = "RUNNING" /\ pc[p] = "wait_scan"
    BY <1>13, Running DEF WaitReap
  <2>6. \A q \in Procs : Dozing(q)' => Dozing(q) /\ q # p
    BY <2>1, <2>2, <2>3, <2>4, <2>5 DEF Dozing
  <2> QED
    BY <2>1, <2>2, <2>3, <2>4, <2>5, <2>6, DozeFrame, SMTT(30)
<1>14. CASE WaitSleep(c, p)
  <2>1. pc[p] = "wait_scan" /\ idx[p] = NPROC /\ havekids[p]
    BY <1>14 DEF WaitSleep
  <2>2. UNCHANGED <<state, parent, widx>> /\ \A q \in Procs \ {p} : pc'[q] = pc[q]
    BY <1>14 DEF WaitSleep, procVars, TypeInv
  <2>3. (\E k \in Procs : parent[k] = p) /\ ~ ZombieChild(p)
    BY <2>1 DEF ScanInv, ZombieChild
  <2>4. \A q \in Procs \ {p} : Dozing(q)' => Dozing(q)
    BY <2>2 DEF Dozing
  <2>5. \A q \in Procs : ZombieChild(q)' <=> ZombieChild(q)
    BY <2>2 DEF ZombieChild
  <2> QED
    BY <2>1, <2>2, <2>3, <2>4, <2>5 DEF DozeInv
<1> QED
  BY <1>1, <1>2, <1>3, <1>4, <1>5, <1>6, <1>7, <1>8, <1>9, <1>10, <1>11, <1>12, <1>13, <1>14
     DEF TreeStep

-----------------------------------------------------------------------------
(* After userinit() the invariant holds: init is alone, and nobody runs. *)
LEMMA ProcIndInit == Init => ProcInd
<1> SUFFICES ASSUME Init PROVE ProcInd
  OBVIOUS
<1> USE SchedAssumption, Indices
<1>1. SwitchInd
  BY SwitchIndInit
<1>2. TreeInv /\ ParentAlive /\ ScanInv
  BY DEF Init, TreeInv, ParentAlive, ScanInv
<1>3. DozeInv /\ WokenInv
  BY DEF Init, DozeInv, WokenInv, Dozing
<1> QED
  BY <1>1, <1>2, <1>3 DEF ProcInd

(* Every step of fork(), exit(), wait(), kill() and the scheduler keeps the   *)
(* invariant.                                                                *)
LEMMA ProcIndNext == ProcInd /\ [Next]_vars => ProcInd'
<1> SUFFICES ASSUME ProcInd, [Next]_vars PROVE ProcInd'
  OBVIOUS
<1>1. SwitchInd /\ SwitchInd'
  BY SwitchIndNext DEF ProcInd
<1>2. ASSUME NEW c \in CPU, NEW p \in Procs, AnyStep(c, p) PROVE ProcInd'
  <2>1. TreeStep(c, p)
    BY <1>1, <1>2, TreeStepCases
  <2> QED
    BY <1>1, <2>1, TreeInvStep, ParentAliveStep, ScanInvStep, WokenInvStep, DozeInvStep DEF ProcInd
<1>3. CASE UNCHANGED vars
  <2>1. (TreeInv /\ ParentAlive /\ ScanInv)'
    BY <1>3 DEF ProcInd, vars, TreeInv, ParentAlive, ScanInv
  <2>2. (DozeInv /\ WokenInv)'
    BY <1>3 DEF ProcInd, vars, DozeInv, WokenInv, Dozing, ZombieChild
  <2> QED
    BY <1>1, <2>1, <2>2 DEF ProcInd
<1> QED
  BY <1>2, <1>3, NextIsStep

(* The tree stays whole, however many CPUs fork, exit, wait and kill at once. *)
THEOREM ProcInvariant == Spec => []ProcInd
  BY ProcIndInit, ProcIndNext, PTL DEF Spec

(* Nobody is left with a dead parent: exit() gives its children to init       *)
(* before it turns into a zombie, the ones fork() is still making included.  *)
THEOREM ProcParentAlive == Spec => []ParentAlive
<1>1. ProcInd => ParentAlive
  BY DEF ProcInd
<1> QED
  BY <1>1, ProcInvariant, PTL

(* A parent asleep in wait() has a child, and no zombie among its children    *)
(* but those init has just inherited and is about to be woken for.           *)
THEOREM ProcNoMissedExit == Spec => []NoMissedExit
<1>1. ProcInd => NoMissedExit
  BY DEF ProcInd, NoMissedExit, DozeInv, Dozing, ZombieChild, Waiting, Children
<1> QED
  BY <1>1, ProcInvariant, PTL

(* The tests of sched() never panic, in sleep() or exit(), and no zombie is   *)
(* ever switched to again.                                                   *)
THEOREM ProcNoPanic == Spec => []NoPanic
<1>1. ASSUME SwitchInd PROVE NoPanic
  <2>inv. SwitchInv /\ StateInv /\ WaitLockInv
    BY <1>1 DEF SwitchInd
  <2> SUFFICES ASSUME NEW c \in CPU, NEW p \in Procs, OnCPU(c, p), ~ yielded[p]
               PROVE  /\ pc[p] \in {"sleep_sched", "exit_sched"} =>
                           /\ plock[p] = c
                           /\ Cardinality(HeldPlocks(c)) + Cardinality(HeldLocks(c)) = 1
                      /\ pc[p] # "zombie"
    BY DEF NoPanic, SchedChecks
  <2>1. pc[p] # "zombie"
    BY <2>inv DEF StateInv, StateOf
  <2>2. ASSUME pc[p] \in {"sleep_sched", "exit_sched"}
        PROVE  plock[p] = c /\ Cardinality(HeldPlocks(c)) + Cardinality(HeldLocks(c)) = 1
    <3>1. plock[p] = c /\ \A q \in Procs : plock[q] = c => q = p
      BY <2>inv, <2>2 DEF SwitchInv, OnCPU, PlockLabels
    <3>2. lock[wait_lock] # c
      BY <2>inv, <2>2 DEF WaitLockInv, OnCPU, WaitLockLabels
    <3>3. HeldPlocks(c) = {p}
      BY <3>1, SMTT(30) DEF HeldPlocks
    <3>4. HeldLocks(c) = {}
      BY <3>2, ProcAssumption DEF HeldLocks
    <3> QED
      BY <3>1, <3>3, <3>4, FS_Singleton, FS_EmptySet, SMTT(30)
  <2> QED
    BY <2>1, <2>2
<1> QED
  BY <1>1, ProcSwitchInvariant, PTL

===============================================================================
