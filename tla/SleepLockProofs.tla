--------------------------- MODULE SleepLockProofs ---------------------------
(***************************************************************************)
(* Proofs about the sleeping lock and the process switching it rests on    *)
(* (modules SleepLock and Sched), for any number of processes and CPUs:    *)
(* mutual exclusion, no lost wakeup, one CPU per process and no panic.     *)
(***************************************************************************)
EXTENDS SleepLock, FiniteSetTheorems, TLAPS

(* Most leaves are reasoning about sets; the ones that are not say so. *)
USE ZenonT(60)

(* Types. *)
LEMMA TypeStep == IInv /\ [Next]_vars => TypeOK'
<1> SUFFICES ASSUME IInv, [Next]_vars PROVE TypeOK'
  OBVIOUS
<1> USE SchedAssumption, SleepLockAssumption DEF IInv, TypeOK, Labels, Procs
<1>1. ASSUME NEW c \in CPU, Return(c)
      PROVE  TypeOK'
  BY <1>1 DEF Return, SwtchReturn
<1>2. ASSUME NEW c \in CPU, NEW p \in Procs, AcquireSleep(c, p)
      PROVE  TypeOK'
  BY <1>2 DEF AcquireSleep, At, OnCPU, Goto
<1>3. ASSUME NEW c \in CPU, NEW p \in Procs, TestLocked(c, p)
      PROVE  TypeOK'
  BY <1>3 DEF TestLocked, At, OnCPU, Goto
<1>4. ASSUME NEW c \in CPU, NEW p \in Procs, TestFree(c, p)
      PROVE  TypeOK'
  BY <1>4 DEF TestFree, At, OnCPU, Goto
<1>5. ASSUME NEW c \in CPU, NEW p \in Procs, ReleaseSleep(c, p)
      PROVE  TypeOK'
  <2>1. lock' \in [Lock -> CPU \cup {NoCPU}] /\ widx' \in [Procs -> 0 .. NPROC]
    BY <1>5, SMTT(30) DEF ReleaseSleep
  <2>2. pc' \in [Procs -> Labels]
    BY <1>5 DEF ReleaseSleep, Goto
  <2>3. locked' \in BOOLEAN
    BY <1>5 DEF ReleaseSleep
  <2> QED
    BY <1>5, <2>1, <2>2, <2>3 DEF ReleaseSleep
<1>6. ASSUME NEW c \in CPU, NEW p \in Procs, Wakeup(c, p)
      PROVE  TypeOK'
  <2>1. state' \in [Procs -> {"RUNNABLE", "RUNNING", "SLEEPING"}]
    <3>1. CASE widx[p] = p
      BY <1>6, <3>1 DEF Wakeup, WakeupStep, WakeupBody
    <3>2. CASE widx[p] # p
      <4>1. \/ state' = [state EXCEPT ![widx[p]] = "RUNNABLE"]
            \/ state' = [state EXCEPT ![widx[p]] = state[widx[p]]]
        BY <1>6, <3>2 DEF Wakeup, WakeupStep, WakeupBody
      <4> QED
        BY <4>1
    <3> QED
      BY <3>1, <3>2
  <2>2. widx' \in [Procs -> 0 .. NPROC]
    BY <1>6, SMTT(30) DEF Wakeup, WakeupStep
  <2> QED
    BY <1>6, <2>1, <2>2 DEF Wakeup, WakeupStep
<1>7. ASSUME NEW c \in CPU, NEW p \in Procs, ReleaseDone(c, p)
      PROVE  TypeOK'
  BY <1>7 DEF ReleaseDone, At, OnCPU, Goto
<1>8. ASSUME NEW c \in CPU, NEW p \in Procs, SleepLockProc(c, p) /\ UNCHANGED <<locked, pid>>
      PROVE  TypeOK'
  BY <1>8 DEF SleepLockProc, At, OnCPU, Goto
<1>9. ASSUME NEW c \in CPU, NEW p \in Procs, SleepRelease(c, p, lk) /\ UNCHANGED <<locked, pid>>
      PROVE  TypeOK'
  BY <1>9 DEF SleepRelease, At, OnCPU, Goto
<1>10. ASSUME NEW c \in CPU, NEW p \in Procs, SleepSched(c, p, lk) /\ UNCHANGED <<locked, pid>>
      PROVE  TypeOK'
  BY <1>10 DEF SleepSched, At, OnCPU, Goto, sched
<1>11. ASSUME NEW c \in CPU, NEW p \in Procs, SleepTidy(c, p) /\ UNCHANGED <<locked, pid>>
      PROVE  TypeOK'
  BY <1>11 DEF SleepTidy, At, OnCPU, Goto
<1>12. ASSUME NEW c \in CPU, NEW p \in Procs, SleepReacquire(c, p, lk, "test") /\ UNCHANGED <<locked, pid>>
      PROVE  TypeOK'
  BY <1>12 DEF SleepReacquire, At, OnCPU, Goto
<1>13. ASSUME NEW c \in CPU, NEW p \in Procs, Resume(c, p)
      PROVE  TypeOK'
  BY <1>13 DEF Resume, OnCPU, YieldReturn
<1>14. ASSUME NEW c \in CPU, NEW p \in Procs, Dispatch(c, p)
      PROVE  TypeOK'
  BY <1>14 DEF Dispatch, Schedule
<1>15. ASSUME NEW c \in CPU, NEW p \in Procs, Preempt(c, p)
      PROVE  TypeOK'
  BY <1>15 DEF Preempt, OnCPU, Yield, sched
<1>16. CASE UNCHANGED vars
  BY <1>16 DEF vars
<1> QED
  BY <1>1, <1>2, <1>3, <1>4, <1>5, <1>6, <1>7, <1>8, <1>9, <1>10, <1>11, <1>12, <1>13, <1>14, <1>15, <1>16 DEF Next, ProcStep, LockStep, SleepStep, Sleep

(* p->lock is handed over with the CPU. *)
LEMMA SwitchStep == IInv /\ [Next]_vars => SwitchInv'
<1> SUFFICES ASSUME IInv, [Next]_vars PROVE SwitchInv'
  OBVIOUS
<1> USE SchedAssumption, SleepLockAssumption DEF IInv, TypeOK, Labels
<1>1. ASSUME NEW c \in CPU, Return(c)
      PROVE  SwitchInv'
  BY <1>1, SMTT(30) DEF Return, OnCPU, SwtchReturn, SwitchInv, OneCPUPerProcess, HoldsPlock, SwitchedOutInv
<1>2. ASSUME NEW c \in CPU, NEW p \in Procs, AcquireSleep(c, p)
      PROVE  SwitchInv'
  BY <1>2, SMTT(30) DEF AcquireSleep, At, OnCPU, Goto, SwitchInv, OneCPUPerProcess, HoldsPlock, SwitchedOutInv
<1>3. ASSUME NEW c \in CPU, NEW p \in Procs, TestLocked(c, p)
      PROVE  SwitchInv'
  BY <1>3, SMTT(30) DEF TestLocked, At, OnCPU, Goto, SwitchInv, OneCPUPerProcess, HoldsPlock, SwitchedOutInv
<1>4. ASSUME NEW c \in CPU, NEW p \in Procs, TestFree(c, p)
      PROVE  SwitchInv'
  BY <1>4, SMTT(30) DEF TestFree, At, OnCPU, Goto, SwitchInv, OneCPUPerProcess, HoldsPlock, SwitchedOutInv
<1>5. ASSUME NEW c \in CPU, NEW p \in Procs, ReleaseSleep(c, p)
      PROVE  SwitchInv'
  BY <1>5, SMTT(30) DEF ReleaseSleep, At, OnCPU, Goto, SwitchInv, OneCPUPerProcess, HoldsPlock, SwitchedOutInv
<1>6. ASSUME NEW c \in CPU, NEW p \in Procs, Wakeup(c, p)
      PROVE  SwitchInv'
  BY <1>6, SMTT(30) DEF Wakeup, At, OnCPU, WakeupStep, WakeupBody, SwitchInv, OneCPUPerProcess, HoldsPlock, SwitchedOutInv
<1>7. ASSUME NEW c \in CPU, NEW p \in Procs, ReleaseDone(c, p)
      PROVE  SwitchInv'
  BY <1>7, SMTT(30) DEF ReleaseDone, At, OnCPU, Goto, SwitchInv, OneCPUPerProcess, HoldsPlock, SwitchedOutInv
<1>8. ASSUME NEW c \in CPU, NEW p \in Procs, SleepLockProc(c, p) /\ UNCHANGED <<locked, pid>>
      PROVE  SwitchInv'
  BY <1>8, SMTT(30) DEF SleepLockProc, At, OnCPU, Goto, SwitchInv, OneCPUPerProcess, HoldsPlock, SwitchedOutInv
<1>9. ASSUME NEW c \in CPU, NEW p \in Procs, SleepRelease(c, p, lk) /\ UNCHANGED <<locked, pid>>
      PROVE  SwitchInv'
  BY <1>9, SMTT(30) DEF SleepRelease, At, OnCPU, Goto, SwitchInv, OneCPUPerProcess, HoldsPlock, SwitchedOutInv
<1>10. ASSUME NEW c \in CPU, NEW p \in Procs, SleepSched(c, p, lk) /\ UNCHANGED <<locked, pid>>
      PROVE  SwitchInv'
  BY <1>10, SMTT(30) DEF SleepSched, At, OnCPU, Goto, sched, SwitchInv, OneCPUPerProcess, HoldsPlock, SwitchedOutInv
<1>11. ASSUME NEW c \in CPU, NEW p \in Procs, SleepTidy(c, p) /\ UNCHANGED <<locked, pid>>
      PROVE  SwitchInv'
  BY <1>11, SMTT(30) DEF SleepTidy, At, OnCPU, Goto, SwitchInv, OneCPUPerProcess, HoldsPlock, SwitchedOutInv
<1>12. ASSUME NEW c \in CPU, NEW p \in Procs, SleepReacquire(c, p, lk, "test") /\ UNCHANGED <<locked, pid>>
      PROVE  SwitchInv'
  BY <1>12, SMTT(30) DEF SleepReacquire, At, OnCPU, Goto, SwitchInv, OneCPUPerProcess, HoldsPlock, SwitchedOutInv
<1>13. ASSUME NEW c \in CPU, NEW p \in Procs, Resume(c, p)
      PROVE  SwitchInv'
  BY <1>13, SMTT(30) DEF Resume, OnCPU, YieldReturn, SwitchInv, OneCPUPerProcess, HoldsPlock, SwitchedOutInv
<1>14. ASSUME NEW c \in CPU, NEW p \in Procs, Dispatch(c, p)
      PROVE  SwitchInv'
  <2>1. /\ spc[c] = "scan" /\ cproc[c] = NoProc /\ plock[p] = NoCPU /\ state[p] = "RUNNABLE"
        /\ UNCHANGED <<pc, yielded>>
    BY <1>14 DEF Dispatch, Schedule, SwitchInv
  <2>2. NoProc \notin Procs /\ \A d \in CPU : cproc[d] # p
    <3>1. NoProc \notin Procs
      BY DEF Procs
    <3>2. ASSUME NEW d \in CPU, cproc[d] = p PROVE FALSE
      <4>1. spc[d] = "swtch" \/ spc[d] = "back"
        BY <3>1, <3>2, SMTT(30) DEF SwitchInv
      <4>2. spc[d] # "swtch"
        BY <2>1, <3>2 DEF SwitchInv, OnCPU
      <4>3. spc[d] # "back"
        BY <2>1, <3>2, SMTT(30) DEF SwitchInv
      <4> QED
        BY <4>1, <4>2, <4>3
    <3> QED
      BY <3>1, <3>2
  <2>3. HoldsPlock(p) /\ \A q \in Procs : HoldsPlock(q)' <=> HoldsPlock(q)
    BY <2>1 DEF SwitchedOutInv, HoldsPlock
  <2>4. /\ cproc'[c] = p /\ spc'[c] = "swtch" /\ plock'[p] = c /\ state'[p] = "RUNNING"
        /\ \A d \in CPU \ {c} : cproc'[d] = cproc[d] /\ spc'[d] = spc[d]
        /\ \A q \in Procs \ {p} : plock'[q] = plock[q] /\ state'[q] = state[q]
    BY <1>14 DEF Dispatch, Schedule
  <2>5. \A d \in CPU, q \in Procs : OnCPU(d, q)' <=> IF d = c THEN q = p ELSE OnCPU(d, q)
    BY <2>4 DEF OnCPU
  <2>6. \A q \in Procs : state'[q] = "RUNNING" <=> \E d \in CPU : OnCPU(d, q)'
    BY <2>1, <2>2, <2>4, <2>5, SMTT(30) DEF SwitchInv, OnCPU
  <2>7. \A q \in Procs, d \in CPU :
          plock'[q] = d => cproc'[d] = q /\ (spc'[d] = "back" \/ HoldsPlock(q)')
    <3>1. ASSUME NEW q \in Procs \ {p}, NEW d \in CPU, plock[q] = d
          PROVE  d # c /\ cproc[d] = q /\ (spc[d] = "back" \/ HoldsPlock(q))
      BY <2>1, <2>2, <3>1, SMTT(30) DEF SwitchInv
    <3> QED
      BY <2>3, <2>4, <3>1, SMTT(30)
  <2>8. \A d \in CPU, q \in Procs : OnCPU(d, q)' /\ HoldsPlock(q)' => plock'[q] = d
    BY <2>1, <2>2, <2>3, <2>4, <2>5, SMTT(30) DEF SwitchInv, OnCPU
  <2> QED
    BY <2>1, <2>2, <2>4, <2>6, <2>7, <2>8, SMTT(30) DEF SwitchInv, OneCPUPerProcess
<1>15. ASSUME NEW c \in CPU, NEW p \in Procs, Preempt(c, p)
      PROVE  SwitchInv'
  BY <1>15, SMTT(30) DEF Preempt, OnCPU, Yield, sched, SwitchInv, OneCPUPerProcess, HoldsPlock, HeldPlocks, HeldLocks, SwitchedOutInv
<1>16. CASE UNCHANGED vars
  BY <1>16, SMTT(30) DEF vars, OnCPU, SwitchInv, OneCPUPerProcess, HoldsPlock, SwitchedOutInv
<1> QED
  BY <1>1, <1>2, <1>3, <1>4, <1>5, <1>6, <1>7, <1>8, <1>9, <1>10, <1>11, <1>12, <1>13, <1>14, <1>15, <1>16 DEF Next, ProcStep, LockStep, SleepStep, Sleep

(* A process leaves the CPU in yield() or in sleep() only. *)
LEMMA SwitchedOutStep == IInv /\ [Next]_vars => SwitchedOutInv'
<1> SUFFICES ASSUME IInv, [Next]_vars PROVE SwitchedOutInv'
  OBVIOUS
<1> USE SchedAssumption, SleepLockAssumption DEF IInv, TypeOK, Labels
<1>1. ASSUME NEW c \in CPU, Return(c)
      PROVE  SwitchedOutInv'
  BY <1>1 DEF Return, OnCPU, SwtchReturn, SwitchInv, HoldsPlock, SwitchedOutInv, SpinInv, HoldsLk
<1>2. ASSUME NEW c \in CPU, NEW p \in Procs, AcquireSleep(c, p)
      PROVE  SwitchedOutInv'
  BY <1>2, SMTT(30) DEF AcquireSleep, At, OnCPU, Goto, SwitchInv, HoldsPlock, SwitchedOutInv, SpinInv, HoldsLk
<1>3. ASSUME NEW c \in CPU, NEW p \in Procs, TestLocked(c, p)
      PROVE  SwitchedOutInv'
  BY <1>3, SMTT(30) DEF TestLocked, At, OnCPU, Goto, SwitchInv, HoldsPlock, SwitchedOutInv, SpinInv, HoldsLk
<1>4. ASSUME NEW c \in CPU, NEW p \in Procs, TestFree(c, p)
      PROVE  SwitchedOutInv'
  BY <1>4, SMTT(30) DEF TestFree, At, OnCPU, Goto, SwitchInv, HoldsPlock, SwitchedOutInv, SpinInv, HoldsLk
<1>5. ASSUME NEW c \in CPU, NEW p \in Procs, ReleaseSleep(c, p)
      PROVE  SwitchedOutInv'
  BY <1>5, SMTT(30) DEF ReleaseSleep, At, OnCPU, Goto, SwitchInv, HoldsPlock, SwitchedOutInv, SpinInv, HoldsLk
<1>6. ASSUME NEW c \in CPU, NEW p \in Procs, Wakeup(c, p)
      PROVE  SwitchedOutInv'
  BY <1>6, SMTT(30) DEF Wakeup, At, OnCPU, WakeupStep, WakeupBody, SwitchInv, HoldsPlock, SwitchedOutInv, SpinInv, HoldsLk
<1>7. ASSUME NEW c \in CPU, NEW p \in Procs, ReleaseDone(c, p)
      PROVE  SwitchedOutInv'
  BY <1>7, SMTT(30) DEF ReleaseDone, At, OnCPU, Goto, SwitchInv, HoldsPlock, SwitchedOutInv, SpinInv, HoldsLk
<1>8. ASSUME NEW c \in CPU, NEW p \in Procs, SleepLockProc(c, p) /\ UNCHANGED <<locked, pid>>
      PROVE  SwitchedOutInv'
  BY <1>8, SMTT(30) DEF SleepLockProc, At, OnCPU, Goto, SwitchInv, HoldsPlock, SwitchedOutInv, SpinInv, HoldsLk
<1>9. ASSUME NEW c \in CPU, NEW p \in Procs, SleepRelease(c, p, lk) /\ UNCHANGED <<locked, pid>>
      PROVE  SwitchedOutInv'
  BY <1>9, SMTT(30) DEF SleepRelease, At, OnCPU, Goto, SwitchInv, HoldsPlock, SwitchedOutInv, SpinInv, HoldsLk
<1>10. ASSUME NEW c \in CPU, NEW p \in Procs, SleepSched(c, p, lk) /\ UNCHANGED <<locked, pid>>
      PROVE  SwitchedOutInv'
  BY <1>10, SMTT(30) DEF SleepSched, At, OnCPU, Goto, sched, SwitchInv, HoldsPlock, SwitchedOutInv, SpinInv, HoldsLk
<1>11. ASSUME NEW c \in CPU, NEW p \in Procs, SleepTidy(c, p) /\ UNCHANGED <<locked, pid>>
      PROVE  SwitchedOutInv'
  BY <1>11, SMTT(30) DEF SleepTidy, At, OnCPU, Goto, SwitchInv, HoldsPlock, SwitchedOutInv, SpinInv, HoldsLk
<1>12. ASSUME NEW c \in CPU, NEW p \in Procs, SleepReacquire(c, p, lk, "test") /\ UNCHANGED <<locked, pid>>
      PROVE  SwitchedOutInv'
  BY <1>12, SMTT(30) DEF SleepReacquire, At, OnCPU, Goto, SwitchInv, HoldsPlock, SwitchedOutInv, SpinInv, HoldsLk
<1>13. ASSUME NEW c \in CPU, NEW p \in Procs, Resume(c, p)
      PROVE  SwitchedOutInv'
  BY <1>13, SMTT(30) DEF Resume, OnCPU, YieldReturn, SwitchInv, HoldsPlock, SwitchedOutInv, SpinInv, HoldsLk
<1>14. ASSUME NEW c \in CPU, NEW p \in Procs, Dispatch(c, p)
      PROVE  SwitchedOutInv'
  BY <1>14, SMTT(30) DEF Dispatch, OnCPU, Schedule, SwitchInv, HoldsPlock, SwitchedOutInv, SpinInv, HoldsLk
<1>15. ASSUME NEW c \in CPU, NEW p \in Procs, Preempt(c, p)
      PROVE  SwitchedOutInv'
  BY <1>15, SMTT(30) DEF Preempt, OnCPU, Yield, sched, SwitchInv, HoldsPlock, HeldPlocks, HeldLocks, SwitchedOutInv, SpinInv, HoldsLk
<1>16. CASE UNCHANGED vars
  BY <1>16 DEF vars, OnCPU, SwitchInv, HoldsPlock, SwitchedOutInv, SpinInv, HoldsLk
<1> QED
  BY <1>1, <1>2, <1>3, <1>4, <1>5, <1>6, <1>7, <1>8, <1>9, <1>10, <1>11, <1>12, <1>13, <1>14, <1>15, <1>16 DEF Next, ProcStep, LockStep, SleepStep, Sleep

(* lk->lk is held where the code says. *)
LEMMA SpinStep == IInv /\ [Next]_vars => SpinInv'
<1> SUFFICES ASSUME IInv, [Next]_vars PROVE SpinInv'
  OBVIOUS
<1> USE SchedAssumption, SleepLockAssumption DEF IInv, TypeOK, Labels
<1>1. ASSUME NEW c \in CPU, Return(c)
      PROVE  SpinInv'
  BY <1>1, SMTT(30) DEF Return, OnCPU, SwtchReturn, SwitchInv, OneCPUPerProcess, HoldsPlock, SwitchedOutInv, SpinInv, HoldsLk
<1>2. ASSUME NEW c \in CPU, NEW p \in Procs, AcquireSleep(c, p)
      PROVE  SpinInv'
  BY <1>2, SMTT(30) DEF AcquireSleep, At, OnCPU, Goto, SwitchInv, OneCPUPerProcess, HoldsPlock, SwitchedOutInv, SpinInv, HoldsLk
<1>3. ASSUME NEW c \in CPU, NEW p \in Procs, TestLocked(c, p)
      PROVE  SpinInv'
  BY <1>3, SMTT(30) DEF TestLocked, At, OnCPU, Goto, SwitchInv, OneCPUPerProcess, HoldsPlock, SwitchedOutInv, SpinInv, HoldsLk
<1>4. ASSUME NEW c \in CPU, NEW p \in Procs, TestFree(c, p)
      PROVE  SpinInv'
  BY <1>4, SMTT(30) DEF TestFree, At, OnCPU, Goto, SwitchInv, OneCPUPerProcess, HoldsPlock, SwitchedOutInv, SpinInv, HoldsLk
<1>5. ASSUME NEW c \in CPU, NEW p \in Procs, ReleaseSleep(c, p)
      PROVE  SpinInv'
  BY <1>5, SMTT(30) DEF ReleaseSleep, At, OnCPU, Goto, SwitchInv, OneCPUPerProcess, HoldsPlock, SwitchedOutInv, SpinInv, HoldsLk
<1>6. ASSUME NEW c \in CPU, NEW p \in Procs, Wakeup(c, p)
      PROVE  SpinInv'
  BY <1>6, SMTT(30) DEF Wakeup, At, OnCPU, WakeupStep, WakeupBody, SwitchInv, OneCPUPerProcess, HoldsPlock, SwitchedOutInv, SpinInv, HoldsLk
<1>7. ASSUME NEW c \in CPU, NEW p \in Procs, ReleaseDone(c, p)
      PROVE  SpinInv'
  BY <1>7, SMTT(30) DEF ReleaseDone, At, OnCPU, Goto, SwitchInv, OneCPUPerProcess, HoldsPlock, SwitchedOutInv, SpinInv, HoldsLk
<1>8. ASSUME NEW c \in CPU, NEW p \in Procs, SleepLockProc(c, p) /\ UNCHANGED <<locked, pid>>
      PROVE  SpinInv'
  BY <1>8, SMTT(30) DEF SleepLockProc, At, OnCPU, Goto, SwitchInv, OneCPUPerProcess, HoldsPlock, SwitchedOutInv, SpinInv, HoldsLk
<1>9. ASSUME NEW c \in CPU, NEW p \in Procs, SleepRelease(c, p, lk) /\ UNCHANGED <<locked, pid>>
      PROVE  SpinInv'
  BY <1>9, SMTT(30) DEF SleepRelease, At, OnCPU, Goto, SwitchInv, OneCPUPerProcess, HoldsPlock, SwitchedOutInv, SpinInv, HoldsLk
<1>10. ASSUME NEW c \in CPU, NEW p \in Procs, SleepSched(c, p, lk) /\ UNCHANGED <<locked, pid>>
      PROVE  SpinInv'
  BY <1>10, SMTT(30) DEF SleepSched, At, OnCPU, Goto, sched, SwitchInv, OneCPUPerProcess, HoldsPlock, SwitchedOutInv, SpinInv, HoldsLk
<1>11. ASSUME NEW c \in CPU, NEW p \in Procs, SleepTidy(c, p) /\ UNCHANGED <<locked, pid>>
      PROVE  SpinInv'
  BY <1>11, SMTT(30) DEF SleepTidy, At, OnCPU, Goto, SwitchInv, OneCPUPerProcess, HoldsPlock, SwitchedOutInv, SpinInv, HoldsLk
<1>12. ASSUME NEW c \in CPU, NEW p \in Procs, SleepReacquire(c, p, lk, "test") /\ UNCHANGED <<locked, pid>>
      PROVE  SpinInv'
  BY <1>12, SMTT(30) DEF SleepReacquire, At, OnCPU, Goto, SwitchInv, OneCPUPerProcess, HoldsPlock, SwitchedOutInv, SpinInv, HoldsLk
<1>13. ASSUME NEW c \in CPU, NEW p \in Procs, Resume(c, p)
      PROVE  SpinInv'
  BY <1>13, SMTT(30) DEF Resume, OnCPU, YieldReturn, SwitchInv, OneCPUPerProcess, HoldsPlock, SwitchedOutInv, SpinInv, HoldsLk
<1>14. ASSUME NEW c \in CPU, NEW p \in Procs, Dispatch(c, p)
      PROVE  SpinInv'
  BY <1>14, SMTT(30) DEF Dispatch, OnCPU, Schedule, SwitchInv, OneCPUPerProcess, HoldsPlock, SwitchedOutInv, SpinInv, HoldsLk
<1>15. ASSUME NEW c \in CPU, NEW p \in Procs, Preempt(c, p)
      PROVE  SpinInv'
  BY <1>15, SMTT(30) DEF Preempt, OnCPU, Yield, sched, SwitchInv, OneCPUPerProcess, HoldsPlock, HeldPlocks, HeldLocks, SwitchedOutInv, SpinInv, HoldsLk
<1>16. CASE UNCHANGED vars
  BY <1>16, SMTT(30) DEF vars, OnCPU, SwitchInv, OneCPUPerProcess, HoldsPlock, SwitchedOutInv, SpinInv, HoldsLk
<1> QED
  BY <1>1, <1>2, <1>3, <1>4, <1>5, <1>6, <1>7, <1>8, <1>9, <1>10, <1>11, <1>12, <1>13, <1>14, <1>15, <1>16 DEF Next, ProcStep, LockStep, SleepStep, Sleep

(* lk->lk excludes: one process at most is where it holds it. *)
LEMMA OneHoldsLk ==
  ASSUME IInv, NEW p \in Procs, NEW q \in Procs, HoldsLk(p), HoldsLk(q)
  PROVE  p = q
<1>1. ASSUME NEW r \in Procs, HoldsLk(r) PROVE \E c \in CPU : OnCPU(c, r) /\ lock[lk] = c
  BY <1>1, SMTT(30) DEF IInv, SwitchedOutInv, SwitchInv, SpinInv, HoldsLk
<1> QED
  BY <1>1 DEF OnCPU

(* Nobody who sleeps, or is about to, is forgotten. *)
LEMMA WaitStep == IInv /\ [Next]_vars => WaitInv'
<1> SUFFICES ASSUME IInv, [Next]_vars PROVE WaitInv'
  OBVIOUS
<1> USE SchedAssumption, SleepLockAssumption DEF IInv, TypeOK, Labels
<1>1. ASSUME NEW c \in CPU, Return(c)
      PROVE  WaitInv'
  BY <1>1 DEF Return, OnCPU, SwtchReturn, SwitchInv, OneCPUPerProcess, HoldsPlock, SwitchedOutInv, SpinInv, HoldsLk, WaitInv, Holds
<1>2. ASSUME NEW c \in CPU, NEW p \in Procs, AcquireSleep(c, p)
      PROVE  WaitInv'
  BY <1>2, SMTT(30) DEF AcquireSleep, At, OnCPU, Goto, SwitchInv, OneCPUPerProcess, HoldsPlock, SwitchedOutInv, SpinInv, HoldsLk, WaitInv, Holds
<1>3. ASSUME NEW c \in CPU, NEW p \in Procs, TestLocked(c, p)
      PROVE  WaitInv'
  BY <1>3, SMTT(30) DEF TestLocked, At, OnCPU, Goto, SwitchInv, OneCPUPerProcess, HoldsPlock, SwitchedOutInv, SpinInv, HoldsLk, WaitInv, Holds
<1>4. ASSUME NEW c \in CPU, NEW p \in Procs, TestFree(c, p)
      PROVE  WaitInv'
  BY <1>4, SMTT(30) DEF TestFree, At, OnCPU, Goto, SwitchInv, OneCPUPerProcess, HoldsPlock, SwitchedOutInv, SpinInv, HoldsLk, WaitInv, Holds
<1>5. ASSUME NEW c \in CPU, NEW p \in Procs, ReleaseSleep(c, p)
      PROVE  WaitInv'
  <2>1. /\ locked' = FALSE /\ state' = state /\ lock[lk] = NoCPU
        /\ pc[p] = "critical" /\ pc' = [pc EXCEPT ![p] = "wakeup"]
        /\ widx' = [widx EXCEPT ![p] = 0]
    BY <1>5 DEF ReleaseSleep, At, Goto
  <2>2. \A q \in Procs : ~ HoldsLk(q)
    BY <2>1, SchedAssumption, SMTT(30) DEF SpinInv, SwitchInv, SwitchedOutInv, HoldsLk
  <2>3. \A q \in Procs : ~ Holds(q)'
    BY <2>1 DEF WaitInv, Holds
  <2>4. \A q \in Procs : pc'[q] \notin {"sleep_lock_proc", "sleep_release"}
    BY <2>1, <2>2 DEF HoldsLk
  <2>5. pc'[p] = "wakeup" /\ \A q \in Procs : widx'[p] <= q
    BY <2>1, SMTT(30) DEF Procs
  <2> QED
    BY <2>3, <2>4, <2>5 DEF WaitInv
<1>6. ASSUME NEW c \in CPU, NEW p \in Procs, Wakeup(c, p)
      PROVE  WaitInv'
  <2>1. /\ UNCHANGED <<chan, plock, pc, yielded, locked, pid>>
        /\ OnCPU(c, p) /\ pc[p] = "wakeup" /\ widx[p] < NPROC
        /\ widx' = [widx EXCEPT ![p] = @ + 1]
    BY <1>6 DEF Wakeup, WakeupStep, At
  <2>2. widx[p] \in Procs /\ widx'[p] = widx[p] + 1
    BY <2>1, SMTT(30) DEF Procs
  <2>3. state[p] = "RUNNING"
    BY <2>1 DEF SwitchInv
  <2>4. \A q \in Procs : state'[q] = "SLEEPING" => state[q] = "SLEEPING"
    BY <1>6, <2>2 DEF Wakeup, WakeupStep, WakeupBody
  <2>5. widx[p] # p => plock[widx[p]] = NoCPU /\ state'[widx[p]] # "SLEEPING"
    BY <1>6, <2>2, SMTT(30) DEF Wakeup, WakeupStep, WakeupBody, SwitchedOutInv
  <2>6. ASSUME NEW q \in Procs, pc'[q] = "sleep_sched" \/ state'[q] = "SLEEPING", ~ locked
        PROVE  \E r \in Procs : pc'[r] = "wakeup" /\ widx'[r] <= q
    <3>1. PICK r \in Procs : pc[r] = "wakeup" /\ widx[r] <= q
      BY <2>1, <2>4, <2>6 DEF WaitInv
    <3>2. r = p
      BY <2>1, <3>1, OneHoldsLk DEF HoldsLk
    <3>3. q # p
      BY <2>1, <2>3, <2>4, <2>6
    <3>4. q # widx[p]
      <4>1. CASE pc[q] = "sleep_sched"
        <5>1. state[q] = "RUNNING"
          BY <4>1 DEF SwitchedOutInv
        <5>2. PICK d \in CPU : OnCPU(d, q)
          BY <5>1 DEF SwitchInv
        <5>3. plock[q] = d
          BY <4>1, <5>2, SMTT(30) DEF SwitchInv, HoldsPlock
        <5> QED
          BY <2>5, <3>3, <5>3, SchedAssumption
      <4>2. CASE state'[q] = "SLEEPING"
        BY <2>5, <3>3, <4>2
      <4> QED
        BY <2>1, <2>6, <4>1, <4>2
    <3>5. widx'[p] <= q
      BY <2>2, <3>1, <3>2, <3>4, SMTT(30) DEF Procs
    <3> QED
      BY <2>1, <3>5
  <2> QED
    BY <2>1, <2>6 DEF WaitInv, Holds
<1>7. ASSUME NEW c \in CPU, NEW p \in Procs, ReleaseDone(c, p)
      PROVE  WaitInv'
  <2>1. /\ UNCHANGED <<state, widx, locked, pid>>
        /\ pc[p] = "wakeup" /\ widx[p] = NPROC /\ pc' = [pc EXCEPT ![p] = "user"]
    BY <1>7 DEF ReleaseDone, At, Goto
  <2>2. ASSUME NEW q \in Procs, pc[q] = "sleep_sched" \/ state[q] = "SLEEPING" PROVE locked
    <3>1. SUFFICES ASSUME ~ locked PROVE FALSE
      OBVIOUS
    <3>2. PICK r \in Procs : pc[r] = "wakeup" /\ widx[r] <= q
      BY <2>2, <3>1 DEF WaitInv
    <3>3. r = p
      BY <2>1, <3>2, OneHoldsLk DEF HoldsLk
    <3> QED
      BY <2>1, <3>2, <3>3, SMTT(30) DEF Procs
  <2> QED
    BY <2>1, <2>2 DEF WaitInv, Holds
<1>8. ASSUME NEW c \in CPU, NEW p \in Procs, SleepLockProc(c, p) /\ UNCHANGED <<locked, pid>>
      PROVE  WaitInv'
  BY <1>8, SMTT(30) DEF SleepLockProc, At, OnCPU, Goto, SwitchInv, OneCPUPerProcess, HoldsPlock, SwitchedOutInv, SpinInv, HoldsLk, WaitInv, Holds
<1>9. ASSUME NEW c \in CPU, NEW p \in Procs, SleepRelease(c, p, lk) /\ UNCHANGED <<locked, pid>>
      PROVE  WaitInv'
  BY <1>9, SMTT(20) DEF SleepRelease, At, OnCPU, Goto, SwitchInv, OneCPUPerProcess, HoldsPlock, SwitchedOutInv, SpinInv, HoldsLk, WaitInv, Holds
<1>10. ASSUME NEW c \in CPU, NEW p \in Procs, SleepSched(c, p, lk) /\ UNCHANGED <<locked, pid>>
      PROVE  WaitInv'
  BY <1>10, SMTT(30) DEF SleepSched, At, OnCPU, Goto, sched, SwitchInv, OneCPUPerProcess, HoldsPlock, SwitchedOutInv, SpinInv, HoldsLk, WaitInv, Holds
<1>11. ASSUME NEW c \in CPU, NEW p \in Procs, SleepTidy(c, p) /\ UNCHANGED <<locked, pid>>
      PROVE  WaitInv'
  BY <1>11, SMTT(30) DEF SleepTidy, At, OnCPU, Goto, SwitchInv, OneCPUPerProcess, HoldsPlock, SwitchedOutInv, SpinInv, HoldsLk, WaitInv, Holds
<1>12. ASSUME NEW c \in CPU, NEW p \in Procs, SleepReacquire(c, p, lk, "test") /\ UNCHANGED <<locked, pid>>
      PROVE  WaitInv'
  BY <1>12, SMTT(30) DEF SleepReacquire, At, OnCPU, Goto, SwitchInv, OneCPUPerProcess, HoldsPlock, SwitchedOutInv, SpinInv, HoldsLk, WaitInv, Holds
<1>13. ASSUME NEW c \in CPU, NEW p \in Procs, Resume(c, p)
      PROVE  WaitInv'
  BY <1>13 DEF Resume, OnCPU, YieldReturn, SwitchInv, OneCPUPerProcess, HoldsPlock, SwitchedOutInv, SpinInv, HoldsLk, WaitInv, Holds
<1>14. ASSUME NEW c \in CPU, NEW p \in Procs, Dispatch(c, p)
      PROVE  WaitInv'
  BY <1>14, SMTT(30) DEF Dispatch, OnCPU, Schedule, SwitchInv, OneCPUPerProcess, HoldsPlock, SwitchedOutInv, SpinInv, HoldsLk, WaitInv, Holds
<1>15. ASSUME NEW c \in CPU, NEW p \in Procs, Preempt(c, p)
      PROVE  WaitInv'
  BY <1>15, SMTT(30) DEF Preempt, OnCPU, Yield, sched, SwitchInv, OneCPUPerProcess, HoldsPlock, SwitchedOutInv, SpinInv, HoldsLk, WaitInv, Holds
<1>16. CASE UNCHANGED vars
  BY <1>16 DEF vars, OnCPU, SwitchInv, OneCPUPerProcess, HoldsPlock, SwitchedOutInv, SpinInv, HoldsLk, WaitInv, Holds
<1> QED
  BY <1>1, <1>2, <1>3, <1>4, <1>5, <1>6, <1>7, <1>8, <1>9, <1>10, <1>11, <1>12, <1>13, <1>14, <1>15, <1>16 DEF Next, ProcStep, LockStep, SleepStep, Sleep

-----------------------------------------------------------------------------
(* The invariant holds when every process is RUNNABLE and the lock is free. *)
LEMMA InitInv == Init => IInv
<1> SUFFICES ASSUME Init PROVE IInv
  OBVIOUS
<1> USE SchedAssumption, SleepLockAssumption DEF Init
<1>1. TypeOK
  <2>1. /\ state \in [Procs -> {"RUNNABLE", "RUNNING", "SLEEPING"}]
        /\ chan \in [Procs -> {NoChan, lk}]
        /\ plock \in [Procs -> CPU \cup {NoCPU}]
        /\ lock \in [Lock -> CPU \cup {NoCPU}]
    OBVIOUS
  <2>2. /\ cproc \in [CPU -> Procs \cup {NoProc}]
        /\ spc \in [CPU -> {"scan", "swtch", "back"}]
        /\ pid \in Procs \cup {NoProc}
    OBVIOUS
  <2>3. pc \in [Procs -> Labels] /\ widx \in [Procs -> 0 .. NPROC]
    BY SMTT(30) DEF Labels
  <2>4. yielded \in [Procs -> BOOLEAN]
    OBVIOUS
  <2>5. locked \in BOOLEAN
    OBVIOUS
  <2> QED
    BY <2>1, <2>2, <2>3, <2>4, <2>5 DEF TypeOK
<1>2. SwitchInv
  BY DEF SwitchInv, OneCPUPerProcess, OnCPU, HoldsPlock
<1>3. SwitchedOutInv
  BY DEF SwitchedOutInv
<1>4. SpinInv
  BY DEF SpinInv, OnCPU
<1>5. WaitInv
  BY DEF WaitInv, Holds
<1> QED
  BY <1>1, <1>2, <1>3, <1>4, <1>5 DEF IInv

(* Every step of every process and scheduler keeps the invariant. *)
LEMMA NextInv == IInv /\ [Next]_vars => IInv'
BY TypeStep, SwitchStep, SwitchedOutStep, SpinStep, WaitStep DEF IInv

(* The invariant of acquiresleep(), releasesleep(), sleep(), wakeup(),       *)
(* yield() and scheduler() holds throughout.                                 *)
THEOREM SleepLockInvariant == Spec => []IInv
BY InitInv, NextInv, PTL DEF Spec

(* acquiresleep() excludes, for any number of processes and CPUs. *)
THEOREM SleepLockExcludes == Spec => []MutualExclusion
<1>1. IInv => MutualExclusion
  BY DEF IInv, WaitInv, MutualExclusion
<1> QED
  BY <1>1, SleepLockInvariant, PTL

(* No process sleeps on a free lock unless a wakeup() is about to reach it. *)
THEOREM SleepLosesNoWakeup == Spec => []NoLostWakeup
<1>1. IInv => NoLostWakeup
  BY DEF IInv, WaitInv, NoLostWakeup
<1> QED
  BY <1>1, SleepLockInvariant, PTL

(* scheduler() never runs a process that is current on another CPU. *)
THEOREM SchedulerExcludes == Spec => []OneCPUPerProcess
<1>1. IInv => OneCPUPerProcess
  BY DEF IInv, SwitchInv
<1> QED
  BY <1>1, SleepLockInvariant, PTL

(* sched(), acquire() and release() never panic. *)
THEOREM SwitchingNeverPanics == Spec => []NoPanic
<1>1. IInv => NoPanic
  <2> SUFFICES ASSUME IInv, NEW c \in CPU, NEW p \in Procs, OnCPU(c, p)
               PROVE  /\ yielded[p] => plock[p] = c
                      /\ ~ yielded[p] =>
                           /\ pc[p] = "sleep_sched" => SchedChecks(c, p, "SLEEPING")
                           /\ pc[p] \in {"sleep_release", "sleep_sched", "sleep_tidy"}
                                => plock[p] = c
                           /\ pc[p] \in {"sleep_release", "test", "wakeup"} => lock[lk] = c
                           /\ pc[p] \in {"user", "critical", "sleep_reacquire"} => lock[lk] # c
                           /\ pc[p] = "sleep_lock_proc" => plock[p] # c
                           /\ pc[p] = "wakeup" => plock[widx[p] % NPROC] # c
    BY DEF NoPanic
  <2>1. HoldsPlock(p) => plock[p] = c
    BY DEF IInv, SwitchInv
  <2>2. \A q \in Procs : plock[q] = c => q = p /\ HoldsPlock(p)
    BY SMTT(30) DEF IInv, SwitchInv, OnCPU
  <2>3. lock[lk] = c <=> HoldsLk(p)
    BY DEF IInv, SpinInv, OnCPU
  <2>4. ASSUME pc[p] = "sleep_sched" PROVE SchedChecks(c, p, "SLEEPING")
    <3>1. HeldPlocks(c) = {p} /\ plock[p] = c
      BY <2>1, <2>2, <2>4 DEF HeldPlocks, HoldsPlock
    <3>2. HeldLocks(c) = {}
      BY <2>3, <2>4, SleepLockAssumption DEF HeldLocks, HoldsLk
    <3>3. Cardinality(HeldPlocks(c)) = 1 /\ Cardinality(HeldLocks(c)) = 0
      BY <3>1, <3>2, FS_Singleton, FS_EmptySet
    <3> QED
      BY <3>1, <3>3, SMTT(30) DEF SchedChecks
  <2>5. ASSUME pc[p] = "wakeup", ~ yielded[p] PROVE plock[widx[p] % NPROC] # c
    <3>1. widx[p] % NPROC \in Procs
      BY SchedAssumption, SMTT(30) DEF IInv, TypeOK, Procs
    <3> QED
      BY <2>2, <2>5, <3>1 DEF HoldsPlock
  <2>6. pc[p] = "sleep_lock_proc" /\ ~ yielded[p] => plock[p] # c
    BY <2>2 DEF HoldsPlock
  <2> QED
    BY <2>1, <2>3, <2>4, <2>5, <2>6 DEF HoldsPlock, HoldsLk
<1> QED
  BY <1>1, SleepLockInvariant, PTL

==============================================================================
