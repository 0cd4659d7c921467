------------------------------- MODULE LogProofs -------------------------------
(***************************************************************************)
(* Proofs about the logging layer (module Log), for any set of processes,  *)
(* blocks and values and any size of the log: the inductive invariant IInv *)
(* and that the space begin_op() reserves is there when log_write() needs  *)
(* it.  First that a step keeps the types, the header, the control state,  *)
(* the buffers and the cache; then the phases of the commit and of the     *)
(* recovery; last that the log implements a disk with atomic system calls, *)
(* crash safety (Spec => RefinesAtomicDisk), and durability.               *)
(***************************************************************************)
EXTENDS Log, FiniteSetTheorems, FunctionTheorems, TLAPS

(* Most leaves are reasoning about sets; the ones that are not say so. *)
USE ZenonT(60)

(* log.outstanding counts the calls: with one of them under way it is        *)
(* positive, and when it is one there is no other.                           *)
LEMMA CallerCounts ==
  ASSUME OutstandingExact, NEW p \in Proc, InOp(p)
  PROVE  /\ outstanding >= 1
         /\ outstanding = 1 => \A q \in Proc : InOp(q) => q = p
<1> USE LogAssumption
<1>1. IsFiniteSet(Callers)
  BY FS_Subset DEF Callers
<1>2. p \in Callers
  BY DEF Callers
<1>3. /\ IsFiniteSet(Callers \ {p})
      /\ Cardinality(Callers \ {p}) = Cardinality(Callers) - 1
  BY <1>1, <1>2, FS_RemoveElement
<1>4. Cardinality(Callers \ {p}) \in Nat
  BY <1>3, FS_CardinalityType
<1>5. Cardinality(Callers) \in Nat
  BY <1>1, FS_CardinalityType
<1>6. outstanding = Cardinality(Callers)
  BY DEF OutstandingExact, Callers
<1>7. outstanding >= 1
  BY <1>3, <1>4, <1>5, <1>6, SMTT(30)
<1>8. ASSUME outstanding = 1, NEW q \in Proc, InOp(q)
      PROVE  q = p
  <2>1. Callers \ {p} = {}
    BY <1>3, <1>5, <1>6, <1>8, FS_EmptySet, SMTT(30)
  <2> QED
    BY <2>1, <1>8 DEF Callers
<1> QED
  BY <1>7, <1>8

(* No call is under way when log.outstanding is zero. *)
LEMMA NoCaller ==
  ASSUME OutstandingExact, outstanding = 0
  PROVE  \A p \in Proc : ~ InOp(p)
BY CallerCounts, SMTT(30)

(* The image mkfs makes and the zeroed memory the kernel boots with have the *)
(* types the log code expects.                                              *)
THEOREM TypeInit == Init => TypeOK
<1> SUFFICES ASSUME Init PROVE TypeOK
  OBVIOUS
<1> USE LogAssumption DEF Init
<1>1. disk \in [Block -> Val] /\ dlog \in [Slot -> Val]
  OBVIOUS
<1>2. dhead \in Seq(Block) /\ lh \in Seq(Block)
  BY SMTT(30)
<1>3. cache \in [Block -> Val \cup {Absent}] /\ pins \in [Block -> Nat]
  OBVIOUS
<1>4. outstanding \in Nat /\ committing \in BOOLEAN /\ tail \in Nat
  OBVIOUS
<1>5. boot \in {"read_head", "install", "clear", "up"}
  OBVIOUS
<1>6. pc \in [Proc -> {"idle", "reading", "begin", "sleep", "op", "held", "modified",
                      "write_log", "write_head", "install", "clear", "committed"}]
  OBVIOUS
<1>7.  buf \in [Proc -> Block \cup {NoBuf}] /\ wrote \in [Proc -> SUBSET Block]
  OBVIOUS
<1> QED BY <1>1, <1>2, <1>3, <1>4, <1>5, <1>6, <1>7 DEF TypeOK

(* What log_write() does to log.lh when it registers a new block. *)
LEMMA AppendFacts ==
  ASSUME NEW S, NEW s \in Seq(S), NEW e \in S
  PROVE  /\ Append(s, e) \in Seq(S)
         /\ Len(Append(s, e)) = Len(s) + 1
         /\ \A i \in 1 .. Len(s) : Append(s, e)[i] = s[i]
         /\ Append(s, e)[Len(s) + 1] = e
BY SMTT(30)

(* A process with a buffer in hand holds the buffer of some block. *)
LEMMA HeldBlock ==
  ASSUME TypeOK, BufferInv, NEW p \in Proc, pc[p] \in {"held", "modified", "reading"}
  PROVE  buf[p] \in Block
BY DEF TypeOK, BufferInv

(* log_write() of a block that is not registered yet adds it at the end. *)
LEMMA Registers ==
  ASSUME TypeOK, BufferInv, NEW p \in Proc, LogWrite(p), buf[p] \notin Range(lh)
  PROVE  /\ buf[p] \in Block
         /\ lh' \in Seq(Block)
         /\ Len(lh') = Len(lh) + 1
         /\ Len(lh') <= NLOG - 1
         /\ \A i \in 1 .. Len(lh) : lh'[i] = lh[i] /\ lh[i] # buf[p]
         /\ lh'[Len(lh) + 1] = buf[p]
         /\ pins' = [pins EXCEPT ![buf[p]] = @ + 1]
<1>1. buf[p] \in Block
  BY HeldBlock DEF LogWrite
<1>2. lh \in Seq(Block)
  BY DEF TypeOK
<1>3. lh' = Append(lh, buf[p]) /\ pins' = [pins EXCEPT ![buf[p]] = @ + 1]
  BY DEF LogWrite
<1>4. /\ lh' \in Seq(Block)
      /\ Len(lh') = Len(lh) + 1
      /\ \A i \in 1 .. Len(lh) : lh'[i] = lh[i]
      /\ lh'[Len(lh) + 1] = buf[p]
  BY <1>1, <1>2, <1>3, AppendFacts, SMTT(30)
<1>5. \A i \in 1 .. Len(lh) : lh[i] # buf[p]
  BY <1>2, SMTT(30) DEF Range
<1>6. Len(lh') <= NLOG - 1
  BY <1>2, <1>4, LogAssumption, SMTT(30) DEF LogWrite, TooBig
<1> QED
  BY <1>1, <1>3, <1>4, <1>5, <1>6

(* The block that write_log() or install_trans() is at has a log block. *)
LEMMA NextSlot ==
  ASSUME TypeOK, HeaderInv, tail < Len(lh)
  PROVE  tail + 1 \in 1 .. Len(lh) /\ tail + 1 \in Slot /\ lh[tail + 1] \in Block
BY LogAssumption, SMTT(30) DEF TypeOK, HeaderInv, Slot

(* Whoever is inside a call or a commit runs on a machine that is up. *)
LEMMA UpWhenBusy ==
  ASSUME ControlInv, NEW p \in Proc, pc[p] # "idle"
  PROVE  boot = "up"
BY DEF ControlInv

(* The next block to install is still pinned. *)
LEMMA InstallPinned ==
  ASSUME IInv, NEW p \in Proc, pc[p] = "install", tail < Len(lh)
  PROVE  pins[lh[tail + 1]] = 1
<1>1. boot = "up"
  BY UpWhenBusy DEF IInv
<1>2. tail + 1 \in 1 .. Len(lh) /\ lh[tail + 1] \in Block
  BY NextSlot DEF IInv
<1>3. Pending(lh[tail + 1])
  BY <1>2, SMTT(30) DEF Pending, IInv, TypeOK
<1> QED
  BY <1>1, <1>2, <1>3 DEF IInv, CacheInv

(* Memory after a power failure is well-typed if the disk is. *)
LEMMA PowerOffType ==
  ASSUME PowerOff, disk' \in [Block -> Val], dlog' \in [Slot -> Val], dhead' \in Seq(Block)
  PROVE  TypeOK'
<1> USE DEF PowerOff
<1>1. cache' \in [Block -> Val \cup {Absent}] /\ pins' \in [Block -> Nat]
  OBVIOUS
<1>2. lh' \in Seq(Block) /\ outstanding' \in Nat /\ tail' \in Nat
  BY SMTT(30)
<1>6. committing' \in BOOLEAN
  OBVIOUS
<1>3. boot' \in {"read_head", "install", "clear", "up"}
  OBVIOUS
<1>4. pc' \in [Proc -> {"idle", "reading", "begin", "sleep", "op", "held", "modified",
                        "write_log", "write_head", "install", "clear", "committed"}]
  OBVIOUS
<1>5. buf' \in [Proc -> Block \cup {NoBuf}] /\ wrote' \in [Proc -> SUBSET Block]
  OBVIOUS
<1> QED
  BY <1>1, <1>2, <1>3, <1>4, <1>5, <1>6 DEF TypeOK

(* Every step of calls, commit, eviction, crash and recovery keeps the types. *)
LEMMA TypeStep == IInv /\ [Next]_vars => TypeOK'
<1> SUFFICES ASSUME IInv, [Next]_vars PROVE TypeOK'
  OBVIOUS
<1> USE LogAssumption DEF IInv, TypeOK
<1>1. ASSUME NEW p \in Proc, BeginOp(p) PROVE TypeOK'
  BY <1>1 DEF BeginOp, Goto
<1>2. ASSUME NEW p \in Proc, BeginSleep(p) PROVE TypeOK'
  BY <1>2 DEF BeginSleep, Goto, MustWait
<1>3. ASSUME NEW p \in Proc, BeginEnter(p) PROVE TypeOK'
  BY <1>3, SMTT(30) DEF BeginEnter, Goto, MustWait
<1>4. ASSUME NEW p \in Proc, NEW b \in Block, Bread(p, b) PROVE TypeOK'
  BY <1>4 DEF Bread, Goto, Contents
<1>5. ASSUME NEW p \in Proc, NEW v \in Val, Modify(p, v) PROVE TypeOK'
  BY <1>5, HeldBlock DEF Modify, Goto
<1>6. ASSUME NEW p \in Proc, LogWrite(p) PROVE TypeOK'
  <2>1. CASE buf[p] \in Range(lh)
    BY <1>6, <2>1 DEF LogWrite, Goto
  <2>2. CASE buf[p] \notin Range(lh)
    <3>1. lh' \in Seq(Block) /\ pins' \in [Block -> Nat]
      BY <1>6, <2>2, Registers, SMTT(60)
    <3>3. pc' = [pc EXCEPT ![p] = "held"]
      BY <1>6 DEF LogWrite, Goto
    <3> QED
      BY <1>6, <3>1, <3>3 DEF LogWrite
  <2> QED
    BY <2>1, <2>2
<1>7. ASSUME NEW p \in Proc, Brelse(p) PROVE TypeOK'
  BY <1>7 DEF Brelse, Goto
<1>8. ASSUME NEW p \in Proc, EndOp(p) PROVE TypeOK'
  <2>1. outstanding' \in Nat
    BY <1>8, CallerCounts, SMTT(30) DEF EndOp, InOp, ControlInv
  <2>2. CASE outstanding = 1
    <3>1. pc' = [pc EXCEPT ![p] = "committed"] \/ pc' = [pc EXCEPT ![p] = "write_log"]
      BY <1>8, <2>2 DEF EndOp, Goto
    <3>2. committing' \in BOOLEAN
      BY <1>8, <2>2 DEF EndOp
    <3>3. tail' \in Nat
      BY <1>8, <2>2, SMTT(30) DEF EndOp
    <3> QED
      BY <1>8, <2>1, <3>1, <3>2, <3>3 DEF EndOp
  <2>3. CASE outstanding # 1
    BY <1>8, <2>1, <2>3 DEF EndOp, Woken
  <2> QED
    BY <2>2, <2>3
<1>9. ASSUME NEW p \in Proc, WriteLog(p) PROVE TypeOK'
  BY <1>9, NextSlot, SMTT(30) DEF WriteLog, Goto, Contents
<1>10. ASSUME NEW p \in Proc, WriteLogDone(p) PROVE TypeOK'
  BY <1>10 DEF WriteLogDone, Goto
<1>11. ASSUME NEW p \in Proc, WriteHead(p) PROVE TypeOK'
  BY <1>11 DEF WriteHead, Goto
<1>12. ASSUME NEW p \in Proc, Install(p) PROVE TypeOK'
  BY <1>12, NextSlot, InstallPinned, SMTT(30) DEF Install, Goto, InstallBlock
<1>13. ASSUME NEW p \in Proc, InstallDone(p) PROVE TypeOK'
  BY <1>13, SMTT(30) DEF InstallDone, Goto
<1>14. ASSUME NEW p \in Proc, Clear(p) PROVE TypeOK'
  BY <1>14 DEF Clear, Goto
<1>15. ASSUME NEW p \in Proc, EndCommit(p) PROVE TypeOK'
  BY <1>15 DEF EndCommit, Goto, Woken
<1>16. ASSUME NEW b \in Block, Evict(b) PROVE TypeOK'
  BY <1>16 DEF Evict, Goto
<1>17. ASSUME ReadHead PROVE TypeOK'
  BY <1>17 DEF ReadHead, Goto
<1>18. ASSUME RecoverInstall PROVE TypeOK'
  BY <1>18, NextSlot, SMTT(30) DEF RecoverInstall, Goto, InstallBlock
<1>19. ASSUME RecoverInstallDone PROVE TypeOK'
  BY <1>19, SMTT(30) DEF RecoverInstallDone, Goto
<1>20. ASSUME RecoverClear PROVE TypeOK'
  BY <1>20 DEF RecoverClear, Goto
<1>21. ASSUME Crash PROVE TypeOK'
  BY <1>21, PowerOffType DEF Crash, diskVars
<1>22. ASSUME NEW v \in Val, CrashTornLog(v) PROVE TypeOK'
  BY <1>22, PowerOffType DEF CrashTornLog
<1>23. ASSUME NEW v \in Val, CrashTornHome(v) PROVE TypeOK'
  BY <1>23, PowerOffType, NextSlot DEF CrashTornHome
<1>24. ASSUME UNCHANGED vars PROVE TypeOK'
  BY <1>24 DEF vars
<1> QED
  BY <1>1, <1>2, <1>3, <1>4, <1>5, <1>6, <1>7, <1>8, <1>9, <1>10, <1>11, <1>12, <1>13, <1>14, <1>15, <1>16, <1>17, <1>18, <1>19, <1>20, <1>21, <1>22, <1>23, <1>24 DEF Next, Running, Fail, Recover, CallStep, CommitStep

(* A step leaves the headers alone, registers a block, copies one header to  *)
(* the other, or empties one.                                                *)
LEMMA HeaderStep == IInv /\ [Next]_vars => HeaderInv'
<1> SUFFICES ASSUME IInv, [Next]_vars PROVE HeaderInv'
  OBVIOUS
<1> USE DEF IInv, HeaderInv
<1>1. CASE UNCHANGED <<lh, dhead>>
  BY <1>1
<1>2. ASSUME NEW p \in Proc, LogWrite(p) PROVE HeaderInv'
  <2>1. CASE buf[p] \in Range(lh)
    BY <1>2, <2>1 DEF LogWrite
  <2>2. CASE buf[p] \notin Range(lh)
    <3>1. /\ Len(lh') = Len(lh) + 1 /\ Len(lh) \in Nat
          /\ Len(lh') <= NLOG - 1
          /\ \A i \in 1 .. Len(lh) : lh'[i] = lh[i] /\ lh[i] # buf[p]
          /\ lh'[Len(lh) + 1] = buf[p]
      BY <1>2, <2>2, Registers, SMTT(30) DEF TypeOK
    <3>2. \A i, j \in 1 .. Len(lh') : lh'[i] = lh'[j] => i = j
      BY <3>1, SMTT(30)
    <3> QED
      BY <1>2, <3>1, <3>2 DEF LogWrite
  <2> QED
    BY <2>1, <2>2
<1>3. CASE dhead' = lh /\ lh' = lh
  BY <1>3
<1>4. CASE lh' = dhead /\ dhead' = dhead
  BY <1>4
<1>5. CASE lh' = <<>> /\ dhead' = dhead
  BY <1>5, LogAssumption, SMTT(30)
<1> QED
  BY <1>1, <1>2, <1>3, <1>4, <1>5
     DEF Next, Running, Fail, Recover, CallStep, CommitStep, vars, PowerOff, diskVars,
         BeginOp, BeginSleep, BeginEnter, Bread, Modify, Brelse, EndOp, WriteLog,
         WriteLogDone, Install, InstallBlock, EndCommit, Evict, RecoverInstall, Crash,
         CrashTornLog, CrashTornHome, LogWrite, WriteHead, InstallDone, Clear, ReadHead,
         RecoverInstallDone, RecoverClear

(* A step inside a call, inside a commit or outside both that moves one      *)
(* process and leaves the counters alone.                                    *)
LEMMA ControlMove ==
  ASSUME TypeOK, ControlInv, NEW p \in Proc, NEW l, boot = "up",
         UNCHANGED <<outstanding, committing, boot>>,
         pc' = [pc EXCEPT ![p] = l],
         l \in {"op", "held", "modified"} <=> InOp(p),
         l \in {"write_log", "write_head", "install", "clear", "committed"} => Commits(p)
  PROVE  ControlInv'
<1>1. \A q \in Proc : InOp(q)' <=> InOp(q)
  BY DEF TypeOK, InOp
<1>2. \A q \in Proc : Commits(q)' => Commits(q)
  BY DEF TypeOK, Commits
<1>3. Callers' = Callers
  BY <1>1 DEF Callers
<1> QED
  BY <1>1, <1>2, <1>3 DEF ControlInv, OutstandingExact

(* log.outstanding and log.committing say who is where. *)
LEMMA ControlStep == IInv /\ [Next]_vars => ControlInv'
<1> SUFFICES ASSUME IInv, [Next]_vars PROVE ControlInv'
  OBVIOUS
<1> USE DEF IInv
<1>1. CASE UNCHANGED <<outstanding, committing, boot, pc, buf>>
  BY <1>1 DEF ControlInv, OutstandingExact, Callers, InOp, Commits
<1>2. ASSUME NEW p \in Proc, BeginOp(p) \/ BeginSleep(p) PROVE ControlInv'
  BY <1>2, ControlMove, UpWhenBusy DEF BeginOp, BeginSleep, Goto, InOp
<1>3. ASSUME NEW p \in Proc, NEW b \in Block, Bread(p, b) PROVE ControlInv'
  BY <1>3, ControlMove DEF Bread, Goto, InOp
<1>4. ASSUME NEW p \in Proc, NEW v \in Val, Modify(p, v) PROVE ControlInv'
  BY <1>4, ControlMove, UpWhenBusy DEF Modify, Goto, InOp
<1>5. ASSUME NEW p \in Proc, LogWrite(p) PROVE ControlInv'
  BY <1>5, ControlMove, UpWhenBusy DEF LogWrite, Goto, InOp
<1>6. ASSUME NEW p \in Proc, Brelse(p) PROVE ControlInv'
  BY <1>6, ControlMove, UpWhenBusy DEF Brelse, Goto, InOp
<1>7. ASSUME NEW p \in Proc, WriteLogDone(p) \/ WriteHead(p) \/ InstallDone(p) \/ Clear(p)
      PROVE  ControlInv'
  BY <1>7, ControlMove, UpWhenBusy
     DEF WriteLogDone, WriteHead, InstallDone, Clear, Goto, InOp, Commits
<1>8. ASSUME NEW p \in Proc, BeginEnter(p) PROVE ControlInv'
  <2>1. boot = "up" /\ ~ committing /\ outstanding' = outstanding + 1 /\ committing' = committing
    BY <1>8, UpWhenBusy DEF BeginEnter, MustWait
  <2>2. Callers' = Callers \cup {p} /\ p \notin Callers
    BY <1>8 DEF BeginEnter, Goto, Callers, InOp, TypeOK
  <2>3. IsFiniteSet(Callers)
    BY FS_Subset, LogAssumption DEF Callers
  <2>4. outstanding' = Cardinality(Callers')
    BY <2>1, <2>2, <2>3, FS_AddElement DEF ControlInv, OutstandingExact, Callers
  <2>5. \A q \in Proc : ~ Commits(q)'
    BY <1>8, <2>1 DEF BeginEnter, Goto, Commits, TypeOK, ControlInv, OutstandingExact
  <2>6. UNCHANGED <<boot, committing>>
    BY <1>8 DEF BeginEnter
  <2> QED
    BY <2>1, <2>4, <2>5, <2>6, SMTT(30) DEF ControlInv, OutstandingExact, Callers
<1>9. ASSUME NEW p \in Proc, EndOp(p) PROVE ControlInv'
  <2>1. boot = "up" /\ boot' = "up" /\ outstanding' = outstanding - 1 /\ InOp(p) /\ ~ committing
    BY <1>9, UpWhenBusy DEF EndOp, InOp
  <2>2. Callers' = Callers \ {p} /\ p \in Callers
    BY <1>9 DEF EndOp, Goto, Woken, Callers, InOp, TypeOK
  <2>3. IsFiniteSet(Callers)
    BY FS_Subset, LogAssumption DEF Callers
  <2>4. outstanding' = Cardinality(Callers')
    BY <2>1, <2>2, <2>3, FS_RemoveElement DEF ControlInv, OutstandingExact, Callers
  <2>5. \A q \in Proc : Commits(q)' => q = p /\ outstanding = 1
    <3>1. \A q \in Proc : ~ Commits(q)
      BY <2>1 DEF Commits, ControlInv, OutstandingExact
    <3>2. \A q \in Proc \ {p} : pc'[q] = pc[q] \/ pc'[q] = "begin"
      BY <1>9 DEF EndOp, Goto, Woken, TypeOK
    <3>3. outstanding # 1 => pc'[p] = "idle"
      BY <1>9 DEF EndOp, Woken, TypeOK
    <3> QED
      BY <3>1, <3>2, <3>3 DEF Commits
  <2>6. committing' <=> outstanding = 1
    BY <1>9, <2>1 DEF EndOp
  <2> QED
    BY <2>1, <2>4, <2>5, <2>6, SMTT(30) DEF ControlInv, OutstandingExact, Callers
<1>10. ASSUME NEW p \in Proc, EndCommit(p) PROVE ControlInv'
  <2>1. boot = "up" /\ UNCHANGED <<boot, outstanding>> /\ Commits(p) /\ committing' = FALSE
    BY <1>10, UpWhenBusy DEF EndCommit, Commits
  <2>2. Callers' = Callers
    BY <1>10 DEF EndCommit, Woken, Callers, InOp, TypeOK
  <2>3. \A q \in Proc : ~ Commits(q)'
    BY <1>10, <2>1 DEF EndCommit, Woken, Commits, TypeOK, ControlInv, OutstandingExact
  <2> QED
    BY <2>1, <2>2, <2>3 DEF ControlInv, OutstandingExact, Callers
<1>11. CASE ReadHead \/ RecoverInstallDone \/ RecoverClear
  <2>1. UNCHANGED <<outstanding, committing, pc, buf>> /\ boot # "up"
    BY <1>11 DEF ReadHead, RecoverInstallDone, RecoverClear
  <2> QED
    BY <2>1 DEF ControlInv, OutstandingExact, Callers, InOp, Commits
<1>12. CASE PowerOff
  <2>1. Callers' = {}
    BY <1>12 DEF PowerOff, Callers, InOp
  <2>2. \A q \in Proc : ~ Commits(q)'
    BY <1>12 DEF PowerOff, Commits
  <2> QED
    BY <1>12, <2>1, <2>2, FS_EmptySet DEF PowerOff, ControlInv, OutstandingExact, Callers
<1> QED
  BY <1>1, <1>2, <1>3, <1>4, <1>5, <1>6, <1>7, <1>8, <1>9, <1>10, <1>11, <1>12
     DEF Next, Running, Fail, Recover, CallStep, CommitStep, vars, WriteLog, Install, InstallBlock, Evict, RecoverInstall,
         Crash, CrashTornLog, CrashTornHome

(* A block is in the header when one of its slots names it. *)
LEMMA LoggedSlot ==
  ASSUME TypeOK, NEW b
  PROVE  b \in Range(lh) <=> \E i \in 1 .. Len(lh) : lh[i] = b
BY SMTT(30) DEF TypeOK, Range

(* bread() returns a block's contents, never the mark of an absent buffer. *)
LEMMA ContentsType ==
  ASSUME TypeOK, NEW b \in Block
  PROVE  Contents(b) \in Val /\ Contents(b) # Absent
BY LogAssumption, SMTT(30) DEF TypeOK, Contents

(* Buffers stay locked by one process at a time and cached while locked. *)
LEMMA BufferStep == IInv /\ [Next]_vars => BufferInv'
<1> SUFFICES ASSUME IInv, [Next]_vars PROVE BufferInv'
  OBVIOUS
<1> USE DEF IInv, BufferInv
<1>1. CASE UNCHANGED <<cache, pc, buf>>
  BY <1>1
<1>2. ASSUME NEW p \in Proc,
             BeginOp(p) \/ BeginSleep(p) \/ BeginEnter(p) \/ WriteLogDone(p) \/ WriteHead(p)
               \/ InstallDone(p) \/ Clear(p) \/ EndOp(p) \/ EndCommit(p)
      PROVE  BufferInv'
  <2>1. UNCHANGED <<cache, buf>>
    BY <1>2 DEF BeginOp, BeginSleep, BeginEnter, WriteLogDone, WriteHead, InstallDone, Clear,
                EndOp, EndCommit
  <2>2. \A q \in Proc : pc'[q] \in {"held", "modified", "reading"}
                        <=> pc[q] \in {"held", "modified", "reading"}
    BY <1>2 DEF BeginOp, BeginSleep, BeginEnter, WriteLogDone, WriteHead, InstallDone, Clear,
                EndOp, EndCommit, Goto, Woken, TypeOK
  <2> QED
    BY <2>1, <2>2
<1>3. ASSUME NEW p \in Proc, NEW b \in Block, Bread(p, b) PROVE BufferInv'
  <2>1. /\ buf[p] = NoBuf /\ buf'[p] = b /\ b # NoBuf
        /\ \A q \in Proc \ {p} : buf'[q] = buf[q] /\ buf[q] # b
    BY <1>3, LogAssumption DEF Bread, Unlocked, TypeOK
  <2>2. /\ pc'[p] \in {"held", "reading"}
        /\ \A q \in Proc \ {p} : pc'[q] = pc[q]
    BY <1>3 DEF Bread, Goto, TypeOK
  <2>3. cache'[b] # Absent /\ \A c \in Block \ {b} : cache'[c] = cache[c]
    BY <1>3, ContentsType DEF Bread, TypeOK
  <2>4. \A q \in Proc : buf'[q] # NoBuf <=> pc'[q] \in {"held", "modified", "reading"}
    BY <2>1, <2>2
  <2>5. \A q, r \in Proc : buf'[q] = buf'[r] /\ buf'[q] # NoBuf => q = r
    BY <2>1, SMTT(30)
  <2>6. \A q \in Proc : buf'[q] # NoBuf => cache'[buf'[q]] # Absent
    BY <2>1, <2>3, SMTT(30) DEF TypeOK
  <2> QED
    BY <2>4, <2>5, <2>6
<1>4. ASSUME NEW p \in Proc, NEW v \in Val, Modify(p, v) PROVE BufferInv'
  <2>1. /\ UNCHANGED buf /\ pc[p] = "held" /\ pc'[p] = "modified"
        /\ \A q \in Proc \ {p} : pc'[q] = pc[q]
    BY <1>4 DEF Modify, Goto, TypeOK
  <2>2. \A c \in Block : cache[c] # Absent => cache'[c] # Absent
    BY <1>4, LogAssumption DEF Modify, TypeOK
  <2>3. \A q \in Proc : buf[q] # NoBuf => buf[q] \in Block
    BY DEF TypeOK
  <2> QED
    BY <2>1, <2>2, <2>3
<1>5. ASSUME NEW p \in Proc, LogWrite(p) \/ Brelse(p) PROVE BufferInv'
  <2>1. UNCHANGED cache /\ \A q \in Proc \ {p} : buf'[q] = buf[q] /\ pc'[q] = pc[q]
    BY <1>5 DEF LogWrite, Brelse, Goto, TypeOK
  <2>2. CASE LogWrite(p)
    <3>1. UNCHANGED buf /\ pc[p] = "modified" /\ pc'[p] = "held"
      BY <2>2 DEF LogWrite, Goto, TypeOK
    <3> QED
      BY <2>1, <3>1
  <2>3. CASE Brelse(p)
    <3>1. buf'[p] = NoBuf /\ pc'[p] \notin {"held", "modified", "reading"}
      BY <2>3 DEF Brelse, Goto, TypeOK
    <3> QED
      BY <2>1, <3>1, SMTT(30)
  <2> QED
    BY <1>5, <2>2, <2>3
<1>6. ASSUME NEW p \in Proc, WriteLog(p) PROVE BufferInv'
  BY <1>6, NextSlot, ContentsType DEF WriteLog, Unlocked, TypeOK
<1>7. CASE InstallBlock /\ UNCHANGED <<pc, buf>>
  BY <1>7, NextSlot, LogAssumption DEF InstallBlock, Unlocked, TypeOK
<1>8. ASSUME NEW b \in Block, Evict(b) PROVE BufferInv'
  BY <1>8 DEF Evict, Unlocked, TypeOK
<1>9. CASE PowerOff
  BY <1>9 DEF PowerOff
<1> QED
  BY <1>1, <1>2, <1>3, <1>4, <1>5, <1>6, <1>7, <1>8, <1>9
     DEF Next, Running, Fail, Recover, CallStep, CommitStep, vars, Install, RecoverInstall,
         ReadHead, RecoverInstallDone, RecoverClear, Crash, CrashTornLog, CrashTornHome

(* A call under way excludes a commit. *)
LEMMA NoCommitInCall ==
  ASSUME ControlInv, NEW p \in Proc, InOp(p)
  PROVE  \A q \in Proc : ~ Commits(q)
<1>1. outstanding >= 1
  BY CallerCounts DEF ControlInv
<1> QED
  BY <1>1, SMTT(30) DEF ControlInv, OutstandingExact

(* CacheInv speaks of the cache, the disk, the pins and of which blocks are  *)
(* pending or being modified.                                                *)
LEMMA CacheSame ==
  ASSUME CacheInv, UNCHANGED <<boot, cache, disk, pins>>,
         \A b \in Block : Pending(b)' <=> Pending(b),
         \A b \in Block : BeingModified(b) => BeingModified(b)'
  PROVE  CacheInv'
BY DEF CacheInv

(* What is cached and pinned stays consistent with the log and the disk. *)
LEMMA CacheStep == IInv /\ [Next]_vars => CacheInv'
<1> SUFFICES ASSUME IInv, [Next]_vars PROVE CacheInv'
  OBVIOUS
<1> USE DEF IInv
<1>1. CASE UNCHANGED <<boot, cache, disk, pins, lh, tail, pc, buf>>
  BY <1>1, CacheSame DEF Pending, BeingModified, Installing
<1>2. ASSUME NEW p \in Proc,
             BeginOp(p) \/ BeginSleep(p) \/ BeginEnter(p) \/ Brelse(p) \/ WriteLogDone(p)
               \/ EndOp(p) \/ EndCommit(p)
      PROVE  CacheInv'
  <2>1. UNCHANGED <<boot, cache, disk, pins, lh>>
    BY <1>2 DEF BeginOp, BeginSleep, BeginEnter, Brelse, WriteLogDone, EndOp, EndCommit
  <2>2. /\ \A q \in Proc : pc'[q] = "install" <=> pc[q] = "install"
        /\ \A q \in Proc : pc[q] = "modified" => pc'[q] = "modified" /\ buf'[q] = buf[q]
    BY <1>2 DEF BeginOp, BeginSleep, BeginEnter, Brelse, WriteLogDone, EndOp, EndCommit, Goto,
                Woken, TypeOK
  <2>3. Installing' <=> Installing
    BY <2>2 DEF Installing
  <2>4. tail' = tail \/ ~ Installing
    BY <1>2, NoCommitInCall DEF BeginOp, BeginSleep, BeginEnter, Brelse, WriteLogDone, EndOp,
                EndCommit, InOp, Commits, Installing
  <2>5. \A b \in Block : Pending(b)' <=> Pending(b)
    BY <2>1, <2>3, <2>4 DEF Pending
  <2>6. \A b \in Block : BeingModified(b) => BeingModified(b)'
    BY <2>2 DEF BeingModified
  <2> QED
    BY <2>1, <2>5, <2>6, CacheSame
<1>3. ASSUME NEW p \in Proc, NEW b \in Block, Bread(p, b) PROVE CacheInv'
  <2>1. /\ UNCHANGED <<boot, disk, pins, lh, tail>>
        /\ boot = "up"
        /\ cache' = [cache EXCEPT ![b] = Contents(b)]
    BY <1>3 DEF Bread
  <2>2. /\ \A q \in Proc : pc'[q] = "install" <=> pc[q] = "install"
        /\ \A q \in Proc : pc[q] = "modified" => pc'[q] = "modified" /\ buf'[q] = buf[q]
    BY <1>3 DEF Bread, Goto, TypeOK
  <2>3. \A c \in Block : Pending(c)' <=> Pending(c)
    BY <2>1, <2>2 DEF Pending, Installing
  <2>4. \A c \in Block : BeingModified(c) => BeingModified(c)'
    BY <2>2 DEF BeingModified
  <2>5. \A c \in Block : cache'[c] = cache[c] \/ (cache[c] = Absent /\ cache'[c] = disk[c])
    <3>1. \A c \in Block : cache'[c] = IF c = b THEN Contents(b) ELSE cache[c]
      BY <2>1 DEF TypeOK
    <3> QED
      BY <3>1 DEF Contents
  <2>6. \A c \in Block : disk[c] # Absent
    BY LogAssumption, SMTT(30) DEF TypeOK
  <2> QED
    BY <2>1, <2>3, <2>4, <2>5, <2>6 DEF CacheInv
<1>4. ASSUME NEW p \in Proc, NEW v \in Val, Modify(p, v) PROVE CacheInv'
  <2>1. /\ UNCHANGED <<boot, disk, pins, lh, tail, buf>>
        /\ boot = "up"
        /\ cache' = [cache EXCEPT ![buf[p]] = v]
        /\ pc[p] = "held" /\ pc' = [pc EXCEPT ![p] = "modified"]
    BY <1>4, UpWhenBusy DEF Modify, Goto
  <2>2. /\ \A q \in Proc : pc'[q] = "install" <=> pc[q] = "install"
        /\ \A q \in Proc : pc[q] = "modified" => pc'[q] = "modified"
        /\ pc'[p] = "modified"
    BY <2>1 DEF TypeOK
  <2>3. \A c \in Block : Pending(c)' <=> Pending(c)
    BY <2>1, <2>2 DEF Pending, Installing
  <2>4. \A c \in Block : BeingModified(c) \/ c = buf[p] => BeingModified(c)'
    BY <2>1, <2>2 DEF BeingModified
  <2>5. \A c \in Block : c # buf[p] => cache'[c] = cache[c]
    BY <2>1 DEF TypeOK
  <2>6. buf[p] \in Block /\ cache'[buf[p]] # Absent
    BY <2>1, HeldBlock, LogAssumption DEF TypeOK
  <2> QED
    BY <2>1, <2>3, <2>4, <2>5, <2>6 DEF CacheInv
<1>5. ASSUME NEW p \in Proc, LogWrite(p) PROVE CacheInv'
  <2>1. /\ UNCHANGED <<boot, cache, disk, tail, buf>>
        /\ boot = "up" /\ InOp(p)
        /\ pc[p] = "modified" /\ pc' = [pc EXCEPT ![p] = "held"]
    BY <1>5, UpWhenBusy DEF LogWrite, Goto, InOp
  <2>2. ~ Installing
    BY <2>1, NoCommitInCall DEF Commits, Installing
  <2>3. ~ Installing'
    BY <2>1, <2>2 DEF Installing, TypeOK
  <2>4. buf[p] \in Block /\ cache[buf[p]] # Absent
    BY <2>1, HeldBlock, LogAssumption DEF BufferInv
  <2>5. \A c \in Block : BeingModified(c) => BeingModified(c)' \/ c = buf[p]
    BY <2>1 DEF BeingModified, TypeOK
  <2>6. \A c \in Block : Pending(c)' <=> Pending(c) \/ c = buf[p]
    <3>1. CASE buf[p] \in Range(lh)
      <4>1. UNCHANGED lh
        BY <1>5, <3>1 DEF LogWrite
      <4>2. \E i \in 1 .. Len(lh) : lh[i] = buf[p]
        BY <3>1, LoggedSlot
      <4>3. \A c \in Block : Pending(c)' <=> Pending(c)
        BY <2>2, <2>3, <4>1 DEF Pending
      <4>4. Pending(buf[p])
        BY <2>2, <4>2 DEF Pending
      <4> QED
        BY <4>3, <4>4
    <3>2. CASE buf[p] \notin Range(lh)
      <4>1. /\ Len(lh') = Len(lh) + 1 /\ Len(lh) \in Nat
            /\ \A i \in 1 .. Len(lh) : lh'[i] = lh[i]
            /\ lh'[Len(lh) + 1] = buf[p]
        BY <1>5, <3>2, Registers, SMTT(20) DEF TypeOK
      <4>2. \A c \in Block : Pending(c) <=> \E i \in 1 .. Len(lh) : lh[i] = c
        BY <2>2 DEF Pending
      <4>3. \A c \in Block : Pending(c)' <=> \E i \in 1 .. Len(lh) + 1 : lh'[i] = c
        BY <2>3, <4>1 DEF Pending
      <4>4. 1 .. Len(lh) + 1 = (1 .. Len(lh)) \cup {Len(lh) + 1}
        BY <4>1, SMTT(30)
      <4> QED
        BY <4>1, <4>2, <4>3, <4>4
    <3> QED
      BY <3>1, <3>2
  <2>7. \A c \in Block : pins'[c] = IF Pending(c)' THEN 1 ELSE 0
    <3>1. CASE buf[p] \in Range(lh)
      <4>1. Pending(buf[p])
        BY <2>2, <3>1, LoggedSlot DEF Pending
      <4> QED
        BY <1>5, <2>1, <2>6, <3>1, <4>1 DEF LogWrite, CacheInv
    <3>2. CASE buf[p] \notin Range(lh)
      <4>1. ~ Pending(buf[p])
        BY <3>2, SMTT(30) DEF Range, TypeOK, Pending
      <4>2. pins' = [pins EXCEPT ![buf[p]] = @ + 1]
        BY <1>5, <3>2, Registers
      <4>3. pins[buf[p]] = 0
        BY <2>1, <2>4, <4>1 DEF CacheInv
      <4>4. \A c \in Block : pins'[c] = IF c = buf[p] THEN 1 ELSE pins[c]
        BY <2>4, <4>2, <4>3, SMTT(30) DEF TypeOK
      <4> QED
        BY <2>1, <2>6, <4>4 DEF CacheInv
    <3> QED
      BY <3>1, <3>2
  <2> QED
    BY <2>1, <2>4, <2>5, <2>6, <2>7 DEF CacheInv
<1>6. ASSUME NEW p \in Proc, WriteLog(p) PROVE CacheInv'
  <2>1. /\ UNCHANGED <<boot, disk, pins, lh, pc, buf>>
        /\ boot = "up" /\ pc[p] = "write_log" /\ tail < Len(lh)
        /\ cache' = [cache EXCEPT ![lh[tail + 1]] = Contents(lh[tail + 1])]
    BY <1>6, UpWhenBusy DEF WriteLog
  <2>2. ~ Installing
    BY <2>1 DEF Installing, Commits, ControlInv, OutstandingExact
  <2>3. \A c \in Block : Pending(c)' <=> Pending(c)
    BY <2>1, <2>2 DEF Pending, Installing
  <2>4. \A c \in Block : BeingModified(c)' <=> BeingModified(c)
    BY <2>1 DEF BeingModified
  <2>5. cache' = cache
    <3>1. tail + 1 \in 1 .. Len(lh) /\ lh[tail + 1] \in Block
      BY <2>1, NextSlot
    <3>2. Pending(lh[tail + 1])
      BY <2>2, <3>1 DEF Pending
    <3> QED
      BY <2>1, <3>1, <3>2 DEF CacheInv, Contents, TypeOK
  <2> QED
    BY <2>1, <2>3, <2>4, <2>5, CacheSame
<1>7. ASSUME NEW p \in Proc, WriteHead(p) PROVE CacheInv'
  <2>1. /\ UNCHANGED <<boot, cache, disk, pins, lh, buf>>
        /\ tail' = 0
        /\ pc[p] = "write_head" /\ pc' = [pc EXCEPT ![p] = "install"]
    BY <1>7 DEF WriteHead, Goto
  <2>2. ~ Installing
    BY <2>1 DEF Installing, Commits, ControlInv, OutstandingExact
  <2>3. \A c \in Block : Pending(c)' <=> Pending(c)
    BY <2>1, <2>2, SMTT(30) DEF Pending
  <2>4. \A c \in Block : BeingModified(c) => BeingModified(c)'
    BY <2>1 DEF BeingModified, TypeOK
  <2> QED
    BY <2>1, <2>3, <2>4, CacheSame
<1>8. ASSUME NEW p \in Proc, Install(p) PROVE CacheInv'
  <2> DEFINE h == lh[tail + 1]
  <2>1. /\ UNCHANGED <<boot, lh, pc, buf>> /\ tail' = tail + 1
        /\ boot = "up" /\ pc[p] = "install" /\ tail < Len(lh)
        /\ cache' = [cache EXCEPT ![h] = dlog[tail + 1]]
        /\ disk' = [disk EXCEPT ![h] = dlog[tail + 1]]
        /\ pins' = [pins EXCEPT ![h] = @ - 1]
    BY <1>8, UpWhenBusy DEF Install, InstallBlock
  <2>2. tail + 1 \in 1 .. Len(lh) /\ h \in Block /\ tail \in Nat
    BY <2>1, NextSlot DEF TypeOK
  <2>3. \A c \in Block : Pending(c)' <=> Pending(c) /\ c # h
    BY <2>1, <2>2, SMTT(30) DEF Pending, Installing, HeaderInv
  <2>4. \A c \in Block : BeingModified(c)' <=> BeingModified(c)
    BY <2>1 DEF BeingModified
  <2>5. pins[h] = 1
    BY <2>1, InstallPinned
  <2>6. \A c \in Block \ {h} : UNCHANGED <<cache[c], disk[c], pins[c]>>
    BY <2>1, <2>2 DEF TypeOK
  <2>7. pins'[h] = 0 /\ cache'[h] = disk'[h]
    BY <2>1, <2>2, <2>5, SMTT(30) DEF TypeOK
  <2> QED
    BY <2>1, <2>2, <2>3, <2>4, <2>6, <2>7 DEF CacheInv
<1>9. ASSUME NEW p \in Proc, InstallDone(p) PROVE CacheInv'
  <2>1. /\ UNCHANGED <<boot, cache, disk, pins, buf>>
        /\ pc[p] = "install" /\ tail = Len(lh) /\ lh' = <<>>
        /\ pc' = [pc EXCEPT ![p] = "clear"]
    BY <1>9 DEF InstallDone, Goto
  <2>2. \A c \in Block : ~ Pending(c) /\ ~ Pending(c)'
    BY <2>1, SMTT(30) DEF Pending, Installing
  <2>3. \A c \in Block : BeingModified(c) => BeingModified(c)'
    BY <2>1 DEF BeingModified, TypeOK
  <2> QED
    BY <2>1, <2>2, <2>3, CacheSame
<1>10. ASSUME NEW p \in Proc, Clear(p) PROVE CacheInv'
  <2>1. /\ UNCHANGED <<boot, cache, disk, pins, lh, buf>>
        /\ pc[p] = "clear" /\ pc' = [pc EXCEPT ![p] = "committed"]
    BY <1>10 DEF Clear, Goto
  <2>2. \A c \in Block : ~ Pending(c) /\ ~ Pending(c)'
    BY <2>1, SMTT(30) DEF Pending, PhaseInv, CommitPhase
  <2>3. \A c \in Block : BeingModified(c) => BeingModified(c)'
    BY <2>1 DEF BeingModified, TypeOK
  <2> QED
    BY <2>1, <2>2, <2>3, CacheSame
<1>11. ASSUME NEW b \in Block, Evict(b) PROVE CacheInv'
  <2>1. /\ UNCHANGED <<boot, disk, pins, lh, tail, pc, buf>> /\ pins[b] = 0
        /\ \A c \in Block : cache'[c] = IF c = b THEN Absent ELSE cache[c]
    BY <1>11 DEF Evict, TypeOK
  <2>2. \A c \in Block : /\ Pending(c)' <=> Pending(c)
                         /\ BeingModified(c)' <=> BeingModified(c)
    BY <2>1 DEF Pending, BeingModified, Installing
  <2>3. boot # "up" => \A c \in Block : pins'[c] = 0 /\ cache'[c] \in {Absent, disk'[c]}
    BY <2>1 DEF CacheInv
  <2>4. boot = "up" => ~ Pending(b)
    BY <2>1, SMTT(30) DEF CacheInv
  <2>5. ASSUME boot = "up", NEW c \in Block
        PROVE  /\ pins'[c] = IF Pending(c)' THEN 1 ELSE 0
               /\ Pending(c)' => cache'[c] # Absent
               /\ ~ Pending(c)' /\ ~ BeingModified(c)' => cache'[c] \in {Absent, disk'[c]}
    <3>1. CASE c = b
      BY <2>1, <2>2, <2>4, <2>5, <3>1 DEF CacheInv
    <3>2. CASE c # b
      BY <2>1, <2>2, <2>5, <3>2 DEF CacheInv
    <3> QED
      BY <3>1, <3>2
  <2> QED
    BY <2>1, <2>3, <2>5 DEF CacheInv
<1>12. CASE ReadHead \/ RecoverInstallDone
  BY <1>12 DEF ReadHead, RecoverInstallDone, CacheInv
<1>13. CASE RecoverInstall
  <2>1. /\ UNCHANGED <<boot, pins>> /\ boot = "install" /\ tail < Len(lh)
        /\ cache' = [cache EXCEPT ![lh[tail + 1]] = dlog[tail + 1]]
        /\ disk' = [disk EXCEPT ![lh[tail + 1]] = dlog[tail + 1]]
    BY <1>13 DEF RecoverInstall, InstallBlock
  <2> QED
    BY <2>1, NextSlot DEF CacheInv, TypeOK
<1>14. CASE RecoverClear
  <2>1. UNCHANGED <<cache, disk, pins>> /\ boot = "clear" /\ boot' = "up" /\ lh' = <<>>
    BY <1>14 DEF RecoverClear, PhaseInv, BootPhase
  <2>2. \A c \in Block : ~ Pending(c)'
    BY <2>1, SMTT(30) DEF Pending
  <2> QED
    BY <2>1, <2>2 DEF CacheInv
<1>15. CASE PowerOff
  BY <1>15 DEF PowerOff, CacheInv
<1> QED
  BY <1>1, <1>2, <1>3, <1>4, <1>5, <1>6, <1>7, <1>8, <1>9, <1>10, <1>11, <1>12, <1>13, <1>14,
     <1>15
     DEF Next, Running, Fail, Recover, CallStep, CommitStep, vars, Crash, CrashTornLog, CrashTornHome

-----------------------------------------------------------------------------
(* The phases of the commit and of the recovery. *)

(* There is one commit at a time, with no call under way. *)
LEMMA OneCommitter ==
  ASSUME ControlInv, NEW p \in Proc, Commits(p)
  PROVE  /\ boot = "up" /\ committing /\ outstanding = 0
         /\ \A q \in Proc : Commits(q) => q = p
         /\ \A q \in Proc : ~ InOp(q)
<1>1. boot = "up" /\ committing /\ outstanding = 0 /\ \A q \in Proc : Commits(q) => q = p
  BY UpWhenBusy DEF Commits, ControlInv, OutstandingExact
<1>2. \A q \in Proc : ~ InOp(q)
  BY <1>1, NoCaller DEF ControlInv
<1> QED
  BY <1>1, <1>2

(* The phases when nobody commits: a quiet machine, and a recovering one. *)
LEMMA PhaseIdle ==
  ASSUME boot' = "up", dhead' = <<>>, \A q \in Proc : ~ Commits(q)',
         outstanding' # 0 \/ committing' \/ lh' = <<>>
  PROVE  PhaseInv'
<1>1. BootPhase'
  BY DEF BootPhase
<1>2. \A q \in Proc : CommitPhase(q)'
  BY DEF CommitPhase, Commits
<1> QED
  BY <1>1, <1>2 DEF PhaseInv

(* During recovery only the phase of the boot matters. *)
LEMMA PhaseBoot ==
  ASSUME boot' # "up", \A q \in Proc : ~ Commits(q)', BootPhase'
  PROVE  PhaseInv'
<1>1. \A q \in Proc : CommitPhase(q)'
  BY DEF CommitPhase, Commits
<1> QED
  BY <1>1 DEF PhaseInv

(* The phases when p commits. *)
LEMMA PhaseCommit ==
  ASSUME NEW p \in Proc, boot' = "up", committing', CommitPhase(p)',
         \A q \in Proc \ {p} : ~ Commits(q)',
         pc'[p] \in {"install", "clear"} \/ dhead' = <<>>
  PROVE  PhaseInv'
<1>1. BootPhase'
  BY DEF BootPhase
<1>2. \A q \in Proc \ {p} : CommitPhase(q)'
  BY DEF CommitPhase, Commits
<1> QED
  BY <1>1, <1>2 DEF PhaseInv

(* The commit and the recovery only look at their own control state, at the  *)
(* log, the disk and, while committing, the cached pending blocks.           *)
LEMMA PhaseSame ==
  ASSUME TypeOK, ControlInv, PhaseInv,
         UNCHANGED <<boot, disk, dlog, dhead, lh, outstanding, committing, tail>>,
         \A q \in Proc : Commits(q) \/ Commits(q)' => pc'[q] = pc[q],
         \A c \in Block : Pending(c) /\ (\E q \in Proc : Commits(q)) => cache'[c] = cache[c]
  PROVE  PhaseInv'
<1>1. \A q \in Proc, l \in {"write_log", "write_head", "install", "clear", "committed"} :
        pc'[q] = l <=> pc[q] = l
  BY DEF Commits
<1>2. \A i \in 1 .. Len(lh) : lh[i] \in Block
  BY SMTT(30) DEF TypeOK
<1>3. ASSUME NEW q \in Proc, pc[q] = "write_log" \/ pc[q] = "write_head"
      PROVE  \A i \in 1 .. Len(lh) : cache'[lh[i]] = cache[lh[i]]
  <2>1. ~ Installing
    BY <1>3, OneCommitter DEF Commits, Installing
  <2> QED
    BY <1>2, <1>3, <2>1 DEF Pending, Commits
<1>4. ASSUME NEW q \in Proc, pc[q] = "install"
      PROVE  \A i \in 1 .. Len(lh) : ~ (i <= tail) => cache'[lh[i]] = cache[lh[i]]
  BY <1>2, <1>4 DEF Pending, Commits
<1>5. AllInstalled' <=> AllInstalled
  BY DEF AllInstalled
<1>6. ASSUME NEW q \in Proc, pc'[q] = "install"
      PROVE  \A i \in 1 .. Len(lh) :
               IF i <= tail THEN disk'[lh[i]] = dlog'[i] ELSE cache'[lh[i]] = dlog'[i]
  <2>1. CommitPhase(q) /\ pc[q] = "install"
    BY <1>1, <1>6 DEF PhaseInv
  <2>2. \A i \in 1 .. Len(lh) :
          IF i <= tail THEN disk[lh[i]] = dlog[i] ELSE cache[lh[i]] = dlog[i]
    BY <2>1 DEF CommitPhase
  <2> QED
    BY <1>4, <2>1, <2>2
<1>7. ASSUME NEW q \in Proc, pc'[q] = "write_log" \/ pc'[q] = "write_head"
      PROVE  /\ pc[q] = pc'[q]
             /\ \A i \in 1 .. Len(lh) : dlog[i] = cache[lh[i]] => dlog'[i] = cache'[lh[i]]
  BY <1>1, <1>3, <1>7
<1>8. BootPhase'
  BY <1>5 DEF PhaseInv, BootPhase
<1>9. ASSUME NEW q \in Proc PROVE CommitPhase(q)'
  <2>1. CommitPhase(q)
    BY DEF PhaseInv
  <2>2. pc'[q] = "write_log" =>
          /\ tail' <= Len(lh')
          /\ \A i \in 1 .. Len(lh') : i <= tail' => dlog'[i] = cache'[lh'[i]]
    BY <1>7, <2>1 DEF CommitPhase
  <2>3. pc'[q] = "write_head" => \A i \in 1 .. Len(lh') : dlog'[i] = cache'[lh'[i]]
    BY <1>7, <2>1 DEF CommitPhase
  <2>4. pc'[q] = "install" =>
          /\ dhead' = lh'
          /\ tail' <= Len(lh')
          /\ \A i \in 1 .. Len(lh') :
               IF i <= tail' THEN disk'[lh'[i]] = dlog'[i] ELSE cache'[lh'[i]] = dlog'[i]
    BY <1>1, <1>6, <2>1 DEF CommitPhase
  <2>5. /\ pc'[q] = "clear" => lh' = <<>> /\ AllInstalled'
        /\ pc'[q] = "committed" => lh' = <<>>
    BY <1>1, <1>5, <2>1 DEF CommitPhase
  <2> QED
    BY <2>2, <2>3, <2>4, <2>5 DEF CommitPhase
<1>10. boot' = "up" /\ (\A q \in Proc : pc'[q] \notin {"install", "clear"}) => dhead' = <<>>
  BY <1>1 DEF PhaseInv
<1> QED
  BY <1>8, <1>9, <1>10 DEF PhaseInv

(* The commit and the recovery go through their phases in order. *)
LEMMA PhaseStep == IInv /\ [Next]_vars => PhaseInv'
<1> SUFFICES ASSUME IInv, [Next]_vars PROVE PhaseInv'
  OBVIOUS
<1> USE DEF IInv
<1>1. CASE UNCHANGED vars
  BY <1>1, PhaseSame DEF vars, Commits
<1>2. ASSUME NEW p \in Proc, BeginOp(p) \/ BeginSleep(p) \/ Brelse(p) PROVE PhaseInv'
  <2>1. UNCHANGED <<boot, disk, dlog, dhead, lh, outstanding, committing, tail, cache>>
    BY <1>2 DEF BeginOp, BeginSleep, Brelse
  <2>2. \A q \in Proc : Commits(q) \/ Commits(q)' => pc'[q] = pc[q]
    BY <1>2 DEF BeginOp, BeginSleep, Brelse, Goto, Commits, TypeOK
  <2> QED
    BY <2>1, <2>2, PhaseSame
<1>3. ASSUME NEW p \in Proc, NEW b \in Block, Bread(p, b) PROVE PhaseInv'
  <2>1. /\ UNCHANGED <<boot, disk, dlog, dhead, lh, outstanding, committing, tail>>
        /\ boot = "up" /\ cache' = [cache EXCEPT ![b] = Contents(b)]
    BY <1>3 DEF Bread
  <2>2. \A q \in Proc : Commits(q) \/ Commits(q)' => pc'[q] = pc[q]
    BY <1>3 DEF Bread, Goto, Commits, TypeOK
  <2>3. \A c \in Block : Pending(c) => cache'[c] = cache[c]
    BY <2>1 DEF CacheInv, Contents, TypeOK
  <2> QED
    BY <2>1, <2>2, <2>3, PhaseSame
<1>4. ASSUME NEW p \in Proc, NEW v \in Val, Modify(p, v) PROVE PhaseInv'
  <2>1. UNCHANGED <<boot, disk, dlog, dhead, lh, outstanding, committing, tail>> /\ InOp(p)
    BY <1>4 DEF Modify, InOp
  <2>2. \A q \in Proc : Commits(q) \/ Commits(q)' => pc'[q] = pc[q]
    BY <1>4 DEF Modify, Goto, Commits, TypeOK
  <2>3. \A q \in Proc : ~ Commits(q)
    BY <2>1, NoCommitInCall
  <2> QED
    BY <2>1, <2>2, <2>3, PhaseSame
<1>5. ASSUME NEW b \in Block, Evict(b) PROVE PhaseInv'
  <2>1. /\ UNCHANGED <<boot, disk, dlog, dhead, lh, outstanding, committing, tail, pc>>
        /\ pins[b] = 0
        /\ \A c \in Block \ {b} : cache'[c] = cache[c]
    BY <1>5 DEF Evict, TypeOK
  <2>2. (\E q \in Proc : Commits(q)) => boot = "up"
    BY OneCommitter
  <2>3. boot = "up" => ~ Pending(b)
    <3>1. boot = "up" => pins[b] = IF Pending(b) THEN 1 ELSE 0
      BY DEF CacheInv
    <3> QED
      BY <2>1, <3>1, SMTT(30)
  <2> QED
    BY <2>1, <2>2, <2>3, PhaseSame DEF Commits
<1>6. ASSUME NEW p \in Proc, BeginEnter(p) PROVE PhaseInv'
  <2>1. /\ UNCHANGED <<boot, disk, dlog, dhead, lh>> /\ ~ committing
        /\ boot = "up" /\ outstanding' = outstanding + 1
    BY <1>6, UpWhenBusy DEF BeginEnter, MustWait
  <2>2. \A q \in Proc : ~ Commits(q)
    BY <2>1, OneCommitter
  <2>3. \A q \in Proc : ~ Commits(q)'
    BY <1>6, <2>2 DEF BeginEnter, Goto, Commits, TypeOK
  <2>4. outstanding' # 0
    BY <2>1, SMTT(30) DEF TypeOK
  <2>5. dhead = <<>>
    BY <2>1, <2>2 DEF PhaseInv, Commits
  <2> QED
    BY <2>1, <2>3, <2>4, <2>5, PhaseIdle
<1>7. ASSUME NEW p \in Proc, LogWrite(p) PROVE PhaseInv'
  <2>1. UNCHANGED <<boot, disk, dlog, dhead, outstanding>> /\ boot = "up" /\ InOp(p)
    BY <1>7, UpWhenBusy DEF LogWrite, InOp
  <2>2. \A q \in Proc : ~ Commits(q)
    BY <2>1, NoCommitInCall
  <2>3. \A q \in Proc : ~ Commits(q)'
    BY <1>7, <2>2 DEF LogWrite, Goto, Commits, TypeOK
  <2>4. outstanding # 0
    BY <2>1, CallerCounts, SMTT(30) DEF ControlInv
  <2>5. dhead = <<>>
    BY <2>1, <2>2 DEF PhaseInv, Commits
  <2> QED
    BY <2>1, <2>3, <2>4, <2>5, PhaseIdle
<1>8. ASSUME NEW p \in Proc, EndOp(p) PROVE PhaseInv'
  <2>1. /\ UNCHANGED <<boot, disk, dlog, dhead, lh, cache>> /\ boot = "up" /\ InOp(p)
        /\ outstanding' = outstanding - 1
    BY <1>8, UpWhenBusy DEF EndOp, InOp
  <2>2. outstanding >= 1 /\ \A q \in Proc : ~ Commits(q)
    BY <2>1, CallerCounts, NoCommitInCall DEF ControlInv
  <2>3. dhead = <<>>
    BY <2>1, <2>2 DEF PhaseInv, Commits
  <2>4. CASE outstanding = 1
    <3>1. committing' /\ tail' = 0
      BY <1>8, <2>4 DEF EndOp
    <3>2. \A q \in Proc \ {p} : ~ Commits(q)'
      BY <1>8, <2>2, <2>4 DEF EndOp, Goto, Commits, TypeOK
    <3>3. pc'[p] = IF lh = <<>> THEN "committed" ELSE "write_log"
      BY <1>8, <2>4 DEF EndOp, Goto, TypeOK
    <3>4. tail' <= Len(lh') /\ \A i \in 1 .. Len(lh') : ~ (i <= tail')
      BY <2>1, <3>1, SMTT(30) DEF TypeOK
    <3>5. CommitPhase(p)'
      <4>1. pc'[p] \in {"committed", "write_log"} /\ (pc'[p] = "committed" => lh' = <<>>)
        BY <2>1, <3>3
      <4> QED
        BY <3>4, <4>1 DEF CommitPhase
    <3> QED
      BY <2>1, <2>3, <3>1, <3>2, <3>5, PhaseCommit
  <2>5. CASE outstanding # 1
    <3>1. \A q \in Proc : ~ Commits(q)'
      BY <1>8, <2>2, <2>5 DEF EndOp, Woken, Commits, TypeOK
    <3>2. outstanding' # 0
      BY <2>1, <2>2, <2>5, SMTT(30) DEF TypeOK
    <3> QED
      BY <2>1, <2>3, <3>1, <3>2, PhaseIdle
  <2> QED
    BY <2>4, <2>5
<1>9. ASSUME NEW p \in Proc, WriteLog(p) PROVE PhaseInv'
  <2>1. /\ UNCHANGED <<boot, disk, dhead, lh, outstanding, committing, pc>>
        /\ pc[p] = "write_log" /\ tail < Len(lh) /\ tail' = tail + 1
        /\ cache' = [cache EXCEPT ![lh[tail + 1]] = Contents(lh[tail + 1])]
        /\ dlog' = [dlog EXCEPT ![tail + 1] = Contents(lh[tail + 1])]
    BY <1>9 DEF WriteLog
  <2>2. boot = "up" /\ committing /\ \A q \in Proc : Commits(q) => q = p
    BY <2>1, OneCommitter DEF Commits
  <2>3. tail + 1 \in 1 .. Len(lh) /\ tail + 1 \in Slot /\ lh[tail + 1] \in Block
    BY <2>1, NextSlot
  <2>4. Pending(lh[tail + 1])
    BY <2>1, <2>2, <2>3 DEF Pending, Installing, Commits
  <2>5. Contents(lh[tail + 1]) = cache[lh[tail + 1]]
    BY <2>2, <2>3, <2>4 DEF CacheInv, Contents
  <2>6. cache' = cache
    BY <2>1, <2>3, <2>5 DEF TypeOK
  <2>7. \A i \in 1 .. Len(lh) : i <= tail + 1 => dlog'[i] = cache[lh[i]]
    <3>1. dlog'[tail + 1] = cache[lh[tail + 1]]
      BY <2>1, <2>3, <2>5 DEF TypeOK
    <3>2. \A i \in 1 .. Len(lh) : i <= tail => dlog'[i] = dlog[i]
      BY <2>1, <2>3, SMTT(30) DEF TypeOK
    <3>3. \A i \in 1 .. Len(lh) : i <= tail => dlog[i] = cache[lh[i]]
      BY <2>1 DEF PhaseInv, CommitPhase
    <3>4. tail \in Nat /\ \A i \in 1 .. Len(lh) : i <= tail + 1 => i <= tail \/ i = tail + 1
      BY SMTT(30) DEF TypeOK
    <3> QED
      BY <3>1, <3>2, <3>3, <3>4
  <2>8. tail + 1 <= Len(lh)
    BY <2>3, SMTT(30)
  <2>9. CommitPhase(p)'
    BY <2>1, <2>6, <2>7, <2>8 DEF CommitPhase
  <2>10. dhead = <<>> /\ \A q \in Proc \ {p} : ~ Commits(q)'
    BY <2>1, <2>2 DEF PhaseInv, Commits
  <2> QED
    BY <2>1, <2>2, <2>9, <2>10, PhaseCommit
<1>10. ASSUME NEW p \in Proc, WriteLogDone(p) PROVE PhaseInv'
  <2>1. /\ UNCHANGED <<boot, disk, dlog, dhead, lh, outstanding, committing, cache, tail>>
        /\ pc[p] = "write_log" /\ tail = Len(lh) /\ pc' = [pc EXCEPT ![p] = "write_head"]
    BY <1>10 DEF WriteLogDone, Goto
  <2>2. boot = "up" /\ committing /\ \A q \in Proc : Commits(q) => q = p
    BY <2>1, OneCommitter DEF Commits
  <2>3. \A q \in Proc \ {p} : ~ Commits(q)'
    BY <2>1, <2>2 DEF Commits, TypeOK
  <2>4. pc'[p] = "write_head"
    BY <2>1 DEF TypeOK
  <2>5. \A i \in 1 .. Len(lh') : dlog'[i] = cache'[lh'[i]]
    <3>1. CommitPhase(p)
      BY DEF PhaseInv
    <3>2. \A i \in 1 .. Len(lh) : i <= tail => dlog[i] = cache[lh[i]]
      BY <2>1, <3>1 DEF CommitPhase
    <3>3. \A i \in 1 .. Len(lh) : i <= tail
      BY <2>1, SMTT(30) DEF TypeOK
    <3> QED
      BY <2>1, <3>2, <3>3
  <2>6. dhead = <<>>
    BY <2>1, <2>2 DEF PhaseInv, Commits
  <2>7. CommitPhase(p)'
    BY <2>4, <2>5 DEF CommitPhase
  <2> QED
    BY <2>1, <2>2, <2>3, <2>6, <2>7, PhaseCommit
<1>11. ASSUME NEW p \in Proc, WriteHead(p) PROVE PhaseInv'
  <2>1. /\ UNCHANGED <<boot, disk, dlog, lh, outstanding, committing, cache>>
        /\ dhead' = lh /\ tail' = 0
        /\ pc[p] = "write_head" /\ pc' = [pc EXCEPT ![p] = "install"]
    BY <1>11 DEF WriteHead, Goto
  <2>2. boot = "up" /\ committing /\ \A q \in Proc : Commits(q) => q = p
    BY <2>1, OneCommitter DEF Commits
  <2>3. \A q \in Proc \ {p} : ~ Commits(q)'
    BY <2>1, <2>2 DEF Commits, TypeOK
  <2>4. pc'[p] = "install" /\ Len(lh) \in Nat
    BY <2>1, SMTT(30) DEF TypeOK
  <2>5. \A i \in 1 .. Len(lh') : ~ (i <= tail') /\ cache'[lh'[i]] = dlog'[i]
    <3>1. CommitPhase(p)
      BY DEF PhaseInv
    <3>2. \A i \in 1 .. Len(lh) : dlog[i] = cache[lh[i]]
      BY <2>1, <3>1 DEF CommitPhase
    <3>3. \A i \in 1 .. Len(lh) : ~ (i <= tail')
      BY <2>1, <2>4, SMTT(30)
    <3> QED
      BY <2>1, <3>2, <3>3
  <2>6. CommitPhase(p)'
    <3>1. dhead' = lh' /\ tail' <= Len(lh')
      BY <2>1, <2>4, SMTT(30)
    <3> QED
      BY <2>4, <2>5, <3>1 DEF CommitPhase
  <2> QED
    BY <2>1, <2>2, <2>3, <2>4, <2>6, PhaseCommit
<1>12. ASSUME NEW p \in Proc, Install(p) PROVE PhaseInv'
  <2> DEFINE h == lh[tail + 1]
  <2>1. /\ UNCHANGED <<boot, dlog, dhead, lh, outstanding, committing, pc>>
        /\ pc[p] = "install" /\ tail < Len(lh) /\ tail' = tail + 1
        /\ cache' = [cache EXCEPT ![h] = dlog[tail + 1]]
        /\ disk' = [disk EXCEPT ![h] = dlog[tail + 1]]
    BY <1>12 DEF Install, InstallBlock
  <2>2. boot = "up" /\ committing /\ \A q \in Proc : Commits(q) => q = p
    BY <2>1, OneCommitter DEF Commits
  <2>3. tail + 1 \in 1 .. Len(lh) /\ h \in Block /\ tail \in Nat
    BY <2>1, NextSlot DEF TypeOK
  <2>4. \A c \in Block \ {h} : cache'[c] = cache[c] /\ disk'[c] = disk[c]
    BY <2>1, <2>3 DEF TypeOK
  <2>5. disk'[h] = dlog[tail + 1]
    BY <2>1, <2>3 DEF TypeOK
  <2>6. \A i \in 1 .. Len(lh) : i # tail + 1 => lh[i] \in Block \ {h}
    BY <2>3, SMTT(30) DEF HeaderInv, TypeOK
  <2>7. /\ dhead = lh
        /\ \A i \in 1 .. Len(lh) :
             IF i <= tail THEN disk[lh[i]] = dlog[i] ELSE cache[lh[i]] = dlog[i]
    <3>1. CommitPhase(p)
      BY DEF PhaseInv
    <3> QED
      BY <2>1, <3>1 DEF CommitPhase
  <2>8. ASSUME NEW i \in 1 .. Len(lh)
        PROVE  IF i <= tail' THEN disk'[lh[i]] = dlog[i] ELSE cache'[lh[i]] = dlog[i]
    <3>1. CASE i = tail + 1
      BY <2>1, <2>3, <2>5, <3>1, SMTT(30)
    <3>2. CASE i # tail + 1
      <4>1. disk'[lh[i]] = disk[lh[i]] /\ cache'[lh[i]] = cache[lh[i]]
        BY <2>4, <2>6, <3>2
      <4>2. i <= tail' <=> i <= tail
        BY <2>1, <2>3, <3>2, SMTT(30)
      <4> QED
        BY <2>7, <4>1, <4>2
    <3> QED
      BY <3>1, <3>2
  <2>9. pc'[p] = "install" /\ tail' <= Len(lh') /\ dhead' = lh'
    BY <2>1, <2>3, <2>7, SMTT(30)
  <2>10. CommitPhase(p)'
    <3>1. \A i \in 1 .. Len(lh') :
            IF i <= tail' THEN disk'[lh'[i]] = dlog'[i] ELSE cache'[lh'[i]] = dlog'[i]
      BY <2>1, <2>8
    <3> QED
      BY <2>9, <3>1 DEF CommitPhase
  <2>11. \A q \in Proc \ {p} : ~ Commits(q)'
    BY <2>1, <2>2 DEF Commits
  <2> QED
    BY <2>1, <2>2, <2>10, <2>11, PhaseCommit
<1>13. ASSUME NEW p \in Proc, InstallDone(p) PROVE PhaseInv'
  <2>1. /\ UNCHANGED <<boot, disk, dlog, dhead, outstanding, committing>>
        /\ pc[p] = "install" /\ tail = Len(lh) /\ lh' = <<>>
        /\ pc' = [pc EXCEPT ![p] = "clear"]
    BY <1>13 DEF InstallDone, Goto
  <2>2. boot = "up" /\ committing /\ \A q \in Proc : Commits(q) => q = p
    BY <2>1, OneCommitter DEF Commits
  <2>3. \A q \in Proc \ {p} : ~ Commits(q)'
    BY <2>1, <2>2 DEF Commits, TypeOK
  <2>4. pc'[p] = "clear"
    BY <2>1 DEF TypeOK
  <2>5. AllInstalled'
    <3>1. /\ dhead = lh
          /\ \A i \in 1 .. Len(lh) :
               IF i <= tail THEN disk[lh[i]] = dlog[i] ELSE cache[lh[i]] = dlog[i]
      <4>1. CommitPhase(p)
        BY DEF PhaseInv
      <4> QED
        BY <2>1, <4>1 DEF CommitPhase
    <3>2. \A i \in 1 .. Len(lh) : i <= tail
      BY <2>1, SMTT(30) DEF TypeOK
    <3> QED
      BY <2>1, <3>1, <3>2 DEF AllInstalled
  <2>6. CommitPhase(p)'
    BY <2>1, <2>4, <2>5 DEF CommitPhase
  <2> QED
    BY <2>1, <2>2, <2>3, <2>4, <2>6, PhaseCommit
<1>14. ASSUME NEW p \in Proc, Clear(p) PROVE PhaseInv'
  <2>1. /\ UNCHANGED <<boot, outstanding, committing, lh>>
        /\ pc[p] = "clear" /\ dhead' = lh /\ lh = <<>>
        /\ pc' = [pc EXCEPT ![p] = "committed"]
    BY <1>14 DEF Clear, Goto, PhaseInv, CommitPhase
  <2>2. boot = "up" /\ committing /\ \A q \in Proc : Commits(q) => q = p
    BY <2>1, OneCommitter DEF Commits
  <2>3. \A q \in Proc \ {p} : ~ Commits(q)'
    BY <2>1, <2>2 DEF Commits, TypeOK
  <2>4. pc'[p] = "committed"
    BY <2>1 DEF TypeOK
  <2>5. CommitPhase(p)'
    BY <2>1, <2>4 DEF CommitPhase
  <2> QED
    BY <2>1, <2>2, <2>3, <2>5, PhaseCommit
<1>15. ASSUME NEW p \in Proc, EndCommit(p) PROVE PhaseInv'
  <2>1. UNCHANGED <<boot, dhead, lh>> /\ pc[p] = "committed" /\ lh = <<>>
    BY <1>15 DEF EndCommit, PhaseInv, CommitPhase
  <2>2. boot = "up" /\ \A q \in Proc : Commits(q) => q = p
    BY <2>1, OneCommitter DEF Commits
  <2>3. \A q \in Proc : ~ Commits(q)'
    BY <1>15, <2>2 DEF EndCommit, Woken, Commits, TypeOK
  <2>4. dhead = <<>>
    BY <2>1, <2>2 DEF PhaseInv, Commits
  <2> QED
    BY <2>1, <2>2, <2>3, <2>4, PhaseIdle
<1>16. ASSUME boot # "up", UNCHANGED pc PROVE \A q \in Proc : ~ Commits(q)'
  BY <1>16, UpWhenBusy DEF Commits
<1>17. CASE ReadHead
  <2>1. /\ UNCHANGED <<dhead, pc>> /\ boot = "read_head" /\ boot' = "install"
        /\ lh' = dhead /\ tail' = 0
    BY <1>17 DEF ReadHead
  <2>2. /\ boot' = "install" /\ dhead' = lh' /\ tail' <= Len(lh')
        /\ \A i \in 1 .. Len(lh') : ~ (i <= tail')
    BY <2>1, SMTT(30) DEF TypeOK
  <2>3. BootPhase'
    BY <2>2 DEF BootPhase
  <2> QED
    BY <1>16, <2>1, <2>3, PhaseBoot
<1>18. CASE RecoverInstall
  <2> DEFINE h == lh[tail + 1]
  <2>1. /\ UNCHANGED <<boot, dlog, dhead, lh, pc>> /\ boot = "install"
        /\ tail < Len(lh) /\ tail' = tail + 1
        /\ disk' = [disk EXCEPT ![h] = dlog[tail + 1]]
    BY <1>18 DEF RecoverInstall, InstallBlock
  <2>2. tail + 1 \in 1 .. Len(lh) /\ h \in Block /\ tail \in Nat
    BY <2>1, NextSlot DEF TypeOK
  <2>3. \A i \in 1 .. Len(lh) : i # tail + 1 => lh[i] \in Block \ {h}
    BY <2>2, SMTT(30) DEF HeaderInv, TypeOK
  <2>4. disk'[h] = dlog[tail + 1] /\ \A c \in Block \ {h} : disk'[c] = disk[c]
    BY <2>1, <2>2 DEF TypeOK
  <2>5. dhead = lh /\ \A i \in 1 .. Len(lh) : i <= tail => disk[lh[i]] = dlog[i]
    BY <2>1 DEF PhaseInv, BootPhase
  <2>6. ASSUME NEW i \in 1 .. Len(lh), i <= tail + 1 PROVE disk'[lh[i]] = dlog[i]
    <3>1. CASE i = tail + 1
      BY <2>4, <3>1
    <3>2. CASE i # tail + 1
      <4>1. i <= tail
        BY <2>2, <2>6, <3>2, SMTT(30)
      <4> QED
        BY <2>3, <2>4, <2>5, <3>2, <4>1
    <3> QED
      BY <3>1, <3>2
  <2>7. BootPhase'
    <3>1. /\ boot' = "install" /\ dhead' = lh' /\ tail' <= Len(lh')
          /\ \A i \in 1 .. Len(lh') : i <= tail' => disk'[lh'[i]] = dlog'[i]
      BY <2>1, <2>2, <2>5, <2>6, SMTT(30)
    <3> QED
      BY <3>1 DEF BootPhase
  <2> QED
    BY <1>16, <2>1, <2>7, PhaseBoot
<1>19. CASE RecoverInstallDone
  <2>1. /\ UNCHANGED <<disk, dlog, dhead, pc>> /\ boot = "install" /\ boot' = "clear"
        /\ tail = Len(lh) /\ lh' = <<>>
    BY <1>19 DEF RecoverInstallDone
  <2>2. AllInstalled'
    <3>1. dhead = lh /\ \A i \in 1 .. Len(lh) : i <= tail => disk[lh[i]] = dlog[i]
      BY <2>1 DEF PhaseInv, BootPhase
    <3>2. \A i \in 1 .. Len(lh) : i <= tail
      BY <2>1, SMTT(30) DEF TypeOK
    <3> QED
      BY <2>1, <3>1, <3>2 DEF AllInstalled
  <2>3. BootPhase'
    BY <2>1, <2>2 DEF BootPhase
  <2> QED
    BY <1>16, <2>1, <2>3, PhaseBoot
<1>20. CASE RecoverClear
  <2>1. UNCHANGED <<lh, pc>> /\ boot = "clear" /\ boot' = "up" /\ lh = <<>> /\ dhead' = <<>>
    BY <1>20 DEF RecoverClear, PhaseInv, BootPhase
  <2> QED
    BY <1>16, <2>1, PhaseIdle
<1>21. CASE PowerOff
  <2>1. \A q \in Proc : ~ Commits(q)'
    BY <1>21 DEF PowerOff, Commits
  <2>2. boot' # "up" /\ BootPhase'
    BY <1>21 DEF PowerOff, BootPhase
  <2> QED
    BY <2>1, <2>2, PhaseBoot
<1> QED
  BY <1>1, <1>2, <1>3, <1>4, <1>5, <1>6, <1>7, <1>8, <1>9, <1>10, <1>11, <1>12, <1>13, <1>14,
     <1>15, <1>17, <1>18, <1>19, <1>20, <1>21
     DEF Next, Running, Fail, Recover, CallStep, CommitStep, vars, Crash, CrashTornLog, CrashTornHome

(* A freshly made disk, about to boot, satisfies the invariant. *)
LEMMA InitInv == Init => IInv
<1> SUFFICES ASSUME Init PROVE IInv
  OBVIOUS
<1>1. TypeOK
  BY TypeInit
<1>2. ControlInv
  <2>1. Callers = {}
    BY DEF Init, Callers, InOp
  <2> QED
    BY <2>1, FS_EmptySet DEF Init, ControlInv, OutstandingExact, Callers, Commits
<1>3. BufferInv
  BY DEF Init, BufferInv
<1>4. HeaderInv
  BY LogAssumption, SMTT(30) DEF Init, HeaderInv
<1>5. CacheInv
  BY DEF Init, CacheInv
<1>6. PhaseInv
  BY DEF Init, PhaseInv, BootPhase, CommitPhase
<1> QED
  BY <1>1, <1>2, <1>3, <1>4, <1>5, <1>6 DEF IInv

(* Every step, a crash at any moment included, keeps the invariant. *)
LEMMA NextInv == IInv /\ [Next]_vars => IInv'
BY TypeStep, ControlStep, BufferStep, HeaderStep, CacheStep, PhaseStep DEF IInv

(* The inductive invariant of begin_op(), end_op(), commit(), log_write(),   *)
(* the buffer cache and recover_from_log() holds throughout.                 *)
THEOREM LogInvariant == Spec => []IInv
BY InitInv, NextInv, PTL DEF Spec

-----------------------------------------------------------------------------
(* The space begin_op() reserves.  What the calls under way have registered, *)
(* each block once for every call that did.                                  *)
Registered == {x \in Proc \X Range(lh) : InOp(x[1]) /\ x[2] \in wrote[x[1]]}

(* A call has registered the blocks it changed but for the one at hand, and  *)
(* no more than a call may.                                                  *)
WroteInv ==
  \A p \in Proc : InOp(p) =>
    /\ IsFiniteSet(wrote[p]) /\ Cardinality(wrote[p]) <= OpBlocks
    /\ \A b \in wrote[p] : b \in Range(lh) \/ (pc[p] = "modified" /\ buf[p] = b)
    /\ pc[p] = "modified" => buf[p] \in wrote[p]

(* Every call still has room for MAXOPBLOCKS blocks, less those it has       *)
(* registered.                                                               *)
SpaceInv ==
  outstanding > 0 =>
    Len(lh) + outstanding * MAXOPBLOCKS <= LOGSIZE + Cardinality(Registered)

RoomInv == WroteInv /\ SpaceInv

(* log.lh names finitely many blocks, so the registrations are finite. *)
LEMMA RegisteredFinite ==
  ASSUME NEW s \in Seq(Block), NEW R \in SUBSET (Proc \X Range(s))
  PROVE  IsFiniteSet(R) /\ Cardinality(R) \in Nat
<1>1. Len(s) \in Nat /\ DOMAIN s = 1 .. Len(s) /\ s \in [1 .. Len(s) -> Block]
  BY SMTT(30)
<1>2. s \in Surjection(1 .. Len(s), Range(s))
  BY <1>1 DEF Surjection, Range
<1>3. IsFiniteSet(1 .. Len(s))
  BY <1>1, FS_Interval, SMTT(30)
<1>4. IsFiniteSet(Range(s))
  BY <1>2, <1>3, FS_Surjection
<1>5. IsFiniteSet(Proc \X Range(s))
  BY <1>4, LogAssumption, FS_Product
<1>6. IsFiniteSet(R)
  BY <1>5, FS_Subset
<1> QED
  BY <1>6, FS_CardinalityType

(* Without calls nothing is reserved: commit(), recovery and a crash. *)
LEMMA RoomQuiet ==
  ASSUME OutstandingExact', outstanding' = 0
  PROVE  RoomInv'
<1>1. IsFiniteSet(Callers')
  BY LogAssumption, FS_Subset DEF Callers
<1>2. Cardinality(Callers') = 0
  BY DEF OutstandingExact
<1>3. Callers' = {}
  BY <1>1, <1>2, FS_EmptySet
<1>4. WroteInv'
  BY <1>3 DEF WroteInv, Callers
<1>5. ~ (outstanding' > 0)
  BY SMTT(30)
<1> QED
  BY <1>4, <1>5 DEF RoomInv, SpaceInv

(* Steps that leave log.lh and the calls as they are. *)
LEMMA RoomSame ==
  ASSUME RoomInv, UNCHANGED <<lh, wrote, outstanding>>,
         \A q \in Proc : InOp(q)' <=> InOp(q),
         \A q \in Proc : pc'[q] = "modified" <=> pc[q] = "modified",
         \A q \in Proc : pc[q] = "modified" => buf'[q] = buf[q]
  PROVE  RoomInv'
<1>1. WroteInv'
  <2> SUFFICES ASSUME NEW q \in Proc, InOp(q)'
               PROVE  /\ IsFiniteSet(wrote[q]) /\ Cardinality(wrote[q]) <= OpBlocks
                      /\ \A b \in wrote[q] : b \in Range(lh) \/ (pc'[q] = "modified" /\ buf'[q] = b)
                      /\ pc'[q] = "modified" => buf'[q] \in wrote[q]
    BY DEF WroteInv
  <2>1. /\ IsFiniteSet(wrote[q]) /\ Cardinality(wrote[q]) <= OpBlocks
        /\ \A b \in wrote[q] : b \in Range(lh) \/ (pc[q] = "modified" /\ buf[q] = b)
        /\ pc[q] = "modified" => buf[q] \in wrote[q]
    BY DEF RoomInv, WroteInv
  <2> QED
    BY <2>1
<1>2. Registered' = Registered
  <2>1. \A x \in Proc \X Range(lh) : x[1] \in Proc
    OBVIOUS
  <2>2. \A x \in Proc \X Range(lh) : InOp(x[1])' <=> InOp(x[1])
    BY <2>1
  <2> QED
    BY <2>2 DEF Registered
<1>3. SpaceInv'
  BY <1>2 DEF RoomInv, SpaceInv
<1> QED
  BY <1>1, <1>3 DEF RoomInv

(* begin_op() lets a call in when there is room for all its blocks. *)
LEMMA RoomEnter ==
  ASSUME IInv, RoomInv, NEW p \in Proc, BeginEnter(p)
  PROVE  RoomInv'
<1>t. /\ lh \in Seq(Block) /\ outstanding \in Nat /\ pc[p] = "begin"
      /\ Len(lh) + (outstanding + 1) * MAXOPBLOCKS <= LOGSIZE
  <2>1. lh \in Seq(Block) /\ outstanding \in Nat
    BY DEF IInv, TypeOK
  <2>2. ~ (Len(lh) + (outstanding + 1) * MAXOPBLOCKS > LOGSIZE) /\ pc[p] = "begin"
    BY DEF BeginEnter, MustWait
  <2>3. Len(lh) \in Nat
    BY <2>1, SMTT(30)
  <2>4. (outstanding + 1) * MAXOPBLOCKS \in Nat
    BY <2>1, LogAssumption, SMTT(30)
  <2> QED
    BY <2>1, <2>2, <2>3, <2>4, LogAssumption, SMTT(30)
<1>c. /\ lh' = lh /\ buf' = buf /\ outstanding' = outstanding + 1
      /\ pc'[p] = "op" /\ wrote'[p] = {}
      /\ \A q \in Proc \ {p} : pc'[q] = pc[q] /\ wrote'[q] = wrote[q]
  BY DEF IInv, TypeOK, BeginEnter, Goto
<1>1. WroteInv'
  <2> SUFFICES ASSUME NEW q \in Proc, InOp(q)'
               PROVE  /\ IsFiniteSet(wrote'[q]) /\ Cardinality(wrote'[q]) <= OpBlocks
                      /\ \A b \in wrote'[q] : b \in Range(lh) \/ (pc'[q] = "modified" /\ buf[q] = b)
                      /\ pc'[q] = "modified" => buf[q] \in wrote'[q]
    BY <1>c DEF WroteInv
  <2>1. CASE q = p
    <3>1. IsFiniteSet({}) /\ Cardinality({}) = 0
      BY FS_EmptySet
    <3>2. 0 <= OpBlocks
      BY LogAssumption, SMTT(30)
    <3> QED
      BY <1>c, <2>1, <3>1, <3>2
  <2>2. CASE q # p
    <3>1. InOp(q)
      BY <1>c, <2>2 DEF InOp
    <3> QED
      BY <1>c, <2>2, <3>1 DEF RoomInv, WroteInv
  <2> QED
    BY <2>1, <2>2
<1>2. Cardinality(Registered') \in Nat
  <2>1. Registered' \in SUBSET (Proc \X Range(lh))
    BY <1>c DEF Registered
  <2> QED
    BY <1>t, <2>1, RegisteredFinite
<1>3. Len(lh') + outstanding' * MAXOPBLOCKS <= LOGSIZE + Cardinality(Registered')
  <2>1. Len(lh) \in Nat /\ (outstanding + 1) * MAXOPBLOCKS \in Nat
    BY <1>t, LogAssumption, SMTT(30)
  <2>2. Len(lh) + (outstanding + 1) * MAXOPBLOCKS <= LOGSIZE + Cardinality(Registered')
    BY <1>t, <1>2, <2>1, LogAssumption, SMTT(30)
  <2> QED
    BY <1>c, <2>2
<1> QED
  BY <1>1, <1>3 DEF RoomInv, SpaceInv

(* The caller changes a buffer: one more block at most, and not too many. *)
LEMMA RoomModify ==
  ASSUME IInv, RoomInv, NEW p \in Proc, NEW v \in Val, Modify(p, v)
  PROVE  RoomInv'
<1>t. lh \in Seq(Block) /\ outstanding \in Nat
  BY DEF IInv, TypeOK
<1>c. /\ lh' = lh /\ buf' = buf /\ outstanding' = outstanding
      /\ pc[p] = "held" /\ pc'[p] = "modified" /\ wrote'[p] = wrote[p] \cup {buf[p]}
      /\ Cardinality(wrote[p] \cup {buf[p]}) <= OpBlocks
      /\ \A q \in Proc \ {p} : pc'[q] = pc[q] /\ wrote'[q] = wrote[q]
  BY DEF IInv, TypeOK, Modify, Goto
<1>w. /\ IsFiniteSet(wrote[p])
      /\ \A b \in wrote[p] : b \in Range(lh)
  BY <1>c DEF RoomInv, WroteInv, InOp
<1>o. \A q \in Proc : InOp(q)' <=> InOp(q)
  BY <1>c DEF InOp
<1>1. WroteInv'
  <2> SUFFICES ASSUME NEW q \in Proc, InOp(q)
               PROVE  /\ IsFiniteSet(wrote'[q]) /\ Cardinality(wrote'[q]) <= OpBlocks
                      /\ \A b \in wrote'[q] : b \in Range(lh) \/ (pc'[q] = "modified" /\ buf[q] = b)
                      /\ pc'[q] = "modified" => buf[q] \in wrote'[q]
    BY <1>c, <1>o DEF WroteInv
  <2>1. CASE q = p
    <3>1. IsFiniteSet(wrote[p] \cup {buf[p]})
      BY <1>w, FS_AddElement
    <3> QED
      BY <1>c, <1>w, <2>1, <3>1
  <2>2. CASE q # p
    BY <1>c, <2>2 DEF RoomInv, WroteInv
  <2> QED
    BY <2>1, <2>2
<1>2. Registered \in SUBSET Registered' /\ Registered' \in SUBSET (Proc \X Range(lh))
  <2>1. \A q \in Proc : wrote[q] \subseteq wrote'[q]
    BY <1>c
  <2>2. \A x \in Proc \X Range(lh) : x[1] \in Proc
    OBVIOUS
  <2>3. \A x \in Proc \X Range(lh) :
          InOp(x[1]) /\ x[2] \in wrote[x[1]] => InOp(x[1])' /\ x[2] \in wrote'[x[1]]
    BY <1>o, <2>1, <2>2
  <2> QED
    BY <1>c, <2>3 DEF Registered
<1>3. /\ Cardinality(Registered) \in Nat /\ Cardinality(Registered') \in Nat
      /\ Cardinality(Registered) <= Cardinality(Registered')
  <2>1. IsFiniteSet(Registered') /\ Cardinality(Registered') \in Nat
    BY <1>t, <1>2, RegisteredFinite
  <2>2. IsFiniteSet(Registered) /\ Cardinality(Registered) <= Cardinality(Registered')
    BY <1>2, <2>1, FS_Subset
  <2> QED
    BY <2>1, <2>2, FS_CardinalityType
<1>4. SpaceInv'
  <2> SUFFICES ASSUME outstanding > 0
               PROVE  Len(lh) + outstanding * MAXOPBLOCKS <= LOGSIZE + Cardinality(Registered')
    BY <1>c DEF SpaceInv
  <2>1. Len(lh) + outstanding * MAXOPBLOCKS <= LOGSIZE + Cardinality(Registered)
    BY DEF RoomInv, SpaceInv
  <2>2. Len(lh) \in Nat /\ outstanding * MAXOPBLOCKS \in Nat
    BY <1>t, LogAssumption, SMTT(30)
  <2> QED
    BY <1>3, <2>1, <2>2, LogAssumption, SMTT(30)
<1> QED
  BY <1>1, <1>4 DEF RoomInv

(* log_write() takes a place in the header only for a block that the call    *)
(* had not registered, so it takes it from the call's own reservation.       *)
LEMMA RoomLogWrite ==
  ASSUME IInv, RoomInv, NEW p \in Proc, LogWrite(p)
  PROVE  RoomInv'
<1>t. TypeOK /\ BufferInv /\ lh \in Seq(Block) /\ outstanding \in Nat
  BY DEF IInv, TypeOK
<1>c. /\ wrote' = wrote /\ buf' = buf /\ outstanding' = outstanding
      /\ pc[p] = "modified" /\ pc'[p] = "held"
      /\ \A q \in Proc \ {p} : pc'[q] = pc[q]
  BY <1>t DEF TypeOK, LogWrite, Goto
<1>o. \A q \in Proc : InOp(q)' <=> InOp(q)
  BY <1>c DEF InOp
<1>l. lh' \in Seq(Block) /\ Range(lh') = Range(lh) \cup {buf[p]}
  <2>1. CASE buf[p] \in Range(lh)
    BY <1>t, <2>1 DEF LogWrite
  <2>2. CASE buf[p] \notin Range(lh)
    <3>1. /\ lh' \in Seq(Block) /\ Len(lh') = Len(lh) + 1
          /\ \A i \in 1 .. Len(lh) : lh'[i] = lh[i]
          /\ lh'[Len(lh) + 1] = buf[p]
      BY <1>t, <2>2, Registers
    <3>2. DOMAIN lh = 1 .. Len(lh) /\ DOMAIN lh' = 1 .. Len(lh') /\ Len(lh) \in Nat
      BY <1>t, <3>1, SMTT(30)
    <3>3. 1 .. Len(lh') = (1 .. Len(lh)) \cup {Len(lh) + 1}
      BY <3>1, <3>2, SMTT(30)
    <3>4. Range(lh') = {lh'[i] : i \in 1 .. Len(lh')} /\ Range(lh) = {lh[i] : i \in 1 .. Len(lh)}
      BY <3>2 DEF Range
    <3>5. Range(lh') \subseteq Range(lh) \cup {buf[p]}
      BY <3>1, <3>3, <3>4
    <3>6. Range(lh) \cup {buf[p]} \subseteq Range(lh')
      BY <3>1, <3>3, <3>4
    <3> QED
      BY <3>1, <3>5, <3>6
  <2> QED
    BY <2>1, <2>2
<1>1. WroteInv'
  <2> SUFFICES ASSUME NEW q \in Proc, InOp(q)
               PROVE  /\ IsFiniteSet(wrote[q]) /\ Cardinality(wrote[q]) <= OpBlocks
                      /\ \A b \in wrote[q] : b \in Range(lh') \/ (pc'[q] = "modified" /\ buf[q] = b)
                      /\ pc'[q] = "modified" => buf[q] \in wrote[q]
    BY <1>c, <1>o DEF WroteInv
  <2>1. /\ IsFiniteSet(wrote[q]) /\ Cardinality(wrote[q]) <= OpBlocks
        /\ \A b \in wrote[q] : b \in Range(lh) \/ (pc[q] = "modified" /\ buf[q] = b)
        /\ pc[q] = "modified" => buf[q] \in wrote[q]
    BY DEF RoomInv, WroteInv
  <2>2. CASE q = p
    BY <1>c, <1>l, <2>1, <2>2
  <2>3. CASE q # p
    BY <1>c, <1>l, <2>1, <2>3
  <2> QED
    BY <2>2, <2>3
<1>2. Registered \in SUBSET Registered' /\ Registered' \in SUBSET (Proc \X Range(lh'))
  <2>1. \A x \in Proc \X Range(lh) : x[1] \in Proc /\ x \in Proc \X Range(lh')
    BY <1>l
  <2> QED
    BY <1>c, <1>o, <2>1 DEF Registered
<1>3. /\ IsFiniteSet(Registered') /\ Cardinality(Registered') \in Nat
      /\ IsFiniteSet(Registered) /\ Cardinality(Registered) \in Nat
      /\ Cardinality(Registered) <= Cardinality(Registered')
  <2>1. IsFiniteSet(Registered') /\ Cardinality(Registered') \in Nat
    BY <1>l, <1>2, RegisteredFinite
  <2>2. IsFiniteSet(Registered) /\ Cardinality(Registered) <= Cardinality(Registered')
    BY <1>2, <2>1, FS_Subset
  <2> QED
    BY <2>1, <2>2, FS_CardinalityType
<1>4. SpaceInv'
  <2> SUFFICES ASSUME outstanding > 0
               PROVE  Len(lh') + outstanding * MAXOPBLOCKS <= LOGSIZE + Cardinality(Registered')
    BY <1>c DEF SpaceInv
  <2>1. Len(lh) + outstanding * MAXOPBLOCKS <= LOGSIZE + Cardinality(Registered)
    BY DEF RoomInv, SpaceInv
  <2>2. Len(lh) \in Nat /\ outstanding * MAXOPBLOCKS \in Nat
    BY <1>t, LogAssumption, SMTT(30)
  <2>3. CASE buf[p] \in Range(lh)
    <3>1. lh' = lh
      BY <2>3 DEF LogWrite
    <3> QED
      BY <1>3, <2>1, <2>2, <3>1, LogAssumption, SMTT(30)
  <2>4. CASE buf[p] \notin Range(lh)
    <3>1. Len(lh') = Len(lh) + 1
      BY <1>t, <2>4, Registers
    <3>2. <<p, buf[p]>> \notin Registered
      BY <2>4 DEF Registered
    <3>3. <<p, buf[p]>> \in Registered'
      <4>1. buf[p] \in wrote[p] /\ InOp(p)
        BY <1>c DEF RoomInv, WroteInv, InOp
      <4>2. <<p, buf[p]>> \in Proc \X Range(lh')
        BY <1>l
      <4>3. <<p, buf[p]>>[1] = p /\ <<p, buf[p]>>[2] = buf[p]
        OBVIOUS
      <4> QED
        BY <1>c, <1>o, <4>1, <4>2, <4>3 DEF Registered
    <3>4. Cardinality(Registered) # Cardinality(Registered')
      BY <1>2, <1>3, <3>2, <3>3, FS_Subset
    <3> QED
      BY <1>3, <2>1, <2>2, <3>1, <3>4, LogAssumption, SMTT(30)
  <2> QED
    BY <2>3, <2>4
<1> QED
  BY <1>1, <1>4 DEF RoomInv

(* end_op() gives back what the call has reserved and not registered. *)
LEMMA RoomEnd ==
  ASSUME IInv, RoomInv, NEW p \in Proc, EndOp(p), outstanding # 1
  PROVE  RoomInv'
<1>t. lh \in Seq(Block) /\ outstanding \in Nat /\ OutstandingExact
  BY DEF IInv, TypeOK, ControlInv
<1>c. /\ lh' = lh /\ wrote' = wrote /\ buf' = buf /\ outstanding' = outstanding - 1
      /\ pc[p] = "op" /\ pc'[p] = "idle"
      /\ \A q \in Proc \ {p} : pc'[q] = pc[q] \/ (pc[q] = "sleep" /\ pc'[q] = "begin")
  BY DEF IInv, TypeOK, EndOp, Woken
<1>o. /\ InOp(p) /\ ~ InOp(p)'
      /\ \A q \in Proc \ {p} : InOp(q)' <=> InOp(q)
  BY <1>c DEF InOp
<1>w. /\ IsFiniteSet(wrote[p]) /\ Cardinality(wrote[p]) <= OpBlocks /\ Cardinality(wrote[p]) \in Nat
  BY <1>o, FS_CardinalityType DEF RoomInv, WroteInv
<1>1. WroteInv'
  <2> SUFFICES ASSUME NEW q \in Proc, InOp(q)'
               PROVE  /\ IsFiniteSet(wrote[q]) /\ Cardinality(wrote[q]) <= OpBlocks
                      /\ \A b \in wrote[q] : b \in Range(lh) \/ (pc'[q] = "modified" /\ buf[q] = b)
                      /\ pc'[q] = "modified" => buf[q] \in wrote[q]
    BY <1>c DEF WroteInv
  <2>1. q # p /\ InOp(q)
    BY <1>o
  <2>2. pc'[q] = pc[q]
    BY <1>c, <2>1 DEF InOp
  <2> QED
    BY <2>1, <2>2 DEF RoomInv, WroteInv
<1> DEFINE Mine == {p} \X wrote[p]
<1>2. /\ Registered \in SUBSET (Registered' \cup Mine)
      /\ Registered \in SUBSET (Proc \X Range(lh)) /\ Registered' \in SUBSET (Proc \X Range(lh))
  <2>1. ASSUME NEW x \in Registered PROVE x \in Registered' \cup Mine
    <3>1. x \in Proc \X Range(lh) /\ x[1] \in Proc /\ InOp(x[1]) /\ x[2] \in wrote[x[1]]
      BY <2>1 DEF Registered
    <3>2. CASE x[1] = p
      <4>1. x = <<x[1], x[2]>>
        BY <3>1, SMTT(30)
      <4> QED
        BY <3>1, <3>2, <4>1
    <3>3. CASE x[1] # p
      <4>1. InOp(x[1])'
        BY <1>o, <3>1, <3>3
      <4> QED
        BY <1>c, <3>1, <4>1 DEF Registered
    <3> QED
      BY <3>2, <3>3
  <2> QED
    BY <1>c, <2>1 DEF Registered
<1>3. IsFiniteSet(Mine) /\ Cardinality(Mine) = Cardinality(wrote[p])
  <2>1. IsFiniteSet({p}) /\ Cardinality({p}) = 1
    BY FS_Singleton
  <2>2. IsFiniteSet(Mine) /\ Cardinality(Mine) = 1 * Cardinality(wrote[p])
    BY <1>w, <2>1, FS_Product
  <2> QED
    BY <1>w, <2>2, SMTT(30)
<1> HIDE DEF Mine
<1>4. /\ IsFiniteSet(Registered) /\ Cardinality(Registered) \in Nat
      /\ IsFiniteSet(Registered') /\ Cardinality(Registered') \in Nat
  BY <1>t, <1>2, RegisteredFinite
<1>5. Cardinality(Registered) <= Cardinality(Registered') + Cardinality(wrote[p])
  <2>1. /\ IsFiniteSet(Registered' \cup Mine)
        /\ Cardinality(Registered' \cup Mine)
             = Cardinality(Registered') + Cardinality(Mine) - Cardinality(Registered' \cap Mine)
    BY <1>3, <1>4, FS_Union
  <2>2. IsFiniteSet(Registered' \cap Mine)
    BY <1>3, FS_Intersection
  <2>3. Cardinality(Registered' \cap Mine) \in Nat
    BY <2>2, FS_CardinalityType
  <2>4. Cardinality(Registered) <= Cardinality(Registered' \cup Mine)
    BY <1>2, <2>1, FS_Subset
  <2> QED
    BY <1>3, <1>4, <1>w, <2>1, <2>3, <2>4, SMTT(30)
<1>6. SpaceInv'
  <2> SUFFICES ASSUME outstanding - 1 > 0
               PROVE  Len(lh) + (outstanding - 1) * MAXOPBLOCKS <= LOGSIZE + Cardinality(Registered')
    BY <1>c DEF SpaceInv
  <2>1. outstanding > 0
    BY <1>t, SMTT(30)
  <2>2. Len(lh) + outstanding * MAXOPBLOCKS <= LOGSIZE + Cardinality(Registered)
    BY <2>1 DEF RoomInv, SpaceInv
  <2>3. (outstanding - 1) * MAXOPBLOCKS = outstanding * MAXOPBLOCKS - MAXOPBLOCKS
    BY <1>t, LogAssumption, SMTT(30)
  <2>4. Len(lh) \in Nat /\ outstanding * MAXOPBLOCKS \in Nat
    BY <1>t, LogAssumption, SMTT(30)
  <2>5. ASSUME NEW m \in Nat, m = outstanding * MAXOPBLOCKS
        PROVE  Len(lh) + (m - MAXOPBLOCKS) <= LOGSIZE + Cardinality(Registered')
    BY <1>4, <1>5, <1>w, <2>2, <2>4, <2>5, LogAssumption, SMTT(30)
  <2> QED
    BY <2>3, <2>4, <2>5
<1> QED
  BY <1>1, <1>6 DEF RoomInv

(* Every step of calls, commit, eviction, crash and recovery keeps the room  *)
(* that the calls have reserved.                                             *)
LEMMA RoomStep == IInv /\ RoomInv /\ [Next]_vars => RoomInv'
<1> SUFFICES ASSUME IInv, RoomInv, [Next]_vars PROVE RoomInv'
  OBVIOUS
<1>x. OutstandingExact'
  BY NextInv DEF IInv, ControlInv
<1>t. pc \in [Proc -> {"idle", "reading", "begin", "sleep", "op", "held", "modified",
                       "write_log", "write_head", "install", "clear", "committed"}]
  BY DEF IInv, TypeOK
<1>b. buf \in [Proc -> Block \cup {NoBuf}]
  BY DEF IInv, TypeOK
<1>1. CASE UNCHANGED <<lh, wrote, outstanding, pc, buf>>
  BY <1>1, RoomSame DEF InOp
<1>2. ASSUME NEW p \in Proc, BeginOp(p) \/ BeginSleep(p) PROVE RoomInv'
  <2>1. /\ UNCHANGED <<lh, wrote, outstanding, buf>>
        /\ pc[p] \in {"idle", "begin"} /\ pc'[p] \in {"begin", "sleep"}
        /\ \A q \in Proc \ {p} : pc'[q] = pc[q]
    BY <1>2, <1>t DEF BeginOp, BeginSleep, Goto
  <2>2. \A q \in Proc : (InOp(q)' <=> InOp(q)) /\ (pc'[q] = "modified" <=> pc[q] = "modified")
    BY <2>1 DEF InOp
  <2> QED
    BY <2>1, <2>2, RoomSame
<1>3. ASSUME NEW p \in Proc, Brelse(p) \/ \E b \in Block : Bread(p, b) PROVE RoomInv'
  <2>1. /\ UNCHANGED <<lh, wrote, outstanding>>
        /\ \/ pc[p] \in {"op", "held"} /\ pc'[p] \in {"op", "held"}
           \/ pc[p] \in {"idle", "reading"} /\ pc'[p] \in {"idle", "reading"}
        /\ \A q \in Proc \ {p} : pc'[q] = pc[q] /\ buf'[q] = buf[q]
    BY <1>3, <1>t, <1>b DEF Bread, Brelse, Goto
  <2>2. \A q \in Proc : (InOp(q)' <=> InOp(q)) /\ (pc'[q] = "modified" <=> pc[q] = "modified")
    BY <2>1 DEF InOp
  <2>3. \A q \in Proc : pc[q] = "modified" => buf'[q] = buf[q]
    BY <2>1
  <2> QED
    BY <2>1, <2>2, <2>3, RoomSame
<1>4. ASSUME NEW p \in Proc, EndOp(p) PROVE RoomInv'
  <2>1. CASE outstanding = 1
    <3>1. outstanding' = 1 - 1
      BY <1>4, <2>1 DEF EndOp
    <3>2. outstanding' = 0
      BY <3>1, SMTT(30)
    <3> QED
      BY <1>x, <3>2, RoomQuiet
  <2>2. CASE outstanding # 1
    BY <1>4, <2>2, RoomEnd
  <2> QED
    BY <2>1, <2>2
<1>5. ASSUME NEW p \in Proc, CommitStep(p) PROVE RoomInv'
  <2>1. Commits(p)
    BY <1>5 DEF CommitStep, Commits, WriteLog, WriteLogDone, WriteHead, Install, InstallDone, Clear, EndCommit
  <2>2. outstanding = 0
    BY <2>1 DEF IInv, ControlInv, OutstandingExact
  <2>3. outstanding' = outstanding
    BY <1>5 DEF CommitStep, WriteLog, WriteLogDone, WriteHead, Install, InstallDone, Clear, EndCommit
  <2> QED
    BY <1>x, <2>2, <2>3, RoomQuiet
<1>6. CASE Recover
  <2>1. boot # "up" /\ outstanding' = outstanding
    BY <1>6 DEF Recover, ReadHead, RecoverInstall, RecoverInstallDone, RecoverClear
  <2>2. outstanding = 0
    BY <2>1 DEF IInv, ControlInv
  <2> QED
    BY <1>x, <2>1, <2>2, RoomQuiet
<1>7. CASE Fail
  <2>1. outstanding' = 0
    BY <1>7 DEF Fail, Crash, CrashTornLog, CrashTornHome, PowerOff
  <2> QED
    BY <1>x, <2>1, RoomQuiet
<1>8. ASSUME NEW b \in Block, Evict(b) PROVE RoomInv'
  BY <1>1, <1>8 DEF Evict
<1>9. CASE UNCHANGED vars
  BY <1>1, <1>9 DEF vars
<1>10. ASSUME NEW p \in Proc, CallStep(p) PROVE RoomInv'
  BY <1>2, <1>3, <1>4, <1>10, RoomEnter, RoomModify, RoomLogWrite DEF CallStep
<1> QED
  BY <1>5, <1>6, <1>7, <1>8, <1>9, <1>10 DEF Next, Running

(* The calls under way have registered OpBlocks blocks each at most. *)
LEMMA RegisteredBound ==
  ASSUME IInv, RoomInv
  PROVE  Cardinality(Registered) <= outstanding * OpBlocks
<1>t. lh \in Seq(Block) /\ outstanding \in Nat /\ outstanding = Cardinality(Callers)
  BY DEF IInv, TypeOK, ControlInv, OutstandingExact
<1> DEFINE Places == 1 .. OpBlocks
           Numbering(p, f) == f \in [wrote[p] -> Places] /\ \A b, c \in wrote[p] : f[b] = f[c] => b = c
           num == [p \in Proc |-> CHOOSE f : Numbering(p, f)]
           g == [x \in Registered |-> <<x[1], num[x[1]][x[2]]>>]
<1>1. ASSUME NEW p \in Proc, InOp(p) PROVE \E f : Numbering(p, f)
  <2>1. IsFiniteSet(wrote[p]) /\ Cardinality(wrote[p]) <= OpBlocks
    BY <1>1 DEF RoomInv, WroteInv
  <2>2. Cardinality(wrote[p]) \in Nat /\ ExistsBijection(1 .. Cardinality(wrote[p]), wrote[p])
    BY <2>1, FS_CardinalityType
  <2>3. ExistsBijection(wrote[p], 1 .. Cardinality(wrote[p]))
    BY <2>2, Fun_ExistsBijSymmetric
  <2>4. PICK f : f \in Bijection(wrote[p], 1 .. Cardinality(wrote[p]))
    BY <2>3 DEF ExistsBijection
  <2>5. /\ f \in [wrote[p] -> 1 .. Cardinality(wrote[p])]
        /\ \A b, c \in wrote[p] : f[b] = f[c] => b = c
    BY <2>4 DEF Bijection, Injection, IsInjective
  <2>6. 1 .. Cardinality(wrote[p]) \subseteq 1 .. OpBlocks
    BY <2>1, <2>2, LogAssumption, SMTT(30)
  <2>7. f \in [wrote[p] -> Places]
    BY <2>5, <2>6
  <2> QED
    BY <2>5, <2>7
<1>2. ASSUME NEW p \in Proc, InOp(p) PROVE Numbering(p, num[p])
  <2> HIDE DEF Numbering
  <2>1. num[p] = CHOOSE f : Numbering(p, f)
    OBVIOUS
  <2> QED
    BY <1>1, <1>2, <2>1
<1>3. \A x \in Registered : /\ x[1] \in Proc /\ InOp(x[1]) /\ x[2] \in wrote[x[1]]
                            /\ x = <<x[1], x[2]>>
  <2>1. \A x \in Proc \X Range(lh) : x[1] \in Proc /\ x = <<x[1], x[2]>>
    BY SMTT(30)
  <2> QED
    BY <2>1 DEF Registered
<1>n. \A x \in Registered : num[x[1]][x[2]] \in Places
  BY <1>2, <1>3
<1>m. \A x, y \in Registered : x[1] = y[1] /\ num[x[1]][x[2]] = num[y[1]][y[2]] => x[2] = y[2]
  <2> SUFFICES ASSUME NEW x \in Registered, NEW y \in Registered, x[1] = y[1],
                      num[x[1]][x[2]] = num[y[1]][y[2]]
               PROVE  x[2] = y[2]
    OBVIOUS
  <2>1. x[2] \in wrote[x[1]] /\ y[2] \in wrote[x[1]] /\ x[1] \in Proc /\ InOp(x[1])
    BY <1>3
  <2>2. num[x[1]][x[2]] = num[x[1]][y[2]]
    OBVIOUS
  <2>3. \A b, c \in wrote[x[1]] : num[x[1]][b] = num[x[1]][c] => b = c
    BY <1>2, <2>1
  <2> QED
    BY <2>1, <2>2, <2>3
<1>g. g = [x \in Registered |-> <<x[1], num[x[1]][x[2]]>>]
  OBVIOUS
<1> HIDE DEF num, g, Numbering, Places
<1>4. g \in Injection(Registered, Callers \X Places)
  <2>1. \A x \in Registered : g[x] = <<x[1], num[x[1]][x[2]]>>
    BY <1>g
  <2>2. \A x \in Registered : <<x[1], num[x[1]][x[2]]>> \in Callers \X Places
    BY <1>3, <1>n DEF Callers
  <2>3. ASSUME NEW x \in Registered, NEW y \in Registered, g[x] = g[y] PROVE x = y
    <3>1. <<x[1], num[x[1]][x[2]]>> = <<y[1], num[y[1]][y[2]]>>
      BY <2>1, <2>3
    <3>2. x[1] = y[1] /\ num[x[1]][x[2]] = num[y[1]][y[2]]
      BY <3>1, SMTT(30)
    <3>3. x[2] = y[2]
      BY <1>m, <3>2
    <3> QED
      BY <1>3, <3>2, <3>3
  <2>4. g \in [Registered -> Callers \X Places] /\ DOMAIN g = Registered
    BY <1>g, <2>2
  <2> QED
    BY <2>3, <2>4 DEF Injection, IsInjective
<1>5. IsFiniteSet(Callers)
  BY LogAssumption, FS_Subset DEF Callers
<1>6. IsFiniteSet(Places) /\ Cardinality(Places) = OpBlocks
  BY LogAssumption, FS_Interval, SMTT(30) DEF Places
<1>7. /\ IsFiniteSet(Callers \X Places)
      /\ Cardinality(Callers \X Places) = Cardinality(Callers) * Cardinality(Places)
  BY <1>5, <1>6, FS_Product
<1>8. Cardinality(Registered) <= Cardinality(Callers \X Places)
  BY <1>4, <1>7, FS_Injection
<1> QED
  BY <1>t, <1>6, <1>7, <1>8

(* log_write() never panics with "too big a transaction", however calls      *)
(* overlap, if what a call leaves of its MAXOPBLOCKS blocks is more than the *)
(* log area falls short of LOGSIZE; and neither it nor end_op() panics for   *)
(* being outside a call or in a commit.                                      *)
THEOREM LogNoPanic ==
  ASSUME LOGSIZE < NLOG - 1 + (MAXOPBLOCKS - OpBlocks)
  PROVE  Spec => []NoPanic
<1>1. Init => RoomInv
  <2> SUFFICES ASSUME Init PROVE RoomInv
    OBVIOUS
  <2>1. ~ (outstanding > 0)
    BY SMTT(30) DEF Init
  <2>2. WroteInv
    BY DEF Init, WroteInv, InOp
  <2> QED
    BY <2>1, <2>2 DEF RoomInv, SpaceInv
<1>2. ASSUME IInv, RoomInv PROVE NoPanic
  <2>x. OutstandingExact /\ (committing => outstanding = 0)
    BY <1>2 DEF IInv, ControlInv
  <2>1. ASSUME NEW p \in Proc, pc[p] = "op" PROVE ~ committing
    <3>1. outstanding >= 1
      BY <2>1, <2>x, CallerCounts DEF InOp
    <3>2. outstanding # 0
      BY <3>1, SMTT(30)
    <3> QED
      BY <2>x, <3>2
  <2>2. ASSUME NEW p \in Proc, pc[p] = "modified" PROVE ~ TooBig /\ ~ OutsideTrans
    <3>t. outstanding \in Nat /\ Len(lh) \in Nat /\ Cardinality(Registered) \in Nat
      <4>1. outstanding \in Nat /\ lh \in Seq(Block)
        BY <1>2 DEF IInv, TypeOK
      <4>2. Registered \in SUBSET (Proc \X Range(lh))
        BY DEF Registered
      <4>3. Len(lh) \in Nat
        BY <4>1, SMTT(30)
      <4> QED
        BY <4>1, <4>2, <4>3, RegisteredFinite
    <3>1. outstanding >= 1
      BY <2>2, <2>x, CallerCounts DEF InOp
    <3>2. outstanding > 0 /\ ~ OutsideTrans
      BY <3>t, <3>1, SMTT(30) DEF OutsideTrans
    <3>3. Len(lh) + outstanding * MAXOPBLOCKS <= LOGSIZE + Cardinality(Registered)
      BY <1>2, <3>2 DEF RoomInv, SpaceInv
    <3>4. Cardinality(Registered) <= outstanding * OpBlocks
      BY <1>2, RegisteredBound
    <3>5. outstanding * MAXOPBLOCKS >= outstanding * OpBlocks + (MAXOPBLOCKS - OpBlocks)
      <4>1. outstanding * MAXOPBLOCKS = outstanding * OpBlocks + outstanding * (MAXOPBLOCKS - OpBlocks)
        BY <3>t, LogAssumption, SMTT(30)
      <4>2. outstanding * (MAXOPBLOCKS - OpBlocks) >= MAXOPBLOCKS - OpBlocks
        BY <3>t, <3>1, LogAssumption, SMTT(30)
      <4> QED
        BY <3>t, <4>1, <4>2, LogAssumption, SMTT(30)
    <3>6. outstanding * MAXOPBLOCKS \in Nat /\ outstanding * OpBlocks \in Nat
      BY <3>t, LogAssumption, SMTT(30)
    <3>7. ASSUME NEW m \in Nat, NEW k \in Nat, NEW r \in Nat,
                 Len(lh) + m <= LOGSIZE + r, r <= k, m >= k + (MAXOPBLOCKS - OpBlocks)
          PROVE  ~ TooBig
      BY <3>t, <3>7, LogAssumption, SMTT(30) DEF TooBig
    <3>8. ~ TooBig
      BY <3>t, <3>3, <3>4, <3>5, <3>6, <3>7
    <3> QED
      BY <3>2, <3>8
  <2> QED
    BY <2>1, <2>2 DEF NoPanic
<1>3. Spec => []RoomInv
  <2>1. Spec => []IInv
    BY LogInvariant
  <2> QED
    BY <1>1, <2>1, RoomStep, PTL DEF Spec
<1> QED
  BY <1>2, <1>3, LogInvariant, PTL

-----------------------------------------------------------------------------
(* What recovery makes of a disk, block by block. *)
LEMMA RecoveredBlock ==
  ASSUME NEW home, NEW log, NEW head \in Seq(Block),
         \A i, j \in 1 .. Len(head) : head[i] = head[j] => i = j
  PROVE  /\ RecoveredFrom(home, log, head) = [b \in Block |-> RecoveredFrom(home, log, head)[b]]
         /\ \A i \in 1 .. Len(head) : RecoveredFrom(home, log, head)[head[i]] = log[i]
         /\ \A b \in Block : (\A i \in 1 .. Len(head) : head[i] # b) =>
                               RecoveredFrom(home, log, head)[b] = home[b]
<1>1. ASSUME NEW i \in 1 .. Len(head) PROVE RecoveredFrom(home, log, head)[head[i]] = log[i]
  <2>1. head[i] \in Block /\ head[i] \in Range(head)
    BY SMTT(30) DEF Range
  <2>2. (CHOOSE k \in 1 .. Len(head) : head[k] = head[i]) = i
    OBVIOUS
  <2> QED
    BY <2>1, <2>2 DEF RecoveredFrom
<1>2. ASSUME NEW b \in Block, \A i \in 1 .. Len(head) : head[i] # b
      PROVE  RecoveredFrom(home, log, head)[b] = home[b]
  BY <1>2, SMTT(30) DEF RecoveredFrom, Range
<1>3. RecoveredFrom(home, log, head) = [b \in Block |-> RecoveredFrom(home, log, head)[b]]
  BY SMTT(30) DEF RecoveredFrom
<1> QED
  BY <1>1, <1>2, <1>3

(* Two disks whose blocks recover to the same contents recover to the same   *)
(* disk.                                                                     *)
LEMMA RecoveredEqual ==
  ASSUME NEW d1, NEW l1, NEW h1, NEW d2, NEW l2, NEW h2,
         \A b \in Block : RecoveredFrom(d1, l1, h1)[b] = RecoveredFrom(d2, l2, h2)[b]
  PROVE  RecoveredFrom(d1, l1, h1) = RecoveredFrom(d2, l2, h2)
<1> DEFINE f == RecoveredFrom(d1, l1, h1)
           g == RecoveredFrom(d2, l2, h2)
<1>1. f = [b \in Block |-> f[b]] /\ g = [b \in Block |-> g[b]]
  BY DEF RecoveredFrom
<1>2. \A b \in Block : f[b] = g[b]
  OBVIOUS
<1> HIDE DEF f, g
<1>3. f = g
  BY <1>1, <1>2
<1> QED
  BY <1>3 DEF f, g

(* With an empty header recovery yields the home blocks as they are. *)
LEMMA RecoveredEmpty ==
  ASSUME NEW home, NEW log
  PROVE  RecoveredFrom(home, log, <<>>) = [b \in Block |-> home[b]]
BY SMTT(30) DEF RecoveredFrom, Range

(* Home blocks the header names may change, as install_trans() makes them,   *)
(* without any effect on what recovery yields.                               *)
LEMMA RecoveredNamed ==
  ASSUME NEW home, NEW log, NEW head \in Seq(Block), NEW home2,
         \A i, j \in 1 .. Len(head) : head[i] = head[j] => i = j,
         \A b \in Block : (\A i \in 1 .. Len(head) : head[i] # b) => home2[b] = home[b]
  PROVE  RecoveredFrom(home2, log, head) = RecoveredFrom(home, log, head)
<1>1. ASSUME NEW b \in Block
      PROVE  RecoveredFrom(home2, log, head)[b] = RecoveredFrom(home, log, head)[b]
  <2>1. CASE \E i \in 1 .. Len(head) : head[i] = b
    BY <2>1, RecoveredBlock, SMTT(30)
  <2>2. CASE \A i \in 1 .. Len(head) : head[i] # b
    BY <2>2, RecoveredBlock, SMTT(30)
  <2> QED
    BY <2>1, <2>2
<1> QED
  BY <1>1, RecoveredEqual, SMTT(30)

(* Once every block the header names is installed, recovery yields the home  *)
(* blocks, so the header can be erased.                                      *)
LEMMA RecoveredInstalled ==
  ASSUME NEW home, NEW log, NEW head \in Seq(Block),
         \A i, j \in 1 .. Len(head) : head[i] = head[j] => i = j,
         \A i \in 1 .. Len(head) : home[head[i]] = log[i]
  PROVE  RecoveredFrom(home, log, head) = [b \in Block |-> home[b]]
<1>1. ASSUME NEW b \in Block
      PROVE  RecoveredFrom(home, log, head)[b] = home[b]
  <2>1. CASE \E i \in 1 .. Len(head) : head[i] = b
    BY <2>1, RecoveredBlock, SMTT(30)
  <2>2. CASE \A i \in 1 .. Len(head) : head[i] # b
    BY <2>2, RecoveredBlock, SMTT(30)
  <2> QED
    BY <2>1, <2>2
<1> DEFINE f == RecoveredFrom(home, log, head)
<1>2. f = [b \in Block |-> f[b]]
  BY RecoveredBlock
<1> HIDE DEF f
<1>3. \A b \in Block : f[b] = home[b]
  BY <1>1 DEF f
<1>4. f = [b \in Block |-> home[b]]
  BY <1>2, <1>3
<1> QED
  BY <1>4 DEF f

-----------------------------------------------------------------------------
(* A step that takes calls and the contents of the blocks nowhere. *)
LEMMA Stutters ==
  ASSUME Recovered' = Recovered, View' = View, \A q \in Proc : InOp(q)' <=> InOp(q)
  PROVE  UNCHANGED <<Recovered, View, Callers>>
BY DEF Callers

(* Nothing on disk changes. *)
LEMMA RecoveredSame ==
  ASSUME UNCHANGED <<disk, dlog, dhead>>
  PROVE  Recovered' = Recovered
BY DEF Recovered

(* No block changes for whoever reads it through the cache. *)
LEMMA ViewSame ==
  ASSUME boot = "up", boot' = "up", \A b \in Block : Contents(b)' = Contents(b)
  PROVE  View' = View
BY DEF View

(* Operations on the counters and on processes only. *)
LEMMA ContentsSame ==
  ASSUME UNCHANGED <<disk, cache>>
  PROVE  \A b \in Block : Contents(b)' = Contents(b)
BY DEF Contents

(* begin_op() and end_op() are the abstract Begin and End; modifying a       *)
(* buffer is the abstract Write.                                             *)
LEMMA CallRefines ==
  ASSUME IInv, NEW p \in Proc, CallStep(p)
  PROVE  [Atomic!ANext]_<<Recovered, View, Callers>>
<1> USE DEF IInv
<1>1. CASE BeginOp(p) \/ BeginSleep(p) \/ Brelse(p) \/ LogWrite(p)
  <2>1. UNCHANGED <<disk, dlog, dhead, cache, boot>> /\ boot = "up"
    BY <1>1, UpWhenBusy DEF BeginOp, BeginSleep, Brelse, LogWrite
  <2>2. \A q \in Proc : InOp(q)' <=> InOp(q)
    BY <1>1 DEF BeginOp, BeginSleep, Brelse, LogWrite, Goto, InOp, TypeOK
  <2> QED
    BY <2>1, <2>2, Stutters, RecoveredSame, ViewSame, ContentsSame
<1>2. CASE BeginEnter(p)
  <2>1. UNCHANGED <<disk, dlog, dhead, cache, boot>> /\ boot = "up"
    BY <1>2, UpWhenBusy DEF BeginEnter
  <2>2. Recovered' = Recovered /\ View' = View
    BY <2>1, RecoveredSame, ViewSame, ContentsSame
  <2>3. Callers' = Callers \cup {p} /\ p \notin Callers
    BY <1>2 DEF BeginEnter, Goto, Callers, InOp, TypeOK
  <2> QED
    BY <2>2, <2>3 DEF Atomic!ANext, Atomic!Begin, Callers
<1>3. CASE EndOp(p)
  <2>1. UNCHANGED <<disk, dlog, dhead, cache, boot>> /\ boot = "up"
    BY <1>3, UpWhenBusy DEF EndOp
  <2>2. Recovered' = Recovered /\ View' = View
    BY <2>1, RecoveredSame, ViewSame, ContentsSame
  <2>3. Callers' = Callers \ {p} /\ p \in Callers
    BY <1>3 DEF EndOp, Goto, Woken, Callers, InOp, TypeOK
  <2> QED
    BY <2>2, <2>3 DEF Atomic!ANext, Atomic!End, Callers
<1>4. ASSUME NEW b \in Block, Bread(p, b)
      PROVE  [Atomic!ANext]_<<Recovered, View, Callers>>
  <2>1. UNCHANGED <<disk, dlog, dhead, boot>> /\ boot = "up"
        /\ cache' = [cache EXCEPT ![b] = Contents(b)]
    BY <1>4 DEF Bread
  <2>2. \A c \in Block : cache'[c] = IF c = b THEN Contents(b) ELSE cache[c]
    BY <2>1 DEF TypeOK
  <2>3. Contents(b) # Absent
    BY ContentsType
  <2>4. \A c \in Block : Contents(c)' = Contents(c)
    BY <2>1, <2>2, <2>3 DEF Contents
  <2>5. \A q \in Proc : InOp(q)' <=> InOp(q)
    BY <1>4 DEF Bread, Goto, InOp, TypeOK
  <2> QED
    BY <2>1, <2>4, <2>5, Stutters, RecoveredSame, ViewSame
<1>5. ASSUME NEW v \in Val, Modify(p, v)
      PROVE  [Atomic!ANext]_<<Recovered, View, Callers>>
  <2>1. UNCHANGED <<disk, dlog, dhead, boot>> /\ boot = "up" /\ InOp(p)
        /\ cache' = [cache EXCEPT ![buf[p]] = v]
    BY <1>5, UpWhenBusy DEF Modify, InOp
  <2>2. buf[p] \in Block
    BY <1>5, HeldBlock DEF Modify
  <2>3. v # Absent
    BY LogAssumption
  <2>4. \A c \in Block : Contents(c)' = IF c = buf[p] THEN v ELSE Contents(c)
    BY <2>1, <2>2, <2>3 DEF Contents, TypeOK
  <2>5. View' = [View EXCEPT ![buf[p]] = v]
    BY <2>1, <2>2, <2>4 DEF View
  <2>6. \A q \in Proc : InOp(q)' <=> InOp(q)
    BY <1>5 DEF Modify, Goto, InOp, TypeOK
  <2>7. Recovered' = Recovered
    BY <2>1, RecoveredSame
  <2>8. Atomic!Write(p, buf[p], v)
    BY <2>1, <2>5, <2>6, <2>7 DEF Atomic!Write, Callers
  <2> QED
    BY <2>2, <2>8 DEF Atomic!ANext
<1> QED
  BY <1>1, <1>2, <1>3, <1>4, <1>5 DEF CallStep

(* Writing the header is the abstract Commit; the other steps of commit()    *)
(* are invisible.                                                            *)
LEMMA CommitRefines ==
  ASSUME IInv, NEW p \in Proc, CommitStep(p)
  PROVE  [Atomic!ANext]_<<Recovered, View, Callers>>
<1> USE DEF IInv
<1>1. Commits(p)
  BY DEF CommitStep, WriteLog, WriteLogDone, WriteHead, Install, InstallDone, Clear, EndCommit,
         Commits
<1>2. /\ boot = "up"
      /\ \A q \in Proc : Commits(q) => q = p
      /\ \A q \in Proc : ~ InOp(q)
  BY <1>1, OneCommitter
<1>3. boot' = "up"
  BY <1>2 DEF CommitStep, WriteLog, WriteLogDone, WriteHead, Install, InstallDone, Clear,
              EndCommit
<1>4. \A q \in Proc : InOp(q)' <=> InOp(q)
  BY DEF CommitStep, WriteLog, WriteLogDone, WriteHead, Install, InstallDone, Clear, EndCommit,
         Goto, Woken, InOp, TypeOK
<1>5. \A b \in Block : ~ BeingModified(b)
  BY <1>2 DEF BeingModified, InOp
<1>6. /\ dhead \in Seq(Block) /\ lh \in Seq(Block)
      /\ \A i, j \in 1 .. Len(dhead) : dhead[i] = dhead[j] => i = j
      /\ \A i, j \in 1 .. Len(lh) : lh[i] = lh[j] => i = j
  BY DEF TypeOK, HeaderInv
<1>7. CASE WriteLogDone(p) \/ InstallDone(p) \/ EndCommit(p)
  <2>1. UNCHANGED <<disk, dlog, dhead, cache>>
    BY <1>7 DEF WriteLogDone, InstallDone, EndCommit
  <2> QED
    BY <1>2, <1>3, <1>4, <2>1, Stutters, RecoveredSame, ViewSame, ContentsSame
<1>8. CASE WriteLog(p)
  <2>1. /\ UNCHANGED <<disk, dhead>> /\ pc[p] = "write_log" /\ tail < Len(lh)
        /\ cache' = [cache EXCEPT ![lh[tail + 1]] = Contents(lh[tail + 1])]
    BY <1>8 DEF WriteLog
  <2>2. dhead = <<>>
    BY <1>2, <2>1 DEF PhaseInv, CommitPhase, Commits
  <2>3. Recovered' = Recovered
    BY <2>1, <2>2, RecoveredEmpty DEF Recovered
  <2>4. lh[tail + 1] \in Block
    BY <2>1, NextSlot
  <2>5. \A c \in Block : cache'[c] = IF c = lh[tail + 1] THEN Contents(c) ELSE cache[c]
    BY <2>1, <2>4 DEF TypeOK
  <2>6. \A c \in Block : Contents(c)' = Contents(c)
    BY <2>1, <2>5, ContentsType DEF Contents
  <2> QED
    BY <1>2, <1>3, <1>4, <2>3, <2>6, Stutters, ViewSame
<1>9. CASE WriteHead(p)
  <2>1. /\ UNCHANGED <<disk, dlog, cache>> /\ dhead' = lh /\ pc[p] = "write_head"
    BY <1>9 DEF WriteHead
  <2>2. ~ Installing
    BY <1>2, <2>1 DEF Installing, Commits
  <2>3. \A i \in 1 .. Len(lh) : dlog[i] = cache[lh[i]] /\ Pending(lh[i])
    BY <2>1, <2>2 DEF PhaseInv, CommitPhase, Pending
  <2>4. \A i \in 1 .. Len(lh) : lh[i] \in Block /\ dlog[i] = Contents(lh[i])
    BY <1>2, <1>6, <2>3, SMTT(30) DEF CacheInv, Contents
  <2>5. \A b \in Block : (\A i \in 1 .. Len(lh) : lh[i] # b) => disk[b] = Contents(b)
    BY <1>2, <1>5 DEF CacheInv, Pending, Contents
  <2> DEFINE f == RecoveredFrom(disk, dlog, lh)
  <2>6. f = [b \in Block |-> f[b]]
    BY <1>6, RecoveredBlock, SMTT(30)
  <2>7. ASSUME NEW b \in Block PROVE f[b] = Contents(b)
    <3>1. CASE \E i \in 1 .. Len(lh) : lh[i] = b
      BY <1>6, <2>4, <3>1, RecoveredBlock, SMTT(30)
    <3>2. CASE \A i \in 1 .. Len(lh) : lh[i] # b
      BY <1>6, <2>5, <3>2, RecoveredBlock, SMTT(30)
    <3> QED
      BY <3>1, <3>2
  <2>8. Recovered' = f
    BY <2>1 DEF Recovered
  <2> HIDE DEF f
  <2>9. Recovered' = View
    BY <1>2, <2>6, <2>7, <2>8 DEF View
  <2>10. View' = View
    BY <1>2, <1>3, <2>1, ViewSame, ContentsSame
  <2>11. Atomic!Commit
    BY <1>2, <1>4, <2>9, <2>10 DEF Atomic!Commit, Callers
  <2> QED
    BY <2>11 DEF Atomic!ANext
<1>10. CASE Install(p)
  <2> DEFINE h == lh[tail + 1]
  <2>1. /\ UNCHANGED <<dlog, dhead>> /\ pc[p] = "install" /\ tail < Len(lh)
        /\ cache' = [cache EXCEPT ![h] = dlog[tail + 1]]
        /\ disk' = [disk EXCEPT ![h] = dlog[tail + 1]]
    BY <1>10 DEF Install, InstallBlock
  <2>2. tail + 1 \in 1 .. Len(lh) /\ tail + 1 \in Slot /\ h \in Block /\ ~ (tail + 1 <= tail)
    BY <2>1, NextSlot, SMTT(30) DEF TypeOK
  <2>3. dhead = lh /\ cache[h] = dlog[tail + 1]
    BY <2>1, <2>2 DEF PhaseInv, CommitPhase
  <2>4. \A b \in Block \ {h} : cache'[b] = cache[b] /\ disk'[b] = disk[b]
    BY <2>1, <2>2 DEF TypeOK
  <2>5. \A b \in Block : (\A i \in 1 .. Len(dhead) : dhead[i] # b) => disk'[b] = disk[b]
    BY <2>2, <2>3, <2>4
  <2>6. Recovered' = Recovered
    <3>1. RecoveredFrom(disk', dlog, dhead) = RecoveredFrom(disk, dlog, dhead)
      BY <1>6, <2>5, RecoveredNamed
    <3> QED
      BY <2>1, <3>1 DEF Recovered
  <2>7. cache'[h] = cache[h] /\ cache[h] # Absent
    BY <2>1, <2>2, <2>3, LogAssumption, SMTT(30) DEF TypeOK
  <2>8. \A b \in Block : Contents(b)' = Contents(b)
    BY <2>4, <2>7 DEF Contents
  <2> QED
    BY <1>2, <1>3, <1>4, <2>6, <2>8, Stutters, ViewSame
<1>11. CASE Clear(p)
  <2>1. /\ UNCHANGED <<disk, dlog, cache>> /\ dhead' = <<>>
        /\ \A i \in 1 .. Len(dhead) : disk[dhead[i]] = dlog[i]
    BY <1>11 DEF Clear, PhaseInv, CommitPhase, AllInstalled
  <2>2. Recovered' = Recovered
    <3>1. RecoveredFrom(disk, dlog, dhead) = [b \in Block |-> disk[b]]
      BY <1>6, <2>1, RecoveredInstalled, SMTT(30)
    <3>2. RecoveredFrom(disk, dlog, <<>>) = [b \in Block |-> disk[b]]
      BY RecoveredEmpty
    <3> QED
      BY <2>1, <3>1, <3>2 DEF Recovered
  <2> QED
    BY <1>2, <1>3, <1>4, <2>1, <2>2, Stutters, ViewSame, ContentsSame
<1> QED
  BY <1>7, <1>8, <1>9, <1>10, <1>11 DEF CommitStep

(* Recycling a buffer and recovering are invisible. *)
LEMMA QuietRefines ==
  ASSUME IInv, Recover \/ \E b \in Block : Evict(b)
  PROVE  [Atomic!ANext]_<<Recovered, View, Callers>>
<1> USE DEF IInv
<1>1. \A q \in Proc : InOp(q)' <=> InOp(q)
  BY DEF Recover, ReadHead, RecoverInstall, RecoverInstallDone, RecoverClear, Evict, InOp
<1>2. /\ dhead \in Seq(Block)
      /\ \A i, j \in 1 .. Len(dhead) : dhead[i] = dhead[j] => i = j
  BY DEF TypeOK, HeaderInv
<1>3. ASSUME NEW b \in Block, Evict(b)
      PROVE  [Atomic!ANext]_<<Recovered, View, Callers>>
  <2>1. /\ UNCHANGED <<disk, dlog, dhead, boot>> /\ pins[b] = 0 /\ Unlocked(b)
        /\ cache[b] # Absent
        /\ \A c \in Block : cache'[c] = IF c = b THEN Absent ELSE cache[c]
    BY <1>3 DEF Evict, TypeOK
  <2>2. Recovered' = Recovered
    BY <2>1, RecoveredSame
  <2>3. CASE boot = "up"
    <3>1. ~ Pending(b) /\ ~ BeingModified(b)
      BY <2>1, <2>3, SMTT(20) DEF CacheInv, Unlocked, BeingModified
    <3>2. cache[b] = disk[b]
      BY <2>1, <2>3, <3>1 DEF CacheInv
    <3>3. \A c \in Block : Contents(c)' = Contents(c)
      BY <2>1, <3>2 DEF Contents
    <3> QED
      BY <1>1, <2>1, <2>2, <2>3, <3>3, Stutters, ViewSame
  <2>4. CASE boot # "up"
    <3>1. View' = View
      BY <2>1, <2>2, <2>4 DEF View
    <3> QED
      BY <1>1, <2>2, <3>1, Stutters
  <2> QED
    BY <2>3, <2>4
<1>4. CASE ReadHead \/ RecoverInstallDone
  <2>1. UNCHANGED <<disk, dlog, dhead>> /\ boot # "up" /\ boot' # "up"
    BY <1>4 DEF ReadHead, RecoverInstallDone
  <2>2. Recovered' = Recovered
    BY <2>1, RecoveredSame
  <2> QED
    BY <1>1, <2>1, <2>2, Stutters DEF View
<1>5. CASE RecoverInstall
  <2>1. /\ UNCHANGED <<dlog, dhead, boot>> /\ boot = "install" /\ tail < Len(lh)
        /\ disk' = [disk EXCEPT ![lh[tail + 1]] = dlog[tail + 1]]
    BY <1>5 DEF RecoverInstall, InstallBlock
  <2>2. tail + 1 \in 1 .. Len(lh) /\ lh[tail + 1] \in Block /\ dhead = lh
    BY <2>1, NextSlot DEF PhaseInv, BootPhase
  <2>3. \A b \in Block : (\A i \in 1 .. Len(dhead) : dhead[i] # b) => disk'[b] = disk[b]
    BY <2>1, <2>2 DEF TypeOK
  <2>4. Recovered' = Recovered
    <3>1. RecoveredFrom(disk', dlog, dhead) = RecoveredFrom(disk, dlog, dhead)
      BY <1>2, <2>3, RecoveredNamed
    <3> QED
      BY <2>1, <3>1 DEF Recovered
  <2> QED
    BY <1>1, <2>1, <2>4, Stutters DEF View
<1>6. CASE RecoverClear
  <2>1. /\ UNCHANGED <<disk, dlog, cache>> /\ dhead' = <<>> /\ boot = "clear" /\ boot' = "up"
        /\ \A i \in 1 .. Len(dhead) : disk[dhead[i]] = dlog[i]
    BY <1>6 DEF RecoverClear, PhaseInv, BootPhase, AllInstalled
  <2>2. Recovered' = [b \in Block |-> disk[b]] /\ Recovered = [b \in Block |-> disk[b]]
    BY <1>2, <2>1, RecoveredInstalled, RecoveredEmpty, SMTT(30) DEF Recovered
  <2>3. \A b \in Block : Contents(b)' = disk[b]
    BY <2>1 DEF Contents, CacheInv
  <2>4. View' = [b \in Block |-> disk[b]]
    BY <2>1, <2>3 DEF View
  <2>5. View = Recovered
    BY <2>1 DEF View
  <2> QED
    BY <1>1, <2>2, <2>4, <2>5, Stutters
<1> QED
  BY <1>3, <1>4, <1>5, <1>6 DEF Recover

(* Losing power at any moment, in the middle of a disk write too, is the     *)
(* abstract crash: every block falls back to its durable contents.           *)
LEMMA FailRefines ==
  ASSUME IInv, Fail
  PROVE  [Atomic!ANext]_<<Recovered, View, Callers>>
<1> USE DEF IInv
<1>1. boot' = "read_head" /\ \A q \in Proc : ~ InOp(q)'
  BY DEF Fail, Crash, CrashTornLog, CrashTornHome, PowerOff, InOp
<1>2. Recovered' = Recovered
  <2>1. CASE Crash
    BY <2>1, RecoveredSame DEF Crash, diskVars
  <2>2. ASSUME NEW v \in Val, CrashTornLog(v) PROVE Recovered' = Recovered
    <3>1. PICK p \in Proc : pc[p] = "write_log"
      BY <2>2 DEF CrashTornLog
    <3>2. boot = "up" /\ \A q \in Proc : Commits(q) => q = p
      BY <3>1, OneCommitter DEF Commits
    <3>3. dhead = <<>>
      BY <3>1, <3>2 DEF PhaseInv, Commits
    <3> QED
      BY <2>2, <3>3, RecoveredEmpty DEF Recovered, CrashTornLog
  <2>3. ASSUME NEW v \in Val, CrashTornHome(v) PROVE Recovered' = Recovered
    <3>1. UNCHANGED <<dlog, dhead>> /\ tail < Len(lh)
          /\ disk' = [disk EXCEPT ![lh[tail + 1]] = v]
      BY <2>3 DEF CrashTornHome
    <3>2. dhead = lh
      BY <2>3 DEF CrashTornHome, PhaseInv, BootPhase, CommitPhase
    <3>3. tail + 1 \in 1 .. Len(lh) /\ lh[tail + 1] \in Block
      BY <3>1, NextSlot
    <3>4. \A b \in Block : (\A i \in 1 .. Len(dhead) : dhead[i] # b) => disk'[b] = disk[b]
      BY <3>1, <3>2, <3>3 DEF TypeOK
    <3>5. /\ dhead \in Seq(Block)
          /\ \A i, j \in 1 .. Len(dhead) : dhead[i] = dhead[j] => i = j
      BY DEF TypeOK, HeaderInv
    <3>6. RecoveredFrom(disk', dlog, dhead) = RecoveredFrom(disk, dlog, dhead)
      BY <3>4, <3>5, RecoveredNamed
    <3> QED
      BY <3>1, <3>6 DEF Recovered
  <2> QED
    BY <2>1, <2>2, <2>3 DEF Fail
<1>3. View' = Recovered
  BY <1>1, <1>2 DEF View
<1>4. Atomic!CrashRestart
  BY <1>1, <1>2, <1>3 DEF Atomic!CrashRestart, Callers
<1> QED
  BY <1>4 DEF Atomic!ANext

(* A machine that boots a fresh disk starts where the atomic disk does. *)
LEMMA InitRefines == Init => Atomic!AInit
<1> SUFFICES ASSUME Init PROVE Atomic!AInit
  OBVIOUS
<1>1. Recovered = [b \in Block |-> InitVal]
  BY RecoveredEmpty, SMTT(30) DEF Init, Recovered
<1>2. View = Recovered
  BY DEF Init, View
<1>3. Callers = {}
  BY DEF Init, Callers, InOp
<1> QED
  BY <1>1, <1>2, <1>3 DEF Atomic!AInit

(* Every step of the log is a step of the atomic disk or leaves it alone. *)
LEMMA NextRefines ==
  IInv /\ [Next]_vars => [Atomic!ANext]_<<Recovered, View, Callers>>
<1> SUFFICES ASSUME IInv, [Next]_vars
             PROVE  [Atomic!ANext]_<<Recovered, View, Callers>>
  OBVIOUS
<1>1. CASE UNCHANGED vars
  <2>1. Recovered' = Recovered
    BY <1>1, RecoveredSame DEF vars
  <2>2. View' = View
    BY <1>1, <2>1 DEF vars, View, Contents
  <2> QED
    BY <1>1, <2>1, <2>2, Stutters DEF vars, InOp
<1> QED
  BY <1>1, CallRefines, CommitRefines, QuietRefines, FailRefines DEF Next, Running

-----------------------------------------------------------------------------
(* Crash safety for any number of processes, blocks and values and any log   *)
(* size: begin_op(), log_write(), end_op(), commit() and recover_from_log(), *)
(* with crashes anywhere, implement the disk with atomic system calls.       *)
THEOREM LogRefinesAtomicDisk == Spec => RefinesAtomicDisk
<1>1. Spec => []IInv
  BY LogInvariant
<1> QED
  BY <1>1, InitRefines, NextRefines, PTL DEF Spec, RefinesAtomicDisk, Atomic!ASpec

(* log.outstanding is the number of calls under way and a commit excludes    *)
(* calls and other commits.                                                  *)
THEOREM LogOutstandingExact == Spec => []OutstandingExact
<1>1. IInv => OutstandingExact
  BY DEF IInv, ControlInv
<1> QED
  BY <1>1, LogInvariant, PTL

(* Between transactions everything written is on disk. *)
THEOREM LogDurableWhenIdle == Spec => []DurableWhenIdle
<1>1. IInv => DurableWhenIdle
  <2> SUFFICES ASSUME IInv, boot = "up", outstanding = 0, ~ committing
               PROVE  Recovered = View
    BY DEF DurableWhenIdle
  <2> USE DEF IInv
  <2>1. \A p \in Proc : ~ Commits(p) /\ ~ InOp(p)
    BY OneCommitter, NoCaller DEF ControlInv
  <2>2. dhead = <<>> /\ lh = <<>>
    BY <2>1 DEF PhaseInv, Commits
  <2>3. \A b \in Block : ~ Pending(b) /\ ~ BeingModified(b)
    BY <2>1, <2>2, SMTT(30) DEF Pending, BeingModified, InOp
  <2>4. \A b \in Block : Contents(b) = disk[b]
    BY <2>3 DEF CacheInv, Contents
  <2>5. Recovered = [b \in Block |-> disk[b]]
    BY <2>2, RecoveredEmpty DEF Recovered
  <2> QED
    BY <2>4, <2>5 DEF View
<1> QED
  BY <1>1, LogInvariant, PTL

(* A registered block is pinned, hence cached, until it is installed. *)
THEOREM LogLoggedStaysCached == Spec => []LoggedStaysCached
<1>1. IInv => LoggedStaysCached
  <2> SUFFICES ASSUME IInv, boot = "up", NEW i \in 1 .. Len(lh), ~ (i <= tail /\ Installing)
               PROVE  cache[lh[i]] # Absent /\ pins[lh[i]] = 1
    BY DEF LoggedStaysCached, Installing
  <2>1. lh[i] \in Block
    BY SMTT(30) DEF IInv, TypeOK
  <2>2. Pending(lh[i])
    BY DEF Pending
  <2> QED
    BY <2>1, <2>2 DEF IInv, CacheInv
<1> QED
  BY <1>1, LogInvariant, PTL

==============================================================================
