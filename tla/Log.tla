--------------------------------- MODULE Log ---------------------------------
(***************************************************************************)
(* The logging layer, kernel/log.c: a physical redo log with group commit, *)
(* and its recovery after a crash.                                         *)
(*                                                                         *)
(* Processes run file-system calls between begin_op() and end_op().  A     *)
(* call reads blocks through the buffer cache (bread), modifies the cached *)
(* copy and registers it with log_write(), which pins the buffer.  The     *)
(* last end_op() commits: it copies the registered blocks to the log area, *)
(* writes the log header, installs the blocks at home and erases the       *)
(* header.  The machine may lose power between any two disk writes, or     *)
(* during one, and then runs recover_from_log().                           *)
(*                                                                         *)
(* A section under log.lock is one action: sleep() releases the lock and   *)
(* sleeps atomically (module SleepLock).  Buffers are locked with a        *)
(* sleeping lock: buf[p] is the one p holds.  A cached block nobody holds  *)
(* or has pinned may be recycled by bget() at any moment (Evict).          *)
(***************************************************************************)
EXTENDS Integers, Sequences, FiniteSets, Functions

CONSTANTS
  Proc,          \* processes that make file-system calls
  Block,         \* home block numbers
  Val,           \* contents of a block
  InitVal,       \* contents of every block made by mkfs
  Absent,        \* cache[b] when block b is not cached
  NoBuf,         \* buf[p] when p holds no buffer
  LOGSIZE,       \* kernel/param.h
  MAXOPBLOCKS,   \* kernel/param.h
  NLOG,          \* log.size: blocks of the log area, header included
  OpBlocks       \* most blocks one call registers

ASSUME LogAssumption ==
  /\ IsFiniteSet(Proc)
  /\ InitVal \in Val
  /\ Absent \notin Val
  /\ NoBuf \notin Block
  /\ LOGSIZE \in Nat \ {0}
  /\ MAXOPBLOCKS \in Nat \ {0}
  /\ OpBlocks \in 0 .. MAXOPBLOCKS
  /\ NLOG \in 1 .. LOGSIZE + 1

(* The log area: block log.start + i for i in 1 .. log.size - 1. *)
Slot == 1 .. NLOG - 1

VARIABLES
  disk,          \* home blocks on disk
  dlog,          \* log blocks on disk
  dhead,         \* block numbers in the on-disk log header
  cache,         \* buffer cache: contents of the cached blocks
  pins,          \* references taken by bpin()
  lh,            \* log.lh
  outstanding,   \* log.outstanding
  committing,    \* log.committing
  tail,          \* loop variable of write_log() and install_trans()
  boot,          \* progress of recover_from_log(), "up" once done
  pc,            \* where p is
  buf,           \* the buffer p holds locked
  wrote          \* blocks p's call has registered so far

diskVars == <<disk, dlog, dhead>>

vars == <<disk, dlog, dhead, cache, pins, lh, outstanding, committing, tail,
          boot, pc, buf, wrote>>

(* Inside a file-system call. *)
InOp(p) == pc[p] \in {"op", "held", "modified"}

Callers == {p \in Proc : InOp(p)}

(* Executing commit(). *)
Commits(p) == pc[p] \in {"write_log", "write_head", "install", "clear", "committed"}

TypeOK ==
  /\ disk \in [Block -> Val]
  /\ dlog \in [Slot -> Val]
  /\ dhead \in Seq(Block)
  /\ cache \in [Block -> Val \cup {Absent}]
  /\ pins \in [Block -> Nat]
  /\ lh \in Seq(Block)
  /\ outstanding \in Nat
  /\ committing \in BOOLEAN
  /\ tail \in Nat
  /\ boot \in {"read_head", "install", "clear", "up"}
  /\ pc \in [Proc -> {"idle", "reading", "begin", "sleep", "op", "held", "modified",
                      "write_log", "write_head", "install", "clear", "committed"}]
  /\ buf \in [Proc -> Block \cup {NoBuf}]
  /\ wrote \in [Proc -> SUBSET Block]

(* A fresh image from mkfs, about to boot. *)
Init ==
  /\ disk = [b \in Block |-> InitVal]
  /\ dlog = [i \in Slot |-> InitVal]
  /\ dhead = <<>>
  /\ cache = [b \in Block |-> Absent]
  /\ pins = [b \in Block |-> 0]
  /\ lh = <<>>
  /\ outstanding = 0
  /\ committing = FALSE
  /\ tail = 0
  /\ boot = "read_head"
  /\ pc = [p \in Proc |-> "idle"]
  /\ buf = [p \in Proc |-> NoBuf]
  /\ wrote = [p \in Proc |-> {}]

Goto(p, l) == pc' = [pc EXCEPT ![p] = l]

-----------------------------------------------------------------------------
(* bread(): what the buffer of block b holds, read from disk if need be.   *)
Contents(b) == IF cache[b] = Absent THEN disk[b] ELSE cache[b]

(* Nobody holds block b's sleeping lock. *)
Unlocked(b) == \A p \in Proc : buf[p] # b

Bread(p, b) ==
  /\ boot = "up"
  /\ buf[p] = NoBuf
  /\ Unlocked(b)
  /\ buf' = [buf EXCEPT ![p] = b]
  /\ cache' = [cache EXCEPT ![b] = Contents(b)]
  /\ \/ pc[p] = "op" /\ Goto(p, "held")
     \/ pc[p] = "idle" /\ Goto(p, "reading")      \* fileread(), no transaction
  /\ UNCHANGED <<disk, dlog, dhead, pins, lh, outstanding, committing, tail, boot, wrote>>

Brelse(p) ==
  /\ \/ pc[p] = "held" /\ Goto(p, "op")
     \/ pc[p] = "reading" /\ Goto(p, "idle")
  /\ buf' = [buf EXCEPT ![p] = NoBuf]
  /\ UNCHANGED <<disk, dlog, dhead, cache, pins, lh, outstanding, committing, tail,
                 boot, wrote>>

(* bget() recycles a buffer whose refcnt is 0. *)
Evict(b) ==
  /\ cache[b] # Absent
  /\ pins[b] = 0
  /\ Unlocked(b)
  /\ cache' = [cache EXCEPT ![b] = Absent]
  /\ UNCHANGED <<disk, dlog, dhead, pins, lh, outstanding, committing, tail, boot,
                 pc, buf, wrote>>

-----------------------------------------------------------------------------
(* begin_op(): the call, and the loop's test on each pass under log.lock.  *)
BeginOp(p) ==
  /\ boot = "up"
  /\ pc[p] = "idle"
  /\ Goto(p, "begin")
  /\ UNCHANGED <<disk, dlog, dhead, cache, pins, lh, outstanding, committing, tail,
                 boot, buf, wrote>>

(* Mutation: begin_op() does not look at log.committing. *)
MustWaitSpace == Len(lh) + (outstanding + 1) * MAXOPBLOCKS > LOGSIZE

MustWait == committing \/ Len(lh) + (outstanding + 1) * MAXOPBLOCKS > LOGSIZE

BeginSleep(p) ==
  /\ pc[p] = "begin"
  /\ MustWait
  /\ Goto(p, "sleep")
  /\ UNCHANGED <<disk, dlog, dhead, cache, pins, lh, outstanding, committing, tail,
                 boot, buf, wrote>>

BeginEnter(p) ==
  /\ pc[p] = "begin"
  /\ ~ MustWait
  /\ outstanding' = outstanding + 1
  /\ wrote' = [wrote EXCEPT ![p] = {}]
  /\ Goto(p, "op")
  /\ UNCHANGED <<disk, dlog, dhead, cache, pins, lh, committing, tail, boot, buf>>

(* The caller changes bp->data; a call registers at most OpBlocks blocks. *)
Modify(p, v) ==
  /\ pc[p] = "held"
  /\ Cardinality(wrote[p] \cup {buf[p]}) <= OpBlocks
  /\ cache' = [cache EXCEPT ![buf[p]] = v]
  /\ wrote' = [wrote EXCEPT ![p] = @ \cup {buf[p]}]
  /\ Goto(p, "modified")
  /\ UNCHANGED <<disk, dlog, dhead, pins, lh, outstanding, committing, tail, boot, buf>>

(* The conditions under which log_write() panics. *)
TooBig == Len(lh) >= LOGSIZE \/ Len(lh) >= NLOG - 1

OutsideTrans == outstanding < 1

(* Mutation: log_write() does not pin the buffer. *)
LogWriteUnpinned(p) ==
  /\ pc[p] = "modified"
  /\ ~ TooBig
  /\ ~ OutsideTrans
  /\ lh' = IF buf[p] \in Range(lh) THEN lh ELSE Append(lh, buf[p])
  /\ Goto(p, "held")
  /\ UNCHANGED <<disk, dlog, dhead, cache, pins, outstanding, committing, tail, boot,
                 buf, wrote>>

(* log_write(): register buf[p], once, and pin its buffer. *)
LogWrite(p) ==
  /\ pc[p] = "modified"
  /\ ~ TooBig
  /\ ~ OutsideTrans
  /\ IF buf[p] \in Range(lh)
       THEN UNCHANGED <<lh, pins>>
       ELSE /\ lh' = Append(lh, buf[p])
            /\ pins' = [pins EXCEPT ![buf[p]] = @ + 1]
  /\ Goto(p, "held")
  /\ UNCHANGED <<disk, dlog, dhead, cache, outstanding, committing, tail, boot, buf, wrote>>

(* wakeup(&log). *)
Woken == [q \in Proc |-> IF pc[q] = "sleep" THEN "begin" ELSE pc[q]]

(* Mutation: commit() writes the header before the log blocks. *)
EndOpHeadFirst(p) ==
  /\ pc[p] = "op"
  /\ ~ committing
  /\ outstanding' = outstanding - 1
  /\ IF outstanding = 1
       THEN /\ committing' = TRUE
            /\ tail' = 0
            /\ Goto(p, IF lh = <<>> THEN "committed" ELSE "write_head")
       ELSE /\ pc' = [Woken EXCEPT ![p] = "idle"]
            /\ UNCHANGED <<committing, tail>>
  /\ UNCHANGED <<disk, dlog, dhead, cache, pins, lh, boot, buf, wrote>>

(* end_op(), first section: the last call out commits. *)
EndOp(p) ==
  /\ pc[p] = "op"
  /\ ~ committing
  /\ outstanding' = outstanding - 1
  /\ IF outstanding = 1
       THEN /\ committing' = TRUE
            /\ tail' = 0
            /\ Goto(p, IF lh = <<>> THEN "committed" ELSE "write_log")
       ELSE /\ pc' = [Woken EXCEPT ![p] = "idle"]
            /\ UNCHANGED <<committing, tail>>
  /\ UNCHANGED <<disk, dlog, dhead, cache, pins, lh, boot, buf, wrote>>

-----------------------------------------------------------------------------
(* write_log(): copy the cached block lh[tail] to its log block. *)
WriteLog(p) ==
  /\ pc[p] = "write_log"
  /\ tail < Len(lh)
  /\ Unlocked(lh[tail + 1])
  /\ cache' = [cache EXCEPT ![lh[tail + 1]] = Contents(lh[tail + 1])]
  /\ dlog' = [dlog EXCEPT ![tail + 1] = Contents(lh[tail + 1])]
  /\ tail' = tail + 1
  /\ UNCHANGED <<disk, dhead, pins, lh, outstanding, committing, boot, pc, buf, wrote>>

WriteLogDone(p) ==
  /\ pc[p] = "write_log"
  /\ tail = Len(lh)
  /\ Goto(p, "write_head")
  /\ UNCHANGED <<disk, dlog, dhead, cache, pins, lh, outstanding, committing, tail,
                 boot, buf, wrote>>

(* write_head(): "the true point at which the current transaction commits". *)
WriteHead(p) ==
  /\ pc[p] = "write_head"
  /\ dhead' = lh
  /\ tail' = 0
  /\ Goto(p, "install")
  /\ UNCHANGED <<disk, dlog, cache, pins, lh, outstanding, committing, boot, buf, wrote>>

(* The loop body of install_trans(): home block lh[tail] gets the contents  *)
(* of log block tail, in its buffer and on disk.                            *)
InstallBlock ==
  /\ tail < Len(lh)
  /\ Unlocked(lh[tail + 1])
  /\ cache' = [cache EXCEPT ![lh[tail + 1]] = dlog[tail + 1]]
  /\ disk' = [disk EXCEPT ![lh[tail + 1]] = dlog[tail + 1]]
  /\ tail' = tail + 1

Install(p) ==
  /\ pc[p] = "install"
  /\ InstallBlock
  /\ pins' = [pins EXCEPT ![lh[tail + 1]] = @ - 1]
  /\ UNCHANGED <<dlog, dhead, lh, outstanding, committing, boot, pc, buf, wrote>>

(* End of install_trans(0), and log.lh.n = 0. *)
InstallDone(p) ==
  /\ pc[p] = "install"
  /\ tail = Len(lh)
  /\ lh' = <<>>
  /\ Goto(p, "clear")
  /\ UNCHANGED <<disk, dlog, dhead, cache, pins, outstanding, committing, tail, boot,
                 buf, wrote>>

(* The second write_head(), with log.lh.n = 0: erase the transaction. *)
Clear(p) ==
  /\ pc[p] = "clear"
  /\ dhead' = lh
  /\ Goto(p, "committed")
  /\ UNCHANGED <<disk, dlog, cache, pins, lh, outstanding, committing, tail, boot,
                 buf, wrote>>

(* Mutation: end_op() does not wake the waiters after a commit. *)
EndCommitSilent(p) ==
  /\ pc[p] = "committed"
  /\ committing' = FALSE
  /\ Goto(p, "idle")
  /\ UNCHANGED <<disk, dlog, dhead, cache, pins, lh, outstanding, tail, boot, buf, wrote>>

(* end_op(), second section: log.committing = 0; wakeup(&log). *)
EndCommit(p) ==
  /\ pc[p] = "committed"
  /\ committing' = FALSE
  /\ pc' = [Woken EXCEPT ![p] = "idle"]
  /\ UNCHANGED <<disk, dlog, dhead, cache, pins, lh, outstanding, tail, boot, buf, wrote>>

-----------------------------------------------------------------------------
(* recover_from_log(), run by the first process before any other:          *)
(* read_head() ...                                                         *)
ReadHead ==
  /\ boot = "read_head"
  /\ lh' = dhead
  /\ tail' = 0
  /\ boot' = "install"
  /\ UNCHANGED <<disk, dlog, dhead, cache, pins, outstanding, committing, pc, buf, wrote>>

(* ... install_trans(1), which pins and unpins nothing ... *)
RecoverInstall ==
  /\ boot = "install"
  /\ InstallBlock
  /\ UNCHANGED <<dlog, dhead, pins, lh, outstanding, committing, boot, pc, buf, wrote>>

RecoverInstallDone ==
  /\ boot = "install"
  /\ tail = Len(lh)
  /\ lh' = <<>>
  /\ boot' = "clear"
  /\ UNCHANGED <<disk, dlog, dhead, cache, pins, outstanding, committing, tail, pc,
                 buf, wrote>>

(* ... and write_head() with log.lh.n = 0. *)
RecoverClear ==
  /\ boot = "clear"
  /\ dhead' = lh
  /\ boot' = "up"
  /\ UNCHANGED <<disk, dlog, cache, pins, lh, outstanding, committing, tail, pc, buf, wrote>>

-----------------------------------------------------------------------------
(* Power failure: memory is lost, the disk survives. *)
PowerOff ==
  /\ cache' = [b \in Block |-> Absent]
  /\ pins' = [b \in Block |-> 0]
  /\ lh' = <<>>
  /\ outstanding' = 0
  /\ committing' = FALSE
  /\ tail' = 0
  /\ boot' = "read_head"
  /\ pc' = [p \in Proc |-> "idle"]
  /\ buf' = [p \in Proc |-> NoBuf]
  /\ wrote' = [p \in Proc |-> {}]

Crash == PowerOff /\ UNCHANGED diskVars

(* ... while write_log() was writing a log block, whose contents are then   *)
(* anything ...                                                             *)
CrashTornLog(v) ==
  /\ \E p \in Proc : pc[p] = "write_log"
  /\ tail < Len(lh)
  /\ dlog' = [dlog EXCEPT ![tail + 1] = v]
  /\ PowerOff
  /\ UNCHANGED <<disk, dhead>>

(* ... or while install_trans() was writing a home block. *)
CrashTornHome(v) ==
  /\ boot = "install" \/ \E p \in Proc : pc[p] = "install"
  /\ tail < Len(lh)
  /\ disk' = [disk EXCEPT ![lh[tail + 1]] = v]
  /\ PowerOff
  /\ UNCHANGED <<dlog, dhead>>

-----------------------------------------------------------------------------
CallStep(p) ==
  \/ BeginOp(p) \/ BeginSleep(p) \/ BeginEnter(p)
  \/ \E b \in Block : Bread(p, b)
  \/ \E v \in Val : Modify(p, v)
  \/ LogWrite(p) \/ Brelse(p) \/ EndOp(p)

CommitStep(p) ==
  \/ WriteLog(p) \/ WriteLogDone(p) \/ WriteHead(p)
  \/ Install(p) \/ InstallDone(p) \/ Clear(p) \/ EndCommit(p)

Recover == ReadHead \/ RecoverInstall \/ RecoverInstallDone \/ RecoverClear

Fail == Crash \/ \E v \in Val : CrashTornLog(v) \/ CrashTornHome(v)

Running ==
  \/ \E p \in Proc : CallStep(p) \/ CommitStep(p)
  \/ \E b \in Block : Evict(b)
  \/ Recover

Next == Running \/ Fail

Spec == Init /\ [][Next]_vars

-----------------------------------------------------------------------------
(* The disk a machine that lost power now would come back with: blocks named *)
(* by the on-disk header take their logged contents.                         *)
RecoveredFrom(home, log, head) ==
  [b \in Block |-> IF b \in Range(head)
                     THEN log[CHOOSE i \in 1 .. Len(head) : head[i] = b]
                     ELSE home[b]]

Recovered == RecoveredFrom(disk, dlog, dhead)

(* The disk as file-system code sees it through the buffer cache; during     *)
(* recovery nobody looks yet.                                                *)
View == IF boot = "up" THEN [b \in Block |-> Contents(b)] ELSE Recovered

Atomic == INSTANCE AtomicDisk
            WITH durable <- Recovered, current <- View, active <- Callers

(* Crash safety: the log implements a disk on which file-system calls are    *)
(* atomic.  Only write_head() changes what a crash would leave, it does so   *)
(* for whole calls, and eviction, installation, erasure, a crash in the      *)
(* middle of any of them or of recovery itself are invisible.                *)
RefinesAtomicDisk == Atomic!ASpec

(* Durability: whenever no call is under way and no commit is running, what  *)
(* the calls wrote is what a crash would leave.  In particular the end_op()  *)
(* that commits returns only when everything is on disk.                     *)
DurableWhenIdle ==
  boot = "up" /\ outstanding = 0 /\ ~ committing => Recovered = View

(* log.outstanding is, as its comment says, how many FS calls are executing; *)
(* commit() runs in one process only, with no call executing, and only while *)
(* log.committing keeps begin_op() out.                                      *)
OutstandingExact ==
  /\ outstanding = Cardinality(Callers)
  /\ \A p \in Proc : Commits(p) => committing /\ outstanding = 0
  /\ \A p, q \in Proc : Commits(p) /\ Commits(q) => p = q

(* log_write() never panics: the space begin_op() reserved is there when a   *)
(* call needs it, whatever other calls have logged meanwhile; nor does       *)
(* end_op() find a commit running.                                           *)
NoPanic ==
  \A p \in Proc :
    /\ pc[p] = "modified" => ~ TooBig /\ ~ OutsideTrans
    /\ pc[p] = "op" => ~ committing

(* A registered block stays in the cache until it is installed: were its     *)
(* buffer recycled, write_log() would log the stale block from disk.         *)
LoggedStaysCached ==
  boot = "up" =>
    \A i \in 1 .. Len(lh) :
      \/ i <= tail /\ \E p \in Proc : pc[p] = "install"
      \/ cache[lh[i]] # Absent /\ pins[lh[i]] = 1

-----------------------------------------------------------------------------
(* The inductive invariant, in parts. *)

Installing == \E p \in Proc : pc[p] = "install"

(* Block b is registered and not yet installed. *)
Pending(b) == \E i \in 1 .. Len(lh) : lh[i] = b /\ ~ (Installing /\ i <= tail)

(* Somebody has changed b's buffer and not yet called log_write(). *)
BeingModified(b) == \E p \in Proc : pc[p] = "modified" /\ buf[p] = b

(* Who may be where: calls exclude a commit, a commit excludes another one,  *)
(* and recovery excludes everything.                                         *)
ControlInv ==
  /\ OutstandingExact
  /\ committing => outstanding = 0
  /\ boot # "up" =>
       /\ outstanding = 0 /\ ~ committing
       /\ \A p \in Proc : pc[p] = "idle" /\ buf[p] = NoBuf

(* The sleeping locks of the buffers; a held buffer is cached. *)
BufferInv ==
  /\ \A p \in Proc : buf[p] # NoBuf <=> pc[p] \in {"held", "modified", "reading"}
  /\ \A p, q \in Proc : buf[p] = buf[q] /\ buf[p] # NoBuf => p = q
  /\ \A p \in Proc : buf[p] # NoBuf => cache[buf[p]] # Absent

(* A header names a block once, and every block it names has a log block. *)
HeaderInv ==
  /\ Len(lh) <= NLOG - 1 /\ Len(dhead) <= NLOG - 1
  /\ \A i, j \in 1 .. Len(lh) : lh[i] = lh[j] => i = j
  /\ \A i, j \in 1 .. Len(dhead) : dhead[i] = dhead[j] => i = j

(* What is pinned, and that a cached block nobody is changing and that is    *)
(* not pending agrees with the disk.                                         *)
CacheInv ==
  /\ boot # "up" => \A b \in Block : pins[b] = 0 /\ cache[b] \in {Absent, disk[b]}
  /\ boot = "up" =>
       \A b \in Block :
         /\ pins[b] = IF Pending(b) THEN 1 ELSE 0
         /\ Pending(b) => cache[b] # Absent
         /\ ~ Pending(b) /\ ~ BeingModified(b) => cache[b] \in {Absent, disk[b]}

(* Every block the on-disk header names has been installed. *)
AllInstalled == \A i \in 1 .. Len(dhead) : disk[dhead[i]] = dlog[i]

(* How far the recovery has come. *)
BootPhase ==
  /\ boot = "read_head" => lh = <<>>
  /\ boot = "install" =>
       /\ dhead = lh
       /\ tail <= Len(lh)
       /\ \A i \in 1 .. Len(lh) : i <= tail => disk[lh[i]] = dlog[i]
  /\ boot = "clear" => lh = <<>> /\ AllInstalled

(* How far the commit that p executes has come. *)
CommitPhase(p) ==
  /\ pc[p] = "write_log" =>
       /\ tail <= Len(lh)
       /\ \A i \in 1 .. Len(lh) : i <= tail => dlog[i] = cache[lh[i]]
  /\ pc[p] = "write_head" => \A i \in 1 .. Len(lh) : dlog[i] = cache[lh[i]]
  /\ pc[p] = "install" =>
       /\ dhead = lh
       /\ tail <= Len(lh)
       /\ \A i \in 1 .. Len(lh) :
            IF i <= tail THEN disk[lh[i]] = dlog[i] ELSE cache[lh[i]] = dlog[i]
  /\ pc[p] = "clear" => lh = <<>> /\ AllInstalled
  /\ pc[p] = "committed" => lh = <<>>

(* The phases, and that the log is empty outside them. *)
PhaseInv ==
  /\ BootPhase
  /\ \A p \in Proc : CommitPhase(p)
  /\ boot = "up" /\ (\A p \in Proc : pc[p] \notin {"install", "clear"}) => dhead = <<>>
  /\ boot = "up" /\ outstanding = 0 /\ ~ committing => lh = <<>>

(* The facts about the data hold at every step of calls, commit, eviction,   *)
(* crash and recovery.                                                       *)
IInv == TypeOK /\ ControlInv /\ BufferInv /\ HeaderInv /\ CacheInv /\ PhaseInv

-----------------------------------------------------------------------------
(* Fairness: a process inside a call, a commit or recovery keeps going (WF), *)
(* and a call uses finitely many buffers and then ends (SF on what leads to  *)
(* its end).  Nothing is assumed of power failures.                          *)
Fairness ==
  /\ WF_vars(Recover)
  /\ \A p \in Proc : WF_vars(BeginSleep(p) \/ BeginEnter(p))
  /\ \A p \in Proc : WF_vars(LogWrite(p))
  /\ \A p \in Proc : SF_vars(Brelse(p)) /\ SF_vars(EndOp(p))
  /\ \A p \in Proc : SF_vars(CommitStep(p))

LiveSpec == Spec /\ Fairness

(* A process that waits in begin_op(), for log space or for a commit, does   *)
(* not sleep for ever: some end_op() calls wakeup(&log), if the machine does *)
(* not lose power first.                                                     *)
BeginOpWakes == \A p \in Proc : pc[p] = "sleep" ~> pc[p] # "sleep"

==============================================================================
