# A verification of the xv6 kernel in TLA+

This directory holds TLA+ models of the kernel under `src/kernel` (an xv6-riscv
with mutex system calls, file permissions, `chmod` and `lseek` added), the TLC
configurations that check them, and TLAPS proofs. `PROJECT.json` lists the
components, the runs, the theorems, the hazards the properties are about, and,
for every definition that models code, the lines it models.

## The system

The kernel runs on several CPUs (harts). Each has a scheduler thread that
switches to processes; a process enters the kernel by a system call or an
interrupt and runs there in its own kernel thread.

| Part | State | Operations | Interacts with |
|---|---|---|---|
| scheduling, sleep, wakeup (`proc.c`) | `p->state`, `p->chan`, `p->lock`, `c->proc` | `scheduler`, `sched`, `yield`, `sleep`, `wakeup` | everything that waits |
| spinlocks (`spinlock.c`) | holder, `noff`, `intena` | `acquire`, `release`, `push_off`, `pop_off` | interrupts |
| sleeping locks (`sleeplock.c`) | `locked`, `pid` | `acquiresleep`, `releasesleep`, `holdingsleep` | sleep/wakeup |
| processes (`proc.c`) | table of `struct proc`, `wait_lock`, `nextpid` | `fork`, `exit`, `wait`, `kill`, `reparent` | scheduling, traps |
| mutexes (`mutex.c`) | `mtable` | `mutex_create`, `mutex_lock`, `mutex_unlock`, `mutex_free` | sleep/wakeup |
| log (`log.c`) | `log`, the log area on disk | `begin_op`, `log_write`, `end_op`, `commit`, recovery | buffer cache, disk |
| buffer cache (`bio.c`) | LRU list, `refcnt`, `valid` | `bread`, `bwrite`, `brelse`, `bpin`, `bunpin` | disk, log |
| inodes, directories, paths (`fs.c`) | inode table, bitmap, dinodes | `ialloc`, `iget`, `iput`, `ilock`, `bmap`, `itrunc`, `readi`, `writei`, `dirlink`, `namex` | log, buffer cache |
| files (`file.c`, `sysfile.c`) | file table, descriptors | `open`, `read`, `write`, `close`, `dup`, `link`, `unlink`, `lseek`, `chmod` | inodes, pipes, log |
| pipes (`pipe.c`) | ring, `nread`, `nwrite`, open flags | `pipealloc`, `pipewrite`, `piperead`, `pipeclose` | sleep/wakeup |
| disk driver (`virtio_disk.c`) | descriptors, rings | `virtio_disk_rw`, `virtio_disk_intr` | device, buffer cache |
| console, UART, clock (`console.c`, `uart.c`, `trap.c`) | input buffer, transmit ring, `ticks` | `consoleread`, `consoleintr`, `uartputc`, `uartstart`, `clockintr`, `sys_sleep` | interrupts, spinlocks |
| memory (`kalloc.c`, `vm.c`, `exec.c`) | free list, page tables | `kalloc`, `kfree`, `walk`, `mappages`, `uvmcopy`, `exec` | processes |
| shell and filters (`user/sh.c`, `cat.c`, `grep.c`, `wc.c`, `echo.c`) | command tree, descriptors, buffers | `parsecmd`, `runcmd`, the programs | processes, files, pipes |

What makes it hard: a process can be preempted whenever it holds no spinlock;
`sleep()` has to give up one lock and take another without a wakeup slipping
through; a process that has become RUNNABLE or ZOMBIE still stands on its kernel
stack; `fork()` and `wait()` work on half-made and half-dead processes; commit
runs without a lock; power can fail between and during disk writes, and again
during recovery; an interrupt handler wants the locks of the code it interrupts;
the last reference to an inode, a file or a pipe can go away while another process
looks it up; memory, blocks and table entries run out in the middle of a call.

## Modules

| Module | Models | Kind |
|---|---|---|
| `Sched` | `scheduler`, `sched`, `yield`, `sleep`, `wakeup` | machinery, extended by the next two |
| `SleepLock` | `sleeplock.c` over `Sched` | specification |
| `Proc` | `fork`, `exit`, `wait`, `kill` over `Sched` | specification |
| `Mutex` | `mutex.c` | specification |
| `AtomicDisk` | what the log promises: atomic file-system calls | abstract specification |
| `Log` | `log.c`, and the part of `bio.c` it relies on | specification, refines `AtomicDisk` |
| `OpenLog` | `sys_open`'s denied return and `sys_chmod` as calls of `Log` | composition |
| `Virtio` | `virtio_disk.c`, its device, its interrupt | machinery, extended by `Bcache` |
| `Bcache` | `bio.c` over `Virtio` | specification, composition |
| `Inode` | the on-disk half of `fs.c`, `mkfs.c` | operators |
| `Fs` | inode table, path walking, system calls on names, over `Inode` | specification |
| `Pipe` | `pipe.c` | machinery, extended by `File` |
| `File` | `file.c`, system calls on descriptors, over `Pipe` | machinery, extended by `Tasks` |
| `Tasks` | `fork`, `exit`, `wait`, `kill` as to descriptors, over `File`, for any programs | specification |
| `ShParse` | the parser of `user/sh.c` | operators |
| `Programs` | `user/cat.c`, `grep.c`, `wc.c`, `echo.c` | operators |
| `Shell` | `user/sh.c` running a command line: the programs of `Tasks` | specification, composition |
| `Vm` | `kalloc.c`, `vm.c` | operators |
| `Memory` | `fork`, `exec`, `sbrk`, `exit` as to memory, over `Vm` | specification |
| `Tty` | `console.c`, `uart.c`, the clock, `spinlock.c`, interrupts | specification |
| `SleepLockProofs` | theorems about `SleepLock` | proofs |
| `LogProofs` | theorems about `Log` | proofs |
| `MutexProofs` | theorems about `Mutex` | proofs |
| `ProcProofs` | theorems about `Proc` | proofs |
| `BcacheProofs` | theorems about `Bcache` and `Virtio` | proofs |
| `TtyProofs` | theorems about `Tty` | proofs |
| `DescriptorProofs`, `TasksProofs` | theorems about `Tasks`, `File` and `Pipe` | proofs |
| `MC...` | instances for TLC | model checking |

Definitions marked "Mutation" are faulty variants of the definition that
follows them. `PROJECT.json` names, for every property of every passing run, one
that breaks it; they are not part of any specification.

Two conventions hold throughout. What the code does between taking and dropping a
spinlock is one step, since nobody else can see the states in between; where two
sides do not share a lock, or a device or an interrupt handler works beside the
code, each access is a step. And `sleep()` gives up its lock and falls asleep in one
step, in all modules but `SleepLock` and `Proc`: that no wakeup falls in between is
proved in `SleepLockProofs`.

### Sched, SleepLock

Variables are the fields of `struct proc` and `struct cpu` that switching uses.
A spinlock is the CPU that holds it, or `NoCPU`, so `holding()` is an equality and
`noff` is the number of locks held. `pc[p]` is where the kernel thread of `p` is;
`spc[c]` is where the scheduler thread of `c` is. A step is the code between two
lock operations: in `sleep()` for instance, acquiring `p->lock`, releasing the
caller's lock, switching, tidying up and taking the lock again are five steps.
`yield()` can happen wherever the CPU holds no spinlock, since interrupts are then
on; `yielded[p]` marks a process that has left in this way, or that has yet to run
`forkret()`, which does the same release.

`scheduler()` walks the table in order; the model lets a CPU choose any RUNNABLE
process, which admits every order. Acquiring a spinlock is a guard: spinning is
not a step. `SleepLock` adds one sleeping lock that every process acquires and
releases for ever.

### Proc

The whole table with `wait_lock` and every `p->lock`. Loops over the table
(`allocproc`, `reparent`, `wait`, `wakeup`) take one step per slot, because each
iteration takes and drops a lock or could be overtaken. Memory is in `Memory` and
descriptors are in `Tasks`; running out of memory in `allocproc()` or `fork()` is a
choice here, and so is a failing `copyout()` in `wait()`. `kill()` is one step on the
slot its search ends at, since the slots it passes are locked and unlocked without
effect; `kill(0)` ends at an UNUSED slot, as in the code. Init neither exits nor is
killed: the kernel panics when init exits, by design.

### Mutex

`mutex_create()` holds `mtable.lock` and the others hold `m->lk`, and both write
`m->pid`, so each access is a step. Callers behave as `user/mutextest.c` does: they
lock what a relative has created, unlock what they have locked, free what they have
created. `DisciplinedSpec` also has mutexes created while nobody is in a mutex call
and no mutex of the program has been unlocked; without it the properties fail (see
Observations).

### Log, AtomicDisk, OpenLog

`disk`, `dlog` and `dhead` are on disk and survive `PowerOff`; everything else is
memory. Each disk write is a step, and a crash can also leave the block being
written with any contents (`CrashTornLog`, `CrashTornHome`). The write of the header
block is assumed atomic: the code has no checksum and relies on it. A cached block
that is neither locked nor pinned can be recycled at any time (`Evict`), which covers
every choice of the LRU list. Reads outside a transaction (`fileread`) are there as
well, because they hold buffer locks while a commit runs.

The refinement mapping gives `AtomicDisk` three values: `durable` is what recovery
would make of the disk now (`Recovered`), `current` is what reads see through the
cache (`View`), `active` is the set of processes between `begin_op()` and `end_op()`.

### Virtio, Bcache

`Virtio` has the descriptors, the two rings, the interrupt line and the threads
waiting in `virtio_disk_rw()`. The device completes requests in any order and moves
data when it likes between the publication of a request and its completion.
Publishing a request and every turn of the interrupt handler's loop are separate
steps, because the device works beside both.

`Bcache` has the LRU list as a sequence, `refcnt`, `valid` and the owner of each
buffer's sleeping lock, and runs every read and write through `Virtio`. Its clients
pin a modified buffer before they release it and write it before they unpin it, as
`log_write()` and `install_trans()` do. `last[b]`, a history variable, is what the last
holder of block `b` left in it. `kill()` can make any waiting process RUNNABLE, as
`proc.c` does, so that the loops around `sleep()` matter.

### Inode, Fs

`Inode` has the functions that work on the disk under an inode's lock: `balloc`,
`bfree`, `ialloc`, `iupdate`, `bmap`, `itrunc`, `writei`, `dirlookup`, `dirlink`, with their
panics. A block of a directory is a sequence of entries and sizes count entries;
the blocks of a file are counted and owned, their bytes are not kept.

`Fs` has the inode table with references and in-memory copies, path walking one
element at a time with the locks it takes, and the system calls on names. A call
is cut where the code can wait or lets go of `itable.lock`; `iput()` of a last
reference takes three steps (the test, the freeing, the drop), so that `iget()` can
come between them. Transactions are those of `AtomicDisk`: what becomes durable
does so when the last of a group of overlapping transactions ends, and a crash
returns to the last such state with empty tables.

### Pipe, File, Tasks, ShParse, Programs, Shell

`Pipe` moves a byte per step, because `kill()` may come between two bytes and
`copyin()`/`copyout()` may fail at any of them; the counters wrap at `WRAP`, a multiple of
`PIPESIZE` as 2^32 is of 512. `File` has the file table, descriptors and offsets; in
`fileclose()` the pipe is closed in a step after the release of `ftable.lock`.
`Tasks` adds user mode, `fork`, `exit`, `wait` and `kill`, in the form in which they
matter to descriptors and pipes. A program is what is left of it, `prog[p]`, and the
constant `Compute` says which system call comes next and what is left then, from the
result of the last call and the memory it filled; `Boot` is the first program for a
job out of `Job`, and a `kill()` comes in the jobs of `Killable`. Nothing in `Tasks` depends on what `Compute` is.
`ShParse` parses tokens, where `gettoken()` has cut a line, into the command trees of
`sh.c`. `Programs` has each program as the system calls it makes and what it keeps
between them; characters are codes, and `grep`'s matcher is the recursive one of
`grep.c`. `Shell` gives `Compute` its value (`ShellCompute`), which runs it all: `fork1()`,
`runcmd()`, redirections, lists, pipelines and background commands; a job is a command
line. One-letter programs of a call or two stand for what the real ones do not do: write more
than a pipe holds (`s`), read one byte only (`h`), start before the end with `lseek` (`k`), pass
a buffer that ends too early to `read` (`r`) or `write` (`b`); `x` does not exist.

What a command line means is defined apart from all this (`Sem`): a function from
the input and the files to the output and the files, with `grep` by a definition of
what a pattern matches (sets of positions reached) and `wc` by counting. The parser
is checked by printing a tree as tokens and parsing it: Init runs the parsed line,
`OutputIsMeaning` compares with the meaning of the tree.

### Vm, Memory

`Vm` has the free list with `nb_free_pages`, three-level page tables stored in pages,
and `walk`, `mappages`, `uvmunmap`, `uvmalloc`, `uvmdealloc`, `uvmcopy`, `uvmfree`, with
their panics. A system call of `Memory` is one step, as it is to the process whose
memory it changes; what the other CPUs take from the free list meanwhile is a
number of calls of `kalloc()` that still succeed, chosen for each call, so that every
allocation of every call fails in some behaviour.

### Tty

Each CPU runs a process that reads, writes or sleeps, and handlers of the UART's and
the clock's interrupts. Here, and only here, a spinlock is taken in two steps
(`push_off()`, then the lock) and interrupts are enabled or not (`sie`, `noff`, `intena`),
because the question is what an interrupt can meet. Console indices wrap at `WRAP`,
as `ticks` does. `edited`, a history variable, is what line editing makes of the keys
so far: the lines given to the readers and the one still being edited. `InputIsEdited`
compares the console buffer with it: the part that can be read in every state, the
line being edited whenever `cons.lock` is free.

## Runs

| Run | Instance | Shows |
|---|---|---|
| `sleeplock` | 2 processes, 2 CPUs, fair | mutual exclusion, no lost wakeup, no process on two CPUs, no panic; every sleeper is woken |
| `proc` | 3 slots, 2 CPUs, pids up to 5 | no missed exit, live parents, zombies freed off their stack, no panic |
| `mutex` | 3 processes, 2 mutexes, disciplined | the recorded holder, mutexes given out once, sleepers have a waker |
| `log_crash` | 3 processes, 2 blocks, 2 values | the log implements `AtomicDisk` under crashes and torn writes |
| `log_live` | 2 processes, 3 blocks, smallest log, no crash, fair | the reserved space is there, nobody sleeps in `begin_op()` for ever |
| `open_denied` | 2 processes | a denied `open` leaves `log.outstanding` too high: **violated** |
| `disk` | 2 processes, 4 blocks, 3 buffers, 6 descriptors | no data lost or confused by recycling; the device's buffers left alone; references exact; no panic |
| `disk_live` | 2 processes, 3 blocks, 2 buffers, 4 descriptors, fair | a waiter for descriptors has a waker; every published request returns |
| `fs` | 7 pairs of programs, 5 inodes, 7 data blocks, crashes in two of them | the disk is consistent, the inode table exact, no circular wait, no panic |
| `shell` | 15 command lines, up to 5 processes, 2 pipes of 2 bytes | output is what the line means; references exact; nobody asleep without reason; everything ends |
| `memory` | 2 processes, 23 pages of 2 bytes, 6 calls, 5 program files | every page has one owner; every process sees its image; no panic |
| `tty` | 2 CPUs, 6 scenarios | lock discipline, edited input, ordered output, sleeps neither short nor endless, all is sent |

Bounds. Two processes on two CPUs give a holder and a contender that becomes a
sleeper, and a CPU that works while another switches; the theorems
have no bound. Three slots give init, a parent and its child, so
orphans, slot reuse and inheritance happen; five pids let slots be reused. Two
blocks and two values tell old from new contents and one installed block from
another; with `OpBlocks = 2` a call spans both, so a partial call would be seen, and
with `LOGSIZE = 6`, `MAXOPBLOCKS = 3` two calls overlap and a third must wait. `log_live`
uses the smallest sizes in which a reservation is tight. Four blocks in three
buffers make recycling happen while two processes hold one each and a third is
pinned; `NBUF` is the most the two can reference and pin (`bget()` panics at less). Six descriptors serve two
requests, four serve one, so the second waits. `MaxMod` bounds how often a block is
changed and `MaxPin` how many blocks are pinned. In `fs` an inode has one
direct and two indirect blocks of two entries, so that files grow into the indirect
block and directories into a second block, and blocks and inodes run out. Pipes of
two bytes, buffers of two bytes (four for `grep`) and writes in pieces of two make
every loop go round; offsets are unsigned and wrap at 16 (`UINT`). Pages of two bytes and tables of three entries
put a small program in more than one table. The scenarios of `tty` bring two
parties to each lock, buffer and wakeup, with indices that wrap at 4.

CHECK_DEADLOCK is off in `shell`, `memory` and `tty`, where a scenario, or the bound on
calls, comes to an end. In `fs` a finished scenario stutters explicitly, so deadlock
is checked there.

Fairness. `FairSpec` of `SleepLock` assumes that a process which is given the CPU again
and again gets ahead (strong fairness: a spinlock contended for ever is won
eventually), that a scheduler's walk reaches a process that stays RUNNABLE, and that
timer interrupts keep coming. `LiveSpec` of `Log` assumes that a call releases the
buffers it holds and ends, that a commit proceeds, and that the power stays on.
`Bcache` assumes that the device answers, that its interrupt is taken and that a
process in the driver goes on; a process need not start a call. `Shell` assumes only
that some process that can run does (the scheduler never idles). `Tty` assumes that a process on
its CPU and a running handler go on, that the UART's interrupt is taken on some CPU,
and that the UART sends; keys and clock ticks need not come. Sleeping locks are not
fair: a latecomer can take the lock before a woken sleeper every time, so no
property says that a particular process gets the lock; for the same reason
`RequestReturns` says nothing of a process that waits for descriptors.

## Findings and observations

`open_denied` shows a call that returns between `begin_op()` and `end_op()`: `sys_open()`
of a file without the permission. `log.outstanding`, which a comment of `log.c` calls
the number of calls executing, stays one too high, nothing is committed any more,
and `begin_op()` finally waits for ever. `PROJECT.json` quotes the lines.

The following were met on the way. The models do what the code does in each of
them, or the clients of a model keep away from it, as said.

- `kill(0)` succeeds: it matches the pid 0 of an UNUSED slot and leaves `killed` set
  there, so the next process in the slot is killed at its first trap (`Proc` has it).
- The log area holds one data block fewer than `LOGSIZE`, because `mkfs` counts the
  header in it, while `begin_op()` admits `LOGSIZE` blocks. Calls that registered as
  many blocks as `MAXOPBLOCKS` allows would panic in `log_write()`; `log_live` has calls
  that register fewer, as today's calls do.
- `mutex_create()` and `mutex_lock()` write `m->pid` under different locks, so a create
  can overwrite a holder's pid; and `mutex_unlock()` marks the mutex unallocated, so
  that it can be given away, and the final `mutex_free()` of `mutextest.c` fails.
  `DisciplinedSpec` keeps away from both.
- A directory entry ".." of a removed directory can name an inode that has been
  freed meanwhile; following it panics in `ilock()`. No scenario of `fs` does.
- A file created in a directory that has been unlinked but is still somebody's
  working directory stays allocated, without a name; a crash leaves the same behind
  for a file that was unlinked while open. `DiskConsistent` allows for such orphans.
- `sys_chmod()` never gives back its reference to the inode. `TableExact` counts these.
- `sys_read()` and `sys_write()` test the permission of `f->ip`, which for a pipe is what
  the file-table entry last held.
- In `sys_lseek()` the test for an offset before the start is on an unsigned value and
  never true; and `f->ip` is used without a look at the type of `f`, though a file
  structure that has only been a pipe's has none. No program of `Tasks` seeks there.
- `O_RDONLY` is 0, so that `open` never asks for the read permission.
- `>>` of the shell opens without `O_TRUNC` but writes from offset 0. `Sem` says the same.
- `grep` prints nothing for a last line without a newline, and stops at a line that
  does not fit its buffer. The meaning in `Programs` says the first; the command lines stay away
  from the second.

## Proofs

The theorems hold for every number of CPUs, processes, mutexes, blocks, contents,
buffers, descriptors, pipes, any log size and any programs that satisfy the modules' assumptions
(`SchedAssumption`, `SleepLockAssumption`, `LogAssumption`, `MutexAssumption`,
`VirtioAssumption`, `RequestAssumption`, `BcacheAssumption`, `TtyAssumption`,
`PipeAssumption`, `FileAssumption`, `TasksAssumption`). Those of the disk say that there
are finitely many processes, at least three descriptors and a buffer. Those of `Tty` and
`Pipe` say that indices wrap at a multiple of the buffer's size greater than it, as
2^32 is of 128 and 512 and 2^64 of 32. `Tasks` has finitely many processes and room for three
descriptors in one file. All say that `Nil` is none of the values it stands beside.

`LogProofs` proves `Spec => []IInv`. `DurableWhenIdle` and the refinement are far from
inductive: that a crash during `install` is harmless depends on the header on disk
being `log.lh`, on the installed blocks equalling their log copies, on the others
being still cached and pinned, and on nobody being inside a call. `IInv` says these
things in parts: `ControlInv` (calls, commit and recovery exclude one another),
`BufferInv` (who holds which buffer), `HeaderInv` (a block is named once and has a
log block), `CacheInv` (what is pinned, and that an unpinned cached block agrees with
the disk) and `PhaseInv` (how far commit or recovery has come). Each part has a step
lemma with one step per action. The refinement uses the invariant: every
step maps to a step of `AtomicDisk` or to a stutter: `BeginEnter`, `EndOp` and
`Modify` to `Begin`, `End` and `Write`, `WriteHead` to `Commit`, crashes to
`CrashRestart`, all others to nothing.

`LogNoPanic` needs one more invariant, `RoomInv`: what a call has changed it has
registered, but for the buffer at hand (`WroteInv`), and `Len(lh)` with `MAXOPBLOCKS` for
each call is at most `LOGSIZE` and what the calls under way have registered (`SpaceInv`).
The latter is a set of pairs, call and block, so that no sum is needed; that it has at
most `OpBlocks` pairs for each call is shown by an injection (`RegisteredBound`).
The hypothesis `LOGSIZE < NLOG - 1 + (MAXOPBLOCKS - OpBlocks)` makes up for the header
counted in `NLOG`, and for `log_write()` testing the space before it looks whether the
block is registered already. With `LOGSIZE = 30`, `MAXOPBLOCKS = 10` and the `NLOG = 30` of
`mkfs` it says that a call registers eight blocks at most; `filewrite()`, in pieces of
three blocks' length, has four data blocks, an indirect block, the inode's and the one
bitmap block of a disk this size. The run `log_live` has an instance outside the hypothesis,
in which two reservations fill the log exactly.

`SleepLockProofs` proves `Spec => []IInv` for `SleepLock` and from it mutual exclusion,
that no wakeup is lost, that no process is on two CPUs and that nothing panics. The
strengthening: `p->lock` is held by the CPU that runs `p` or is switching away from
it exactly where the code holds it (`SwitchInv`), a process is switched out only in
`yield()` or `sleep()` (`SwitchedOutInv`), `lk->lk` is held where the code holds it
(`SpinInv`), and whoever sleeps or is about to is ahead of a wakeup or the lock is
taken (`WaitInv`).

The four invariants of the `proc` run are proved in two steps. `ProcProofs` first shows
`Spec => []SwitchInd`: who holds `p->lock` (`SwitchInv`) and `wait_lock` (`WaitLockInv`), what
`p->state` says of the label `p` is at (`StateInv`), that a RUNNING process is on a CPU
(`RunInv`), and that a slot `fork()` has claimed is its own (`ForkInv`). `FreedOffCPU` follows:
`wait()` takes the child's lock, and a zombie has its lock until its CPU is back in
the scheduler. `NoPanic` follows too. Then comes the tree, `Spec => []ProcInd`:
an exiting process has no children below its reparenting index (`TreeInv`), the scan of
`wait()` has met no zombie so far (`ScanInv`), a process that dozes, asleep in `wait()` or
on the way there, has a child, and a zombie child only while the wakeup for
it is ahead (`DozeInv`), and the parent whose slot a `wakeup()` has passed does not doze
(`WokenInv`); the last two are why `wait_lock` is held from the scan into `sleep()` and
from the reparenting to ZOMBIE. Most of the actions fall into classes that disturb
little: a process goes on in its code (`Moves`), sleepers become RUNNABLE (`Wakes`), the
tree stays as it is (`Calm`); the lemmas `StepCases` and `TreeStepCases` say which, and
the step lemmas treat a class at once.

`MutexProofs` proves `DisciplinedSpec => []IInv` for `Mutex`, and from it the three
properties of the `mutex` run. None of them is inductive: a process that has set
`m->locked` and not yet recorded its pid must have no rival inside, and one that has
cleared it must still find it clear (`TakenInv`), which rests on `m->lk` being held
(`SpinInv`) and on creations being alone and claiming a mutex with pid 0 (`ClaimInv`).
That a mutex is given out once needs all processes to be of one program, which is an
assumption of that theorem: in the discipline a program knows only of its own mutexes.

`BcacheProofs` proves `Spec => []IInv` for `Bcache` over `Virtio`, and from it all invariants
of the two disk runs. That a holder sees the last write depends on the whole path
of a block: it has one buffer at most and a pinned one stays (`CacheInv`, `RefcntExact`:
`bget()` recycles only what nobody has), the sleep lock is held from `bread()` to
`brelse()` (`OwnerInv`), a modified block that is not yet on disk is pinned or held
(`DirtyInv`), so that what `bget()` recycles is on disk (`ValidInv`). Below it, a process
in `virtio_disk_rw()` and its request know each other (`RequestInv`), the request's head is
in one place at a time, the avail ring, the device or the used ring, and `b->disk` and
the status say which (`RingInv`), a completed request has moved its data (`DoneInv`),
and every descriptor is free or in one chain (`DescInv`). The steps that change little,
interrupts, kills and waits, are one class (`Idles`); every other action has a step
lemma, in which the parts it does not touch follow from frame lemmas.
`BcacheDriverNoPanic` holds for any number of buffers. `BcacheNoPanic`, which adds the
panic of `bget()`, has the hypothesis `NBUF >= Cardinality(Proc) + MaxPin`, used in a
counting argument (`VictimLeft`). It is a sufficient size, in a model whose processes hold
one buffer each: `param.h` has `NBUF = 30` for 64 processes and as many log blocks as
buffers, so the theorem does not say that the kernel as configured never runs out.

`TtyProofs` proves `Spec => []IInv` for `Tty`, and from it the four invariants of the `tty`
run and `SleepsLongEnough`. `LockInv` says for every CPU, from the stage of its process
and of its handler, which lock it holds, what `noff` and `intena` are and whether
interrupts are on: a handler starts only outside `push_off()`/`pop_off()`, so it never
meets a lock of its own CPU. `SleepInv` has the reason of a sleeper from its test on,
not only from `sleep()` on; it is kept because what would change the reason needs the
lock, and wakes. `TimeInv` bounds `ticks - ticks0` by the ticks counted, across the
wraparound. `OutInv` and `InInv` are about the two rings. In the first, only the
front of the FIFO can be a byte of `uartstart()`. In the second, the indices are
within one turn of the buffer, and the ring and `edited.line` may differ only while a
handler erases, by the characters it has not accounted for yet. Beneath lies arithmetic:
the remainder of an index that wraps at a multiple of the size (`ModShift`), different
slots for indices less than a turn apart (`ModApart`), and what a put, a take and an
erasure do to the sequence a ring holds.

`DescriptorProofs` and `TasksProofs` prove `Spec => []IInv` for `Tasks`, and from it
`RefsExact` and `SleepsForReason`. `Compute` and `Boot` are constants about which nothing
is assumed, so the two hold for every program there can be, and the shell's are one case:
the `shell` run checks the same two definitions there. `RefsExact` is not inductive. A
reader must have its end of the pipe in its hands for as long as it is in `piperead()`
(`UserInv`), so that the pipe is not freed under it; an end must be in one place only,
in one file or with one process about to close it (`OneEnd`), so that the second
`pipeclose()` is the last; a process that does not run must have no descriptors
(`IdleInv`), so that `fork()` overwrites none. `CountInv` is an equality of
cardinalities: `dup()`, `close()` and a failing `pipe()` change the set of holders by one
element, `fork()` adds a copy of the parent's holders to those of each file. That nobody sleeps without reason needs to say who has
`pi->lock` between two steps (`LockInv`) and that nobody of its own side sleeps
meanwhile (`ReasonInv`): a reader in the loop has found a byte, and the writers that sleep
are woken before the lock is released. `SleepsForReason` speaks of behaviours without
`kill()`; what one may change is in the model (`Kill`, `KillLate`).
The step lemmas are cut by what a call touches: descriptors only, the state of a process
only, one pipe only.

Model-checked only:

- all liveness: `SleeperWakes`, `BeginOpWakes`, `RequestReturns`, `EverythingFinishes`, `EverythingSent`;
- `OutputIsMeaning` of `Shell`: parser, programs and meaning are recursive operators
  (`ShParse`, `Programs`, `Shell`), out of the prover's reach;
- `PagesPartition`, `ImageExact` and `NoPanic` of `Memory`: its calls are folds over the pages
  of a range and over page tables, so that what they do needs induction over data;
- `DiskConsistent`, `TableExact`, `NoCircularWait` and `NoPanic` of `Fs`: they rest on what `Inode`
  computes of a whole disk, with folds over entries, and on the tree that directories
  form; `TableExact` is moreover a sum over the processes, which is a fold. `NoPanic` also holds only for tables large enough for what the processes have
  open (`iget()` panics otherwise), a bound that `param.h` does not give.

## Not modelled

- Boot, timer set-up and assembly (`main.c`, `start.c`, `entry.S`, `trampoline.S`,
  `kernelvec.S`, `swtch.S`): straight-line initialisation and register saving. The
  modules start from the state it leaves, and a switch is one step.
- The kernel's own page table, and `copyin()`/`copyinstr()` beyond their failing; page
  faults and traps in the kernel.
- Memory ordering: locks and `__sync_synchronize()` are taken at their word.
- Argument fetching of `syscall.c`, formatted output (`printf.c` of the kernel, most of the
  user's), `string.c`, `ulib.c`: data without control that a property would be about.
- `umalloc.c`: a sequential library over `sbrk()`, whose effect on memory is in `Memory`.
- `mkfs`: its sizes, root directory and bitmap are in `Inode` and `Log`; how it packs
  blocks into an image file is not.
- `cd`, scripts and the prompt of the shell; `init.c`; the other user programs
  (`usertests.c`, `grind.c`, `ui.c`, `ls.c`, ...), which are tests and
  applications, read for what they say of the kernel.
