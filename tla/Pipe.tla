--------------------------------- MODULE Pipe ---------------------------------
(***************************************************************************)
(* kernel/pipe.c.  A process is in a system call sys[p] (Nil: in user      *)
(* mode).  pipewrite() and piperead() move one byte per step under         *)
(* pi->lock, so that a kill() can fall between any two of them; sleep()    *)
(* releases the lock and sleeps in one step (SleepLock shows that no       *)
(* wakeup falls in between).  nread and nwrite count modulo WRAP, 2^32 in  *)
(* the code.                                                               *)
(***************************************************************************)
EXTENDS Integers, Sequences, FiniteSets

CONSTANTS
  Proc,       \* processes
  Pipes,      \* pages a pipe can live in
  PIPESIZE,   \* bytes a pipe holds
  WRAP,       \* the counters' modulus
  Nil         \* null pointer; in a buffer: an address that is not mapped

Byte == 0 .. 255

PipeStruct ==
  [data : [0 .. PIPESIZE - 1 -> Byte \cup {Nil}], nread : 0 .. WRAP - 1, nwrite : 0 .. WRAP - 1,
   readopen : BOOLEAN, writeopen : BOOLEAN]

(* A system call c that has come as far as piperead() or pipewrite(). *)
InPipe(c) ==
  \/ c \in [op : {"piperead"}, pi : Pipes, n : Int, room : Int, got : Seq(Byte \cup {Nil}), copy : BOOLEAN]
  \/ c \in [op : {"pipewrite"}, pi : Pipes, bytes : Seq(Byte \cup {Nil}), n : Int]

ASSUME PipeAssumption ==
  /\ PIPESIZE \in Nat \ {0} /\ WRAP \in Nat
  /\ WRAP % PIPESIZE = 0 /\ WRAP > PIPESIZE
  /\ Nil \notin Proc /\ Nil \notin Pipes /\ Nil \notin Pipes \X {"nread", "nwrite"}
  /\ Nil \notin PipeStruct /\ ~ InPipe(Nil)

VARIABLES
  pipe,       \* struct pipe in each page, Nil when the page is free
  plock,      \* holder of pi->lock
  chan,       \* the channel p sleeps on: <<pi, "nread">>, <<pi, "nwrite">> or Nil
  killed,     \* p->killed
  sys,        \* the system call p is in
  ret,        \* what p's last system call returned
  buf         \* the bytes p's last read() delivered

pipeVars == <<pipe, plock, chan>>
procVars == <<killed, sys, ret, buf>>

NewPipe == [data |-> [j \in 0 .. PIPESIZE - 1 |-> Nil], nread |-> 0, nwrite |-> 0,
            readopen |-> TRUE, writeopen |-> TRUE]

(* wakeup(c) *)
Wakeup(c) == [q \in Proc |-> IF chan[q] = c THEN Nil ELSE chan[q]]

(* The system call of p returns r. *)
Return(p, r) ==
  /\ sys' = [sys EXCEPT ![p] = Nil]
  /\ ret' = [ret EXCEPT ![p] = r]

InSys(p, op) == sys[p] # Nil /\ sys[p].op = op /\ chan[p] = Nil

(* p runs under the pipe's lock: it has it, or nobody does. *)
Locked(p, pi) == plock[pi] \in {Nil, p}
Lock(p, pi) == plock' = [plock EXCEPT ![pi] = p]
Unlock(pi) == plock' = [plock EXCEPT ![pi] = Nil]

-----------------------------------------------------------------------------
(* pipeclose(): wakes the other side; the page is freed with the second end. *)
PipeClose(p, pi, writable) ==
  /\ Locked(p, pi)
  /\ LET q == IF writable THEN [pipe[pi] EXCEPT !.writeopen = FALSE]
                          ELSE [pipe[pi] EXCEPT !.readopen = FALSE]
     IN pipe' = [pipe EXCEPT ![pi] = IF q.readopen \/ q.writeopen THEN q ELSE Nil]
  /\ chan' = Wakeup(<<pi, IF writable THEN "nread" ELSE "nwrite">>)
  /\ UNCHANGED plock

Full(pi) == pipe[pi].nwrite = (pipe[pi].nread + PIPESIZE) % WRAP
Empty(pi) == pipe[pi].nread = pipe[pi].nwrite

(* pipewrite(): sys[p] has the bytes that are left and their number n. *)
PipeWriteFail(p) ==
  LET pi == sys[p].pi IN
  /\ InSys(p, "pipewrite") /\ Locked(p, pi)
  /\ sys[p].bytes # <<>>
  /\ ~ pipe[pi].readopen \/ killed[p]
  /\ Unlock(pi)
  /\ Return(p, -1)
  /\ UNCHANGED <<pipe, chan, killed, buf>>

PipeWriteSleep(p) ==
  LET pi == sys[p].pi IN
  /\ InSys(p, "pipewrite") /\ Locked(p, pi)
  /\ sys[p].bytes # <<>> /\ pipe[pi].readopen /\ ~ killed[p]
  /\ Full(pi)
  /\ chan' = [Wakeup(<<pi, "nread">>) EXCEPT ![p] = <<pi, "nwrite">>]
  /\ Unlock(pi)
  /\ UNCHANGED <<pipe, sys, ret, buf>>

PipeWriteByte(p) ==
  LET pi == sys[p].pi
      w == pipe[pi].nwrite
  IN
  /\ InSys(p, "pipewrite") /\ Locked(p, pi)
  /\ sys[p].bytes # <<>> /\ pipe[pi].readopen /\ ~ killed[p]
  /\ ~ Full(pi)
  /\ Head(sys[p].bytes) # Nil
  /\ pipe' = [pipe EXCEPT ![pi] = [pipe[pi] EXCEPT !.data[w % PIPESIZE] = Head(sys[p].bytes),
                                                   !.nwrite = (w + 1) % WRAP]]
  /\ sys' = [sys EXCEPT ![p].bytes = Tail(@)]
  /\ Lock(p, pi)
  /\ UNCHANGED <<chan, killed, ret, buf>>

(* All bytes are written, or copyin() failed. *)
PipeWriteDone(p) ==
  LET pi == sys[p].pi
      left == sys[p].bytes
  IN
  /\ InSys(p, "pipewrite") /\ Locked(p, pi)
  /\ \/ left = <<>>
     \/ left # <<>> /\ Head(left) = Nil /\ pipe[pi].readopen /\ ~ killed[p] /\ ~ Full(pi)
  /\ chan' = Wakeup(<<pi, "nread">>)
  /\ Unlock(pi)
  /\ Return(p, sys[p].n - Len(left))
  /\ UNCHANGED <<pipe, killed, buf>>

-----------------------------------------------------------------------------
(* piperead(): sys[p] has n, the number of mapped bytes room, the bytes got, *)
(* and whether the copy loop was entered.                                    *)
Waiting(p) == ~ sys[p].copy /\ Empty(sys[p].pi) /\ pipe[sys[p].pi].writeopen

PipeReadKilled(p) ==
  LET pi == sys[p].pi IN
  /\ InSys(p, "piperead") /\ Locked(p, pi)
  /\ Waiting(p) /\ killed[p]
  /\ Unlock(pi)
  /\ Return(p, -1)
  /\ UNCHANGED <<pipe, chan, killed, buf>>

PipeReadSleep(p) ==
  LET pi == sys[p].pi IN
  /\ InSys(p, "piperead") /\ Locked(p, pi)
  /\ Waiting(p) /\ ~ killed[p]
  /\ chan' = [chan EXCEPT ![p] = <<pi, "nread">>]
  /\ Unlock(pi)
  /\ UNCHANGED <<pipe, sys, ret, buf>>

Copying(p) == ~ Waiting(p) /\ Len(sys[p].got) < sys[p].n /\ ~ Empty(sys[p].pi)

PipeReadByte(p) ==
  LET pi == sys[p].pi
      r == pipe[pi].nread
  IN
  /\ InSys(p, "piperead") /\ Locked(p, pi)
  /\ Copying(p) /\ Len(sys[p].got) < sys[p].room
  /\ pipe' = [pipe EXCEPT ![pi].nread = (r + 1) % WRAP]
  /\ sys' = [sys EXCEPT ![p] = [sys[p] EXCEPT !.got = Append(@, pipe[pi].data[r % PIPESIZE]),
                                              !.copy = TRUE]]
  /\ Lock(p, pi)
  /\ UNCHANGED <<chan, killed, ret, buf>>

(* Mutation: piperead() does not wake the writers. *)
PipeReadDoneSilent(p) ==
  LET pi == sys[p].pi IN
  /\ InSys(p, "piperead") /\ Locked(p, pi)
  /\ ~ Waiting(p) /\ (Copying(p) => Len(sys[p].got) = sys[p].room)
  /\ pipe' = IF Copying(p) THEN [pipe EXCEPT ![pi].nread = (@ + 1) % WRAP] ELSE pipe
  /\ Unlock(pi)
  /\ buf' = [buf EXCEPT ![p] = sys[p].got]
  /\ Return(p, Len(sys[p].got))
  /\ UNCHANGED <<killed, chan>>

(* n bytes, or no more, or copyout() failed: the byte it failed for is gone. *)
PipeReadDone(p) ==
  LET pi == sys[p].pi IN
  /\ InSys(p, "piperead") /\ Locked(p, pi)
  /\ ~ Waiting(p) /\ (Copying(p) => Len(sys[p].got) = sys[p].room)
  /\ pipe' = IF Copying(p) THEN [pipe EXCEPT ![pi].nread = (@ + 1) % WRAP] ELSE pipe
  /\ chan' = Wakeup(<<pi, "nwrite">>)
  /\ Unlock(pi)
  /\ buf' = [buf EXCEPT ![p] = sys[p].got]
  /\ Return(p, Len(sys[p].got))
  /\ UNCHANGED killed

(* The steps to sleep() leave p->killed open: a kill() that falls between    *)
(* the caller's test of it and sleep() is lost on the sleeper.               *)
PipeSleep(p) == PipeWriteSleep(p) \/ PipeReadSleep(p)

PipeStep(p) ==
  \/ PipeWriteFail(p) \/ PipeWriteByte(p) \/ PipeWriteDone(p)
  \/ PipeReadKilled(p) \/ PipeReadByte(p) \/ PipeReadDone(p)
  \/ PipeSleep(p) /\ UNCHANGED killed

==============================================================================
