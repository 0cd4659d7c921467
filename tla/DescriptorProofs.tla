--------------------------- MODULE DescriptorProofs ---------------------------
(***************************************************************************)
(* The inductive invariant of Tasks, and that it is kept by the calls that *)
(* work on descriptors, by user mode, exit(), wait() and kill().           *)
(* TasksProofs goes on with fork() and the pipes.                          *)
(***************************************************************************)
EXTENDS Tasks, FiniteSetTheorems, WellFoundedInduction, TLAPS

(* The types of what the argument is about: a process is in user mode, in a  *)
(* system call as it was made, or in one that has come as far as a pipe.     *)
SysInv ==
  /\ sys = [p \in Proc |-> sys[p]]
  /\ \A p \in Proc : sys[p] # Nil => UserCall(sys[p]) \/ InPipe(sys[p]) \/ Closing(sys[p])
TypeInv ==
  /\ pipe \in [Pipes -> PipeStruct \cup {Nil}] /\ plock \in [Pipes -> Proc \cup {Nil}]
  /\ chan \in [Proc -> (Pipes \X {"nread", "nwrite"}) \cup {Nil}]
  /\ file \in [Ftable -> FileStruct] /\ ofile \in [Proc -> [Fd -> Ftable \cup {Nil}]]
  /\ state \in [Proc -> {"unused", "run", "zombie"}]
  /\ killed \in [Proc -> BOOLEAN] /\ kills \in Nat
(* An ordinary file has an inode with contents. *)
ContentInv ==
  /\ content \in [Name -> Seq(Byte \cup {Nil})]
  /\ \A f \in Ftable : file[f].type = "inode" => file[f].ip \in Name

(* A process that does not run has no descriptors and is in no call. *)
IdleInv == \A p \in Proc : state[p] # "run" => sys[p] = Nil /\ \A fd \in Fd : ofile[p][fd] = Nil

(* f->ref counts the descriptors for f. *)
Holders(f) == {x \in Proc \X Fd : ofile[x[1]][x[2]] = f}
CountInv == \A f \in Ftable : file[f].ref = Cardinality(Holders(f))

(* File f is the end w (TRUE: to write) of pi; process p is about to close   *)
(* that end.                                                                 *)
IsEnd(f, pi, w) == file[f].ref > 0 /\ file[f].type = "pipe" /\ file[f].pipe = pi /\ file[f].writable = w
Drops(p, pi, w) == sys[p] # Nil /\ sys[p].op = "pipeclose" /\ sys[p].pi = pi /\ sys[p].writable = w

(* An end of a pipe is in one place, and open exactly while it is. *)
OneEnd(pi, w) ==
  /\ \A f, g \in Ftable : IsEnd(f, pi, w) /\ IsEnd(g, pi, w) => f = g
  /\ \A p, q \in Proc : Drops(p, pi, w) /\ Drops(q, pi, w) => p = q
  /\ \A f \in Ftable, p \in Proc : ~ (IsEnd(f, pi, w) /\ Drops(p, pi, w))
PageInv(pi) ==
  IF pipe[pi] = Nil THEN ~ EndOpen(pi, TRUE) /\ ~ EndOpen(pi, FALSE)
                    ELSE pipe[pi].writeopen = EndOpen(pi, TRUE) /\ pipe[pi].readopen = EndOpen(pi, FALSE)
FileInv(f) ==
  file[f].ref > 0 => /\ file[f].type # "none"
                     /\ file[f].type = "pipe" => file[f].pipe \in Pipes /\ file[f].readable = ~ file[f].writable
EndInv ==
  /\ \A pi \in Pipes : PageInv(pi) /\ OneEnd(pi, TRUE) /\ OneEnd(pi, FALSE)
  /\ \A f \in Ftable : FileInv(f)

(* p is in piperead() or pipewrite() of pi: it has the end it works on. *)
Reads(p, pi) == sys[p] # Nil /\ sys[p].op = "piperead" /\ sys[p].pi = pi
Writes(p, pi) == sys[p] # Nil /\ sys[p].op = "pipewrite" /\ sys[p].pi = pi
HasEnd(p, pi, w) == \E fd \in Fd : ofile[p][fd] \in Ftable /\ IsEnd(ofile[p][fd], pi, w)
UserInv ==
  \A p \in Proc, pi \in Pipes : (Reads(p, pi) => HasEnd(p, pi, FALSE)) /\ (Writes(p, pi) => HasEnd(p, pi, TRUE))

(* Who has pi->lock between two steps is in the loop of piperead() or        *)
(* pipewrite(), awake; a reader there has copied a byte.  Who sleeps is in   *)
(* one of the two as well, and a reader has copied nothing yet.              *)
LockInv ==
  /\ \A pi \in Pipes, p \in Proc : plock[pi] = p =>
       chan[p] = Nil /\ (Writes(p, pi) \/ (Reads(p, pi) /\ sys[p].copy))
  /\ \A p \in Proc, pi \in Pipes :
       /\ chan[p] = <<pi, "nread">> => Reads(p, pi) /\ ~ sys[p].copy
       /\ chan[p] = <<pi, "nwrite">> => Writes(p, pi)

(* Why a reader or a writer sleeps, while nobody has the lock and nobody was *)
(* killed; who has the lock has found the pipe neither empty as a reader nor *)
(* full as a writer, so that nobody sleeps on its side.                      *)
Asleep(pi, c) == \E p \in Proc : chan[p] = <<pi, c>>
ReasonInv(pi) ==
  /\ plock[pi] = Nil /\ Asleep(pi, "nread") => Empty(pi) /\ pipe[pi].writeopen
  /\ plock[pi] = Nil /\ Asleep(pi, "nwrite") => Full(pi) /\ pipe[pi].readopen
  /\ \A p \in Proc : plock[pi] = p /\ Reads(p, pi) => ~ Asleep(pi, "nread")
  /\ \A p \in Proc : plock[pi] = p /\ Writes(p, pi) => ~ Asleep(pi, "nwrite") /\ pipe[pi].readopen
SleepInv ==
  kills = 0 => (\A p \in Proc : ~ killed[p]) /\ \A pi \in Pipes : ReasonInv(pi)

(* What concerns the single process and file, and what concerns pipes. *)
Types == SysInv /\ TypeInv /\ ContentInv /\ IdleInv
PipeParts == CountInv /\ EndInv /\ UserInv /\ LockInv /\ SleepInv
IInv == Types /\ PipeParts
(* Most leaves are reasoning about sets; the ones that are not say so. *)
USE ZenonT(60)

-----------------------------------------------------------------------------
(* The least number of a set, which filealloc(), fdalloc() and allocproc()   *)
(* find, is in the set.                                                      *)
LEMMA LeastIn == ASSUME NEW S \in SUBSET Nat, S # {} PROVE Least(S) \in S
<1> DEFINE R == OpToRel(<, Nat)
<1>1. PICK x \in S : \A y \in S : ~ (<<y, x>> \in R)
  <2>1. IsWellFoundedOn(R, Nat)
    BY NatLessThanWellFounded
  <2> HIDE DEF R
  <2> QED
    BY <2>1, WFMin
<1>2. \A y \in S : ~ (y < x)
  BY <1>1 DEF OpToRel
<1>3. \A y \in S : x <= y
  BY <1>2, SMTT(30)
<1> QED
  BY <1>3 DEF Least

(* A system call is the record its op says. *)
Shaped(c) ==
  /\ c.op \in {"dup", "close"} => c \in [op : {"dup", "close"}, fd : Int]
  /\ c.op = "open" => c \in [op : {"open"}, ip : Inodes, omode : SUBSET {"rdonly", "wronly", "rdwr", "create", "trunc"}]
  /\ c.op = "read" => c \in [op : {"read"}, fd : Int, n : Int, room : Int]
  /\ c.op = "write" => c \in [op : {"write"}, fd : Int, bytes : Seq(Byte \cup {Nil}), n : Int]
  /\ c.op = "lseek" => c \in [op : {"lseek"}, fd : Int, offset : Int, whence : {"set", "cur", "end", "other"}]
  /\ c.op = "piperead" =>
       c \in [op : {"piperead"}, pi : Pipes, n : Int, room : Int, got : Seq(Byte \cup {Nil}), copy : BOOLEAN]
  /\ c.op = "pipewrite" => c \in [op : {"pipewrite"}, pi : Pipes, bytes : Seq(Byte \cup {Nil}), n : Int]
  /\ c.op = "pipeclose" => Closing(c)

(* What argint(), argaddr() and the way to a pipe leave in sys[p] has the    *)
(* fields its op calls for.                                                  *)
LEMMA Shapes ==
  ASSUME NEW c, UserCall(c) \/ InPipe(c) \/ Closing(c)
  PROVE  Shaped(c)
<1>1. CASE UserCall(c)
  BY <1>1, SMTT(30) DEF UserCall, FileCall, Shaped
<1>2. CASE InPipe(c)
  BY <1>2, SMTT(30) DEF InPipe, Shaped
<1>3. CASE Closing(c)
  BY <1>3, SMTT(30) DEF Closing, Shaped
<1> QED
  BY <1>1, <1>2, <1>3

(* A call as the user makes it is not one that has come to a pipe. *)
Plain(c) == c = Nil \/ c.op \notin {"pipeclose", "piperead", "pipewrite"}

(* A system call as syscall() finds it has not come to a pipe. *)
LEMMA UserCallPlain == ASSUME NEW c, UserCall(c) PROVE c # Nil /\ Plain(c)
<1>1. c # Nil
  BY TasksAssumption
<1>2. c.op \notin {"pipeclose", "piperead", "pipewrite"}
  BY SMTT(30) DEF UserCall, FileCall
<1> QED
  BY <1>1, <1>2 DEF Plain

(* Finitely many descriptors refer to a file. *)
LEMMA HoldersFinite == ASSUME NEW f PROVE IsFiniteSet(Holders(f)) /\ Cardinality(Holders(f)) \in Nat
<1>1. IsFiniteSet(Fd)
  BY FS_Interval, FileAssumption, SMTT(30) DEF Fd
<1>2. IsFiniteSet(Proc \X Fd)
  BY <1>1, TasksAssumption, FS_Product
<1>3. IsFiniteSet(Holders(f))
  BY <1>2, FS_Subset DEF Holders
<1> QED
  BY <1>3, FS_CardinalityType

(* Offsets are numbers. *)
LEMMA ModUINT == \A a \in Int : a % UINT \in Nat
BY FileAssumption, SMTT(30)

(* ... and so is an offset moved by r. *)
LEMMA ModSum == \A a \in Nat, r \in Int : (a + r) % UINT \in Nat
BY FileAssumption, SMTT(30)

(* A file with a reference has more than none. *)
LEMMA Positive == \A n \in Nat : n >= 1 => n > 0
BY SMTT(30)

(* filedup() leaves a file with a reference. *)
LEMMA OneMore == \A n \in Nat : n + 1 > 0
BY SMTT(30)

(* fork() adds references to the files that have some already. *)
LEMMA SumPositive == \A m, n \in Nat : (m = 0 => n = 0) => (m + n > 0 <=> m > 0)
BY SMTT(30)

(* The counters of a pipe stay below WRAP and index its data. *)
LEMMA Wraps ==
  \A w \in 0 .. WRAP - 1 : w % PIPESIZE \in 0 .. PIPESIZE - 1 /\ (w + 1) % WRAP \in 0 .. WRAP - 1
BY PipeAssumption, SMTT(30)

(* piperead() appends to the bytes it got, pipewrite() drops the first. *)
LEMMA SeqIn ==
  ASSUME NEW S, NEW s \in Seq(S)
  PROVE  (\A x \in S : Append(s, x) \in Seq(S)) /\ (s # <<>> => Head(s) \in S /\ Tail(s) \in Seq(S))
BY SMTT(30)

-----------------------------------------------------------------------------
(* Counting descriptors.  A file without references has no descriptor. *)
LEMMA NoHolders ==
  ASSUME CountInv, NEW f \in Ftable, file[f].ref = 0
  PROVE  Holders(f) = {}
BY HoldersFinite, FS_EmptySet DEF CountInv

(* A descriptor's file has a reference, and two if another descriptor has it *)
(* too.                                                                      *)
LEMMA HeldTwice ==
  ASSUME CountInv, NEW f \in Ftable,
         NEW p \in Proc, NEW fd \in Fd, ofile[p][fd] = f
  PROVE  /\ file[f].ref >= 1
         /\ \A q \in Proc, d \in Fd : ofile[q][d] = f /\ <<q, d>> # <<p, fd>> => file[f].ref # 1
<1>1. <<p, fd>> \in Holders(f)
  BY DEF Holders
<1>2. Cardinality(Holders(f)) # 0
  BY <1>1, HoldersFinite, FS_EmptySet
<1>3. file[f].ref >= 1
  BY <1>2, HoldersFinite, SMTT(30) DEF CountInv
<1>4. ASSUME NEW q \in Proc, NEW d \in Fd, ofile[q][d] = f, <<q, d>> # <<p, fd>>
      PROVE  file[f].ref # 1
  <2>1. <<q, d>> \in Holders(f)
    BY <1>4 DEF Holders
  <2>2. ASSUME NEW x, Holders(f) = {x} PROVE FALSE
    <3>1. <<p, fd>> = x
      BY <1>1, <2>2
    <3>2. <<q, d>> = x
      BY <2>1, <2>2
    <3> QED
      BY <1>4, <3>1, <3>2
  <2> QED
    BY <2>2, HoldersFinite, FS_Singleton DEF CountInv
<1> QED
  BY <1>3, <1>4

(* One more descriptor. *)
LEMMA AddHolder ==
  ASSUME NEW p \in Proc, NEW fd \in Fd, NEW f \in Ftable, ofile[p][fd] # f,
         \A q \in Proc, d \in Fd : ofile'[q][d] = f <=> (ofile[q][d] = f \/ <<q, d>> = <<p, fd>>)
  PROVE  Cardinality(Holders(f)') = Cardinality(Holders(f)) + 1
<1>1. Holders(f)' = Holders(f) \cup {<<p, fd>>}
  <2>1. ASSUME NEW x \in Proc \X Fd PROVE x \in Holders(f)' <=> x \in Holders(f) \cup {<<p, fd>>}
    <3>1. PICK q \in Proc, d \in Fd : x = <<q, d>>
      BY SMTT(30)
    <3>2. x[1] = q /\ x[2] = d
      BY <3>1
    <3>3. x \in Holders(f)' <=> ofile'[q][d] = f
      BY <3>1, <3>2 DEF Holders
    <3>4. x \in Holders(f) <=> ofile[q][d] = f
      BY <3>1, <3>2 DEF Holders
    <3> QED
      BY <3>1, <3>3, <3>4
  <2>2. Holders(f)' \subseteq Proc \X Fd /\ Holders(f) \subseteq Proc \X Fd
    BY DEF Holders
  <2>3. <<p, fd>> \in Proc \X Fd
    OBVIOUS
  <2> QED
    BY <2>1, <2>2, <2>3
<1>2. <<p, fd>> \notin Holders(f)
  BY DEF Holders
<1> QED
  BY <1>1, <1>2, HoldersFinite, FS_AddElement

(* One less. *)
LEMMA DropHolder ==
  ASSUME NEW p \in Proc, NEW fd \in Fd, NEW f \in Ftable, ofile[p][fd] = f,
         \A q \in Proc, d \in Fd : ofile'[q][d] = f <=> (ofile[q][d] = f /\ <<q, d>> # <<p, fd>>)
  PROVE  Cardinality(Holders(f)') = Cardinality(Holders(f)) - 1
<1>1. Holders(f)' = Holders(f) \ {<<p, fd>>}
  <2>1. ASSUME NEW x \in Proc \X Fd PROVE x \in Holders(f)' <=> x \in Holders(f) \ {<<p, fd>>}
    <3>1. PICK q \in Proc, d \in Fd : x = <<q, d>>
      BY SMTT(30)
    <3>2. x[1] = q /\ x[2] = d
      BY <3>1
    <3>3. x \in Holders(f)' <=> ofile'[q][d] = f
      BY <3>1, <3>2 DEF Holders
    <3>4. x \in Holders(f) <=> ofile[q][d] = f
      BY <3>1, <3>2 DEF Holders
    <3> QED
      BY <3>1, <3>3, <3>4
  <2>2. Holders(f)' \subseteq Proc \X Fd /\ Holders(f) \subseteq Proc \X Fd
    BY DEF Holders
  <2>3. <<p, fd>> \in Proc \X Fd
    OBVIOUS
  <2> QED
    BY <2>1, <2>2, <2>3
<1>2. <<p, fd>> \in Holders(f)
  BY DEF Holders
<1> QED
  BY <1>1, <1>2, HoldersFinite, FS_RemoveElement

(* The descriptors for the other files stay. *)
LEMMA SameHolders ==
  ASSUME NEW f, \A q \in Proc, d \in Fd : ofile'[q][d] = f <=> ofile[q][d] = f
  PROVE  Holders(f)' = Holders(f)
BY DEF Holders

(* fork() copies the descriptors of p to q, which has none. *)
LEMMA CopyHolders ==
  ASSUME NEW p \in Proc, NEW q \in Proc, NEW f \in Ftable, p # q,
         \A d \in Fd : ofile[q][d] # f,
         \A x \in Proc, d \in Fd : ofile'[x][d] = IF x = q THEN ofile[p][d] ELSE ofile[x][d]
  PROVE  Cardinality(Holders(f)') = Cardinality(Holders(f)) + Cardinality({fd \in Fd : ofile[p][fd] = f})
<1> DEFINE S == {fd \in Fd : ofile[p][fd] = f}
           T == {q} \X S
<1>1. Holders(f)' = Holders(f) \cup T
  BY DEF Holders
<1>2. Holders(f) \cap T = {}
  BY DEF Holders
<1>3. IsFiniteSet(S) /\ Cardinality(S) \in Nat
  <2>1. IsFiniteSet(Fd)
    BY FS_Interval, FileAssumption, SMTT(30) DEF Fd
  <2> QED
    BY <2>1, FS_Subset, FS_CardinalityType
<1>4. IsFiniteSet(T) /\ Cardinality(T) = Cardinality(S)
  <2>1. IsFiniteSet({q}) /\ Cardinality({q}) = 1
    BY FS_Singleton
  <2>2. IsFiniteSet(T) /\ Cardinality(T) = Cardinality({q}) * Cardinality(S)
    BY <1>3, <2>1, FS_Product
  <2> QED
    BY <1>3, <2>1, <2>2, SMTT(30)
<1>5. Cardinality(Holders(f)') = Cardinality(Holders(f)) + Cardinality(T) - Cardinality({})
  <2> HIDE DEF T
  <2>1. \A A, B : IsFiniteSet(A) /\ IsFiniteSet(B) =>
          Cardinality(A \cup B) = Cardinality(A) + Cardinality(B) - Cardinality(A \cap B)
    BY FS_Union
  <2>2. Cardinality(Holders(f) \cup T) = Cardinality(Holders(f)) + Cardinality(T) - Cardinality(Holders(f) \cap T)
    BY <2>1, <1>4, HoldersFinite
  <2> QED
    BY <1>1, <1>2, <2>2
<1>6. Cardinality({}) = 0
  BY FS_EmptySet
<1>7. Cardinality(Holders(f)) \in Nat
  BY HoldersFinite
<1> HIDE DEF S, T
<1>8. Cardinality(Holders(f)') = Cardinality(Holders(f)) + Cardinality(S)
  BY <1>3, <1>4, <1>5, <1>6, <1>7, SMTT(30)
<1> QED
  BY <1>8 DEF S

(* A step that leaves descriptors and references. *)
LEMMA CountFrame ==
  ASSUME CountInv, ofile' = ofile, \A f \in Ftable : file'[f].ref = file[f].ref
  PROVE  CountInv'
<1>1. \A f : Holders(f)' = Holders(f)
  BY DEF Holders
<1> QED
  BY <1>1 DEF CountInv

-----------------------------------------------------------------------------
(* Frames: what a step has to leave for a part of the invariant to stay. *)
SameEnds ==
  \A f \in Ftable : /\ file'[f].ref = file[f].ref /\ file'[f].type = file[f].type /\ file'[f].pipe = file[f].pipe
                    /\ file'[f].readable = file[f].readable /\ file'[f].writable = file[f].writable
SameDrops == \A p \in Proc, pi \in Pipes, w \in BOOLEAN : Drops(p, pi, w)' <=> Drops(p, pi, w)
SameFlags ==
  \A pi \in Pipes : /\ pipe'[pi] = Nil <=> pipe[pi] = Nil
                    /\ pipe[pi] # Nil => /\ pipe'[pi].readopen = pipe[pi].readopen
                                         /\ pipe'[pi].writeopen = pipe[pi].writeopen
SameLoops ==
  \A p \in Proc, pi \in Pipes :
    /\ Reads(p, pi)' <=> Reads(p, pi)
    /\ Writes(p, pi)' <=> Writes(p, pi)
    /\ Reads(p, pi) => sys'[p].copy = sys[p].copy

(* A step between calls that have not come to a pipe. *)
PlainStep == \A q \in Proc : sys'[q] = sys[q] \/ (Plain(sys[q]) /\ Plain(sys'[q]))

(* A plain step closes no end of a pipe and is in no pipe's loop. *)
LEMMA PlainFrame == ASSUME PlainStep PROVE SameDrops /\ SameLoops
<1>1. SameDrops
  BY DEF PlainStep, Plain, SameDrops, Drops
<1>2. SameLoops
  BY DEF PlainStep, Plain, SameLoops, Reads, Writes
<1> QED
  BY <1>1, <1>2

(* EndOpen() in the words of this module. *)
LEMMA EndOpenDef ==
  ASSUME NEW pi, NEW w
  PROVE  /\ EndOpen(pi, w) <=> (\E f \in Ftable : IsEnd(f, pi, w)) \/ (\E p \in Proc : Drops(p, pi, w))
         /\ EndOpen(pi, w)' <=> (\E f \in Ftable : IsEnd(f, pi, w)') \/ (\E p \in Proc : Drops(p, pi, w)')
BY DEF EndOpen, IsEnd, Drops

(* Files with the same type, pipe and count are the same ends. *)
LEMMA SameIsEnd ==
  ASSUME SameEnds, NEW f \in Ftable, NEW pi, NEW w
  PROVE  IsEnd(f, pi, w)' <=> IsEnd(f, pi, w)
BY DEF SameEnds, IsEnd

SameIsEnds == \A f \in Ftable, pi \in Pipes, w \in BOOLEAN : IsEnd(f, pi, w)' <=> IsEnd(f, pi, w)

(* The ends stay, whatever else becomes of the files. *)
LEMMA EndFrame ==
  ASSUME EndInv, SameIsEnds, SameDrops, SameFlags, \A f \in Ftable : FileInv(f)'
  PROVE  EndInv'
<1>0. ASSUME NEW f \in Ftable, NEW pi \in Pipes, NEW w \in BOOLEAN PROVE IsEnd(f, pi, w)' <=> IsEnd(f, pi, w)
  BY DEF SameIsEnds
<1>1. ASSUME NEW pi \in Pipes, NEW w \in BOOLEAN PROVE EndOpen(pi, w)' = EndOpen(pi, w)
  <2>1. EndOpen(pi, w)' <=> EndOpen(pi, w)
    BY <1>0, EndOpenDef DEF SameDrops
  <2> QED
    BY <2>1 DEF EndOpen
<1>2. ASSUME NEW pi \in Pipes PROVE PageInv(pi)'
  <2>1. EndOpen(pi, TRUE)' = EndOpen(pi, TRUE) /\ EndOpen(pi, FALSE)' = EndOpen(pi, FALSE)
    BY <1>1
  <2>2. PageInv(pi)
    BY DEF EndInv
  <2> QED
    BY <2>1, <2>2 DEF PageInv, SameFlags
<1>3. ASSUME NEW pi \in Pipes, NEW w \in BOOLEAN, OneEnd(pi, w) PROVE OneEnd(pi, w)'
  BY <1>0, <1>3 DEF OneEnd, SameDrops
<1> QED
  BY <1>2, <1>3 DEF EndInv

(* ... and stay in order when they are. *)
LEMMA SameFiles ==
  ASSUME EndInv, SameEnds
  PROVE  SameIsEnds /\ \A f \in Ftable : FileInv(f)'
<1>1. SameIsEnds
  BY SameIsEnd DEF SameIsEnds
<1>2. ASSUME NEW f \in Ftable PROVE FileInv(f)'
  BY DEF SameEnds, EndInv, FileInv
<1> QED
  BY <1>1, <1>2

(* Who is in piperead() or pipewrite() keeps the end it works on. *)
LEMMA UserFrame ==
  ASSUME UserInv,
         \A p \in Proc, pi \in Pipes : (Reads(p, pi)' => Reads(p, pi)) /\ (Writes(p, pi)' => Writes(p, pi)),
         \A p \in Proc, pi \in Pipes, w \in BOOLEAN :
           (Reads(p, pi) \/ Writes(p, pi)) /\ HasEnd(p, pi, w) => HasEnd(p, pi, w)'
  PROVE  UserInv'
BY DEF UserInv

(* ... which it does when no descriptor and no end changes. *)
LEMMA SameHasEnd ==
  ASSUME SameEnds, ofile' = ofile, NEW p \in Proc, NEW pi, NEW w, HasEnd(p, pi, w)
  PROVE  HasEnd(p, pi, w)'
BY SameIsEnd DEF HasEnd

(* The lock and the sleepers stay when the loops do. *)
LEMMA LockFrame ==
  ASSUME LockInv, SameLoops, plock' = plock, chan' = chan
  PROVE  LockInv'
BY DEF LockInv, SameLoops

(* A channel is not null. *)
LEMMA NilChan == ASSUME NEW pi \in Pipes, NEW c \in {"nread", "nwrite"} PROVE <<pi, c>> # Nil
<1>1. <<pi, c>> \in Pipes \X {"nread", "nwrite"}
  OBVIOUS
<1> QED
  BY <1>1, PipeAssumption

(* wakeup() and kill() only take processes off their channels. *)
LEMMA LockWake ==
  ASSUME LockInv, SameLoops, plock' = plock, \A q \in Proc : chan'[q] = chan[q] \/ chan'[q] = Nil
  PROVE  LockInv'
<1>1. ASSUME NEW q \in Proc, NEW pi \in Pipes, NEW c \in {"nread", "nwrite"}, chan'[q] = <<pi, c>>
      PROVE  chan[q] = <<pi, c>>
  BY <1>1, NilChan
<1> QED
  BY <1>1 DEF LockInv, SameLoops

(* The reasons to sleep stay while the pipes do. *)
LEMMA SleepFrame ==
  ASSUME SleepInv, SameLoops, UNCHANGED <<pipe, plock, chan, kills>>,
         \A p \in Proc : killed'[p] => killed[p]
  PROVE  SleepInv'
<1>1. ASSUME NEW pi \in Pipes, ReasonInv(pi) PROVE ReasonInv(pi)'
  BY <1>1 DEF ReasonInv, SameLoops, Asleep, Empty, Full
<1> QED
  BY <1>1 DEF SleepInv

(* All of them, for a step between plain calls that moves no descriptor. *)
LEMMA PlainKeeps ==
  ASSUME PipeParts, PlainStep, SameEnds, ofile' = ofile, UNCHANGED <<pipe, plock, chan, kills>>,
         \A p \in Proc : killed'[p] => killed[p]
  PROVE  PipeParts'
<1>1. CountInv'
  BY CountFrame DEF PipeParts, SameEnds
<1>2. SameDrops /\ SameLoops
  BY PlainFrame
<1>3. EndInv'
  <2>1. SameFlags
    BY DEF SameFlags
  <2> QED
    BY <1>2, <2>1, EndFrame, SameFiles DEF PipeParts
<1>4. UserInv'
  <2>1. \A p \in Proc, pi \in Pipes : (Reads(p, pi)' => Reads(p, pi)) /\ (Writes(p, pi)' => Writes(p, pi))
    BY <1>2 DEF SameLoops
  <2> QED
    BY <2>1, SameHasEnd, UserFrame DEF PipeParts
<1>5. LockInv' /\ SleepInv'
  BY <1>2, LockFrame, SleepFrame DEF PipeParts
<1> QED
  BY <1>1, <1>3, <1>4, <1>5 DEF PipeParts

-----------------------------------------------------------------------------
(* One process goes on to x in its system call. *)
Known(x) == UserCall(x) \/ InPipe(x) \/ Closing(x)

(* Setting one process's call leaves the calls of the others. *)
LEMMA SysSet ==
  ASSUME SysInv, NEW p \in Proc, NEW x, x # Nil => Known(x), sys' = [sys EXCEPT ![p] = x]
  PROVE  SysInv' /\ sys'[p] = x /\ \A q \in Proc : q # p => sys'[q] = sys[q]
<1>1. sys = [q \in Proc |-> sys[q]]
  BY DEF SysInv
<1>2. sys' = [q \in Proc |-> IF q = p THEN x ELSE sys[q]]
  BY <1>1
<1>3. sys'[p] = x /\ \A q \in Proc : q # p => sys'[q] = sys[q]
  BY <1>2
<1>4. sys' = [q \in Proc |-> sys'[q]]
  BY <1>2
<1> QED
  BY <1>3, <1>4 DEF SysInv, Known

(* User mode is plain. *)
LEMMA NilPlain == Plain(Nil)
BY DEF Plain

(* One process goes from a plain call to another. *)
LEMMA PlainSet ==
  ASSUME SysInv, NEW p \in Proc, NEW x, Plain(x), Plain(sys[p]), x # Nil => Known(x), sys' = [sys EXCEPT ![p] = x]
  PROVE  PlainStep
BY SysSet DEF PlainStep

(* A process in a system call runs. *)
LEMMA InSysRuns ==
  ASSUME Types, NEW p \in Proc, sys[p] # Nil
  PROVE  state[p] = "run"
BY DEF Types, IdleInv

(* The call of a process in a system call has its fields. *)
LEMMA InSysShape ==
  ASSUME Types, NEW p \in Proc, sys[p] # Nil
  PROVE  Shaped(sys[p])
BY Shapes DEF Types, SysInv

(* The types stay when only running processes' calls change. *)
LEMMA TypesFrame ==
  ASSUME Types, SysInv', UNCHANGED <<pipe, plock, chan, killed, kills, content, file, ofile, state>>,
         NEW p \in Proc, state[p] = "run", \A q \in Proc : q # p => sys'[q] = sys[q]
  PROVE  Types'
<1>1. TypeInv' /\ ContentInv'
  BY DEF Types, TypeInv, ContentInv
<1>2. IdleInv'
  BY DEF Types, IdleInv
<1> QED
  BY <1>1, <1>2 DEF Types

(* A step of one process from a plain call to another that touches nothing   *)
(* else of interest.                                                         *)
LEMMA PlainSysKeeps ==
  ASSUME IInv, NEW p \in Proc, NEW x, Plain(x), x # Nil => Known(x), Plain(sys[p]), state[p] = "run",
         sys' = [sys EXCEPT ![p] = x],
         UNCHANGED <<pipe, plock, chan, killed, kills, content, file, ofile, state>>
  PROVE  IInv'
<1>1. SysInv /\ Types /\ PipeParts
  BY DEF IInv, Types
<1>2. SysInv' /\ \A q \in Proc : q # p => sys'[q] = sys[q]
  BY <1>1, SysSet
<1>3. Types'
  BY <1>1, <1>2, TypesFrame
<1>4. PlainStep
  BY <1>1, PlainSet
<1>5. SameEnds
  BY DEF SameEnds
<1>6. PipeParts'
  BY <1>1, <1>4, <1>5, PlainKeeps
<1> QED
  BY <1>3, <1>6 DEF IInv

-----------------------------------------------------------------------------
(* User mode goes on to any system call. *)
LEMMA UserStepKeeps == ASSUME IInv, NEW p \in Proc, UserStep(p) PROVE IInv'
<1>1. PICK next : UserCall(next.call) /\ sys' = [sys EXCEPT ![p] = next.call]
  BY DEF UserStep
<1>2. Plain(next.call) /\ Known(next.call)
  BY <1>1, UserCallPlain DEF Known
<1>3. Plain(sys[p]) /\ state[p] = "run"
  BY NilPlain DEF UserStep
<1>4. UNCHANGED <<pipe, plock, chan, killed, kills, content, file, ofile, state>>
  BY DEF UserStep, pipeVars, fileVars
<1> HIDE DEF IInv
<1> QED
  BY <1>1, <1>2, <1>3, <1>4, PlainSysKeeps

(* A call that returns with nothing done. *)
LEMMA ReturnKeeps ==
  ASSUME IInv, NEW p \in Proc, NEW r, Return(p, r), sys[p] # Nil, Plain(sys[p]),
         UNCHANGED <<pipe, plock, chan, killed, kills, content, file, ofile, state>>
  PROVE  IInv'
<1>1. sys' = [sys EXCEPT ![p] = Nil]
  BY DEF Return
<1>2. state[p] = "run"
  BY InSysRuns DEF IInv
<1> QED
  BY <1>1, <1>2, NilPlain, PlainSysKeeps

(* wait() reaps a zombie, which has no descriptors. *)
LEMMA SysWaitKeeps == ASSUME IInv, NEW p \in Proc, SysWait(p) PROVE IInv'
<1>1. sys[p] # Nil /\ sys[p].op = "wait" /\ sys' = [sys EXCEPT ![p] = Nil]
  BY DEF SysWait, InSys, Return
<1>2. Types /\ SysInv /\ TypeInv /\ IdleInv /\ PipeParts
  BY DEF IInv, Types
<1>3. SysInv' /\ sys'[p] = Nil /\ \A q \in Proc : q # p => sys'[q] = sys[q]
  BY <1>1, <1>2, SysSet
<1>4. UNCHANGED <<pipe, plock, chan, killed, kills, content, file, ofile>>
  BY DEF SysWait, pipeVars, fileVars
<1>5. state' = state \/ \E q \in Proc : state[q] = "zombie" /\ state' = [state EXCEPT ![q] = "unused"]
  BY DEF SysWait
<1>6. state' \in [Proc -> {"unused", "run", "zombie"}] /\ \A q \in Proc : state'[q] # "run" => state[q] # "run"
  BY <1>2, <1>5 DEF TypeInv
<1>7. TypeInv' /\ ContentInv'
  BY <1>2, <1>4, <1>6 DEF TypeInv, ContentInv, Types
<1>8. IdleInv'
  BY <1>2, <1>3, <1>4, <1>6 DEF IdleInv
<1>9. PipeParts'
  <2>1. Plain(sys[p])
    BY <1>1 DEF Plain
  <2>2. PlainStep
    BY <1>1, <1>2, <2>1, NilPlain, PlainSet
  <2>3. SameEnds
    BY <1>4 DEF SameEnds
  <2> QED
    BY <1>2, <1>4, <2>2, <2>3, PlainKeeps
<1> QED
  BY <1>3, <1>7, <1>8, <1>9 DEF IInv, Types

(* exit() leaves a process without descriptors. *)
LEMMA ExitDoneKeeps == ASSUME IInv, NEW p \in Proc, ExitDone(p) PROVE IInv'
<1>1. sys[p] # Nil /\ sys[p].op = "exit" /\ sys' = [sys EXCEPT ![p] = Nil] /\ \A fd \in Fd : ofile[p][fd] = Nil
  BY DEF ExitDone, InSys
<1>2. Types /\ SysInv /\ TypeInv /\ IdleInv /\ PipeParts
  BY DEF IInv, Types
<1>3. SysInv' /\ sys'[p] = Nil /\ \A q \in Proc : q # p => sys'[q] = sys[q]
  BY <1>1, <1>2, SysSet
<1>4. UNCHANGED <<pipe, plock, chan, killed, kills, content, file, ofile>>
  BY DEF ExitDone, pipeVars
<1>5. /\ state' = [q \in Proc |-> state'[q]]
      /\ \A q \in Proc : state'[q] \in {"unused", "run", "zombie"}
      /\ \A q \in Proc : state'[q] # "run" => q = p \/ state[q] # "run"
  <2>1. state' = [q \in Proc |-> CASE q = p -> IF parent[p] = Nil THEN "unused" ELSE "zombie"
                                   [] parent[q] = p /\ state[q] = "zombie" -> "unused"
                                   [] OTHER -> state[q]]
    BY DEF ExitDone
  <2> QED
    BY <1>2, <2>1, SMTT(30) DEF TypeInv
<1>6. state' \in [Proc -> {"unused", "run", "zombie"}]
  BY <1>5
<1>7. TypeInv' /\ ContentInv'
  BY <1>2, <1>4, <1>6 DEF TypeInv, ContentInv, Types
<1>8. IdleInv'
  BY <1>1, <1>2, <1>3, <1>4, <1>5 DEF IdleInv
<1>9. PipeParts'
  <2>1. Plain(sys[p])
    BY <1>1 DEF Plain
  <2>2. PlainStep
    BY <1>1, <1>2, <2>1, NilPlain, PlainSet
  <2>3. SameEnds
    BY <1>4 DEF SameEnds
  <2> QED
    BY <1>2, <1>4, <2>2, <2>3, PlainKeeps
<1> QED
  BY <1>3, <1>7, <1>8, <1>9 DEF IInv, Types

(* A process that a kill() has woken is nobody's reason. *)
LEMMA KillKeeps == ASSUME IInv, NEW p \in Proc, Kill(p) PROVE IInv'
<1>1. /\ UNCHANGED <<pipe, plock, sys, file, ofile, content, state>>
      /\ killed' = [killed EXCEPT ![p] = TRUE] /\ chan' = [chan EXCEPT ![p] = Nil] /\ kills' = kills + 1
  BY DEF Kill, fileVars, treeVars
<1>2. SysInv /\ TypeInv /\ ContentInv /\ IdleInv /\ CountInv /\ EndInv /\ UserInv /\ LockInv
  BY DEF IInv, Types, PipeParts
<1>3. SysInv' /\ ContentInv' /\ IdleInv'
  BY <1>1, <1>2 DEF SysInv, ContentInv, IdleInv, UserCall, FileCall, InPipe, Closing
<1>4. TypeInv'
  <2>1. kills' \in Nat
    BY <1>1, <1>2, SMTT(30) DEF TypeInv
  <2> QED
    BY <1>1, <1>2, <2>1 DEF TypeInv
<1>5. SameEnds /\ SameFlags /\ SameDrops /\ SameLoops
  <2>1. SameEnds
    BY <1>1 DEF SameEnds
  <2>2. SameFlags
    BY <1>1 DEF SameFlags
  <2>3. PlainStep
    BY <1>1 DEF PlainStep
  <2> QED
    BY <2>1, <2>2, <2>3, PlainFrame
<1>6. CountInv' /\ EndInv'
  BY <1>1, <1>2, <1>5, CountFrame, EndFrame, SameFiles DEF SameEnds
<1>7. UserInv'
  BY <1>1, <1>2, <1>5, SameHasEnd, UserFrame DEF SameLoops
<1>8. LockInv'
  <2>1. \A q \in Proc : chan'[q] = IF q = p THEN Nil ELSE chan[q]
    BY <1>1, <1>2 DEF TypeInv
  <2> QED
    BY <1>1, <1>2, <1>5, <2>1, LockWake
<1>9. SleepInv'
  <2>1. kills' # 0
    BY <1>1, <1>2, SMTT(30) DEF TypeInv
  <2> QED
    BY <2>1 DEF SleepInv
<1> QED
  BY <1>3, <1>4, <1>6, <1>7, <1>8, <1>9 DEF IInv, Types, PipeParts

-----------------------------------------------------------------------------
(* argfd(): a descriptor's file has a reference and a type. *)
LEMMA ArgFile ==
  ASSUME IInv, NEW p \in Proc, ArgOk(p)
  PROVE  LET f == ofile[p][sys[p].fd] IN
         f \in Ftable /\ sys[p].fd \in Fd /\ file[f].ref >= 1 /\ file[f].type \in {"pipe", "inode", "device"}
<1> DEFINE f == ofile[p][sys[p].fd]
<1>1. sys[p].fd \in Fd /\ f \in Ftable
  <2>1. sys[p].fd \in Fd /\ f # Nil
    BY DEF ArgOk
  <2>2. ofile \in [Proc -> [Fd -> Ftable \cup {Nil}]]
    BY DEF IInv, Types, TypeInv
  <2>3. f \in Ftable \cup {Nil}
    BY <2>1, <2>2
  <2> QED
    BY <2>1, <2>3
<1>2. file[f].ref >= 1
  BY <1>1, HeldTwice DEF IInv, PipeParts
<1>3. file[f] \in FileStruct
  BY <1>1 DEF IInv, Types, TypeInv
<1>4. file[f].ref > 0
  BY <1>2, <1>3, SMTT(30) DEF FileStruct
<1>5. file[f].type # "none"
  BY <1>1, <1>4 DEF IInv, PipeParts, EndInv, FileInv
<1>6. file[f].type \in {"none", "pipe", "inode", "device"}
  BY <1>3 DEF FileStruct
<1> QED
  BY <1>1, <1>2, <1>5, <1>6

(* A new offset leaves a file what it is. *)
LEMMA OffSet ==
  ASSUME TypeInv, NEW g \in Ftable, NEW x \in Nat, file' = [file EXCEPT ![g].off = x]
  PROVE  file' \in [Ftable -> FileStruct] /\ SameEnds /\ \A f \in Ftable : file'[f].ip = file[f].ip
<1>1. file \in [Ftable -> FileStruct]
  BY DEF TypeInv
<1>2. [file[g] EXCEPT !.off = x] \in FileStruct
  BY <1>1, SMTT(30) DEF FileStruct
<1>3. ASSUME NEW f \in Ftable
      PROVE  /\ file'[f] \in FileStruct /\ file'[f].ip = file[f].ip
             /\ file'[f].ref = file[f].ref /\ file'[f].type = file[f].type /\ file'[f].pipe = file[f].pipe
             /\ file'[f].readable = file[f].readable /\ file'[f].writable = file[f].writable
  BY <1>1, <1>2, SMTT(30) DEF FileStruct
<1>4. file' \in [Ftable -> FileStruct]
  BY <1>1, <1>2
<1> QED
  BY <1>3, <1>4 DEF SameEnds

(* A read(), write() or lseek() of a file or a device, one step. *)
LEMMA DataKeeps ==
  ASSUME IInv, NEW p \in Proc, NEW x, Plain(x), x # Nil => Known(x), Plain(sys[p]), sys[p] # Nil,
         sys' = [sys EXCEPT ![p] = x], UNCHANGED <<pipe, plock, chan, killed, kills, ofile, state>>,
         content' \in [Name -> Seq(Byte \cup {Nil})],
         file' = file \/ \E g \in Ftable, o \in Nat : file' = [file EXCEPT ![g].off = o]
  PROVE  IInv'
<1>1. SysInv /\ Types /\ TypeInv /\ ContentInv /\ IdleInv /\ PipeParts
  BY DEF IInv, Types
<1>2. SysInv' /\ sys'[p] = x /\ \A q \in Proc : q # p => sys'[q] = sys[q]
  BY <1>1, SysSet
<1>3. file' \in [Ftable -> FileStruct] /\ SameEnds /\ \A f \in Ftable : file'[f].ip = file[f].ip
  <2>1. CASE file' = file
    BY <1>1, <2>1 DEF TypeInv, SameEnds
  <2>2. CASE \E g \in Ftable, o \in Nat : file' = [file EXCEPT ![g].off = o]
    BY <1>1, <2>2, OffSet
  <2> QED
    BY <2>1, <2>2
<1>4. TypeInv'
  BY <1>1, <1>3 DEF TypeInv
<1>5. ContentInv'
  BY <1>1, <1>3 DEF ContentInv, SameEnds
<1>6. IdleInv'
  <2>1. state[p] = "run"
    BY <1>1, InSysRuns
  <2> QED
    BY <1>1, <1>2, <2>1 DEF IdleInv
<1>7. PipeParts'
  <2>1. PlainStep
    BY <1>1, PlainSet
  <2> QED
    BY <1>1, <1>3, <2>1, PlainKeeps
<1> QED
  BY <1>2, <1>4, <1>5, <1>6, <1>7 DEF IInv, Types

(* lseek() sets the offset to a number. *)
LEMMA SysLseekKeeps == ASSUME IInv, NEW p \in Proc, SysLseek(p), UNCHANGED <<kills, state>> PROVE IInv'
<1>1. sys[p] # Nil /\ sys[p].op = "lseek" /\ Plain(sys[p])
  BY DEF SysLseek, InSys, Plain
<1>2. UNCHANGED <<pipe, plock, chan, killed, ofile, content>>
  BY DEF SysLseek, Stay, pipeVars
<1>3. CASE ~ ArgOk(p)
  <2>1. Return(p, -1) /\ file' = file
    BY <1>3 DEF SysLseek
  <2> QED
    BY <1>1, <1>2, <2>1, ReturnKeeps
<1>4. CASE ArgOk(p)
  <2> DEFINE f == FileOf(p)
             size == IF f.ip = Console THEN 0 ELSE Len(content[f.ip])
             o == sys[p].offset
             to == CASE sys[p].whence = "set" -> IF o < 0 \/ o > size THEN -1 ELSE o
                     [] sys[p].whence = "cur" -> IF (f.off + o) % UINT > size THEN -1
                                                 ELSE (f.off + o) % UINT
                     [] sys[p].whence = "end" -> IF o > 0 THEN -1 ELSE (size + o) % UINT
                     [] OTHER -> -1
  <2>1. sys' = [sys EXCEPT ![p] = Nil] /\ file' = IF to = -1 THEN file ELSE [file EXCEPT ![ofile[p][sys[p].fd]].off = to]
    BY <1>4 DEF SysLseek, Return
  <2>2. ofile[p][sys[p].fd] \in Ftable
    BY <1>4, ArgFile
  <2>3. f \in FileStruct /\ f.ip # Nil
    BY <1>4, <2>2 DEF IInv, Types, TypeInv, FileOf, SysLseek
  <2>4. f.off \in Nat /\ f.ip \in Inodes
    BY <2>3 DEF FileStruct
  <2>5. size \in Nat
    <3>1. content[f.ip] \in Seq(Byte \cup {Nil}) \/ f.ip = Console
      BY <2>4 DEF Inodes, IInv, Types, ContentInv
    <3>2. \A c \in Seq(Byte \cup {Nil}) : Len(c) \in Nat
      BY SMTT(30)
    <3> QED
      BY <3>1, <3>2, SMTT(30)
  <2>6. o \in Int
    BY <1>1, InSysShape DEF IInv, Shaped
  <2>7. to # -1 => to \in Nat
    <3> HIDE DEF f, size, o
    <3>1. (f.off + o) % UINT \in Nat /\ (size + o) % UINT \in Nat
      BY <2>4, <2>5, <2>6, ModUINT, SMTT(30)
    <3> QED
      BY <2>4, <2>5, <2>6, <3>1, SMTT(30)
  <2> HIDE DEF to
  <2>8. file' = file \/ \E g \in Ftable, x \in Nat : file' = [file EXCEPT ![g].off = x]
    BY <2>1, <2>2, <2>7
  <2>9. content' \in [Name -> Seq(Byte \cup {Nil})]
    BY <1>2 DEF IInv, Types, ContentInv
  <2> QED
    BY <1>1, <1>2, <2>1, <2>8, <2>9, NilPlain, DataKeeps
<1> QED
  BY <1>3, <1>4

(* A call goes on in the loop of a pipe it has an end of. *)
LEMMA EnterKeeps ==
  ASSUME IInv, NEW p \in Proc, NEW x, InPipe(x), Plain(sys[p]), sys[p] # Nil, chan[p] = Nil,
         sys' = [sys EXCEPT ![p] = x],
         UNCHANGED <<pipe, plock, chan, killed, kills, content, file, ofile, state>>,
         HasEnd(p, x.pi, x.op = "pipewrite")
  PROVE  IInv'
<1>1. SysInv /\ Types /\ CountInv /\ EndInv /\ UserInv /\ LockInv /\ SleepInv
  BY DEF IInv, Types, PipeParts
<1>2. x # Nil /\ Known(x)
  BY PipeAssumption DEF Known
<1>3. SysInv' /\ sys'[p] = x /\ \A q \in Proc : q # p => sys'[q] = sys[q]
  BY <1>1, <1>2, SysSet
<1>4. Types'
  BY <1>1, <1>3, InSysRuns, TypesFrame
<1>5. x.op \in {"piperead", "pipewrite"} /\ x.pi \in Pipes
  BY SMTT(30) DEF InPipe
<1>6. \A pi \in Pipes : ~ Reads(p, pi) /\ ~ Writes(p, pi)
  BY DEF Plain, Reads, Writes
<1>7. ASSUME NEW q \in Proc, NEW pi \in Pipes, q # p
      PROVE  /\ Reads(q, pi)' <=> Reads(q, pi)
             /\ Writes(q, pi)' <=> Writes(q, pi)
             /\ sys'[q].copy = sys[q].copy
  BY <1>3, <1>7 DEF Reads, Writes
<1>8. SameEnds /\ SameFlags
  BY DEF SameEnds, SameFlags
<1>9. SameDrops
  BY <1>3, <1>5 DEF SameDrops, Drops, Plain
<1>10. CountInv' /\ EndInv'
  BY <1>1, <1>8, <1>9, CountFrame, EndFrame, SameFiles DEF SameEnds
<1>11. UserInv'
  <2>1. ASSUME NEW q \in Proc, NEW pi \in Pipes, q # p
        PROVE  (Reads(q, pi)' => HasEnd(q, pi, FALSE)') /\ (Writes(q, pi)' => HasEnd(q, pi, TRUE)')
    <3>1. (Reads(q, pi)' => Reads(q, pi)) /\ (Writes(q, pi)' => Writes(q, pi))
      BY <1>7, <2>1
    <3>2. (Reads(q, pi) => HasEnd(q, pi, FALSE)) /\ (Writes(q, pi) => HasEnd(q, pi, TRUE))
      BY <1>1 DEF UserInv
    <3>3. (HasEnd(q, pi, FALSE) => HasEnd(q, pi, FALSE)') /\ (HasEnd(q, pi, TRUE) => HasEnd(q, pi, TRUE)')
      BY <1>8, SameHasEnd
    <3> QED
      BY <3>1, <3>2, <3>3
  <2>2. ASSUME NEW pi \in Pipes
        PROVE  (Reads(p, pi)' => HasEnd(p, pi, FALSE)') /\ (Writes(p, pi)' => HasEnd(p, pi, TRUE)')
    <3>1. CASE Reads(p, pi)'
      <4>1. x.pi = pi /\ x.op = "piperead"
        BY <1>3, <3>1 DEF Reads
      <4>2. (x.op = "pipewrite") = FALSE
        BY <4>1
      <4>3. HasEnd(p, pi, FALSE)
        BY <4>1, <4>2
      <4>4. ~ Writes(p, pi)'
        BY <1>3, <4>1 DEF Writes
      <4> QED
        BY <1>8, <4>3, <4>4, SameHasEnd
    <3>2. CASE Writes(p, pi)'
      <4>1. x.pi = pi /\ x.op = "pipewrite"
        BY <1>3, <3>2 DEF Writes
      <4>2. (x.op = "pipewrite") = TRUE
        BY <4>1
      <4>3. HasEnd(p, pi, TRUE)
        BY <4>1, <4>2
      <4>4. ~ Reads(p, pi)'
        BY <1>3, <4>1 DEF Reads
      <4> QED
        BY <1>8, <4>3, <4>4, SameHasEnd
    <3> QED
      BY <3>1, <3>2
  <2> QED
    BY <2>1, <2>2 DEF UserInv
<1>12. \A pi \in Pipes : plock[pi] # p /\ chan[p] # <<pi, "nread">> /\ chan[p] # <<pi, "nwrite">>
  BY <1>1, <1>6, NilChan DEF LockInv
<1>13. LockInv'
  <2>1. ASSUME NEW pi \in Pipes, NEW q \in Proc, plock'[pi] = q
        PROVE  chan'[q] = Nil /\ (Writes(q, pi)' \/ (Reads(q, pi)' /\ sys'[q].copy))
    <3>1. q # p /\ plock[pi] = q
      BY <1>12, <2>1
    <3> QED
      BY <1>1, <1>7, <3>1 DEF LockInv
  <2>2. ASSUME NEW pi \in Pipes, NEW q \in Proc
        PROVE  /\ chan'[q] = <<pi, "nread">> => Reads(q, pi)' /\ ~ sys'[q].copy
               /\ chan'[q] = <<pi, "nwrite">> => Writes(q, pi)'
    <3>1. CASE q = p
      BY <1>12, <3>1
    <3>2. CASE q # p
      BY <1>1, <1>7, <3>2 DEF LockInv
    <3> QED
      BY <3>1, <3>2
  <2> QED
    BY <2>1, <2>2 DEF LockInv
<1>14. SleepInv'
  <2>1. ASSUME NEW pi \in Pipes, ReasonInv(pi) PROVE ReasonInv(pi)'
    <3>1. \A c : Asleep(pi, c)' <=> Asleep(pi, c)
      BY DEF Asleep
    <3>2. \A q \in Proc : plock'[pi] = q => plock[pi] = q /\ q # p
      BY <1>12
    <3>3. \A q \in Proc : plock'[pi] = q /\ Reads(q, pi)' => plock[pi] = q /\ Reads(q, pi)
      BY <1>7, <3>2
    <3>4. \A q \in Proc : plock'[pi] = q /\ Writes(q, pi)' => plock[pi] = q /\ Writes(q, pi)
      BY <1>7, <3>2
    <3> QED
      BY <2>1, <3>1, <3>3, <3>4 DEF ReasonInv, Empty, Full
  <2> QED
    BY <1>1, <2>1 DEF SleepInv
<1> QED
  BY <1>4, <1>10, <1>11, <1>13, <1>14 DEF IInv, PipeParts

(* read() of a file, of a device, and the start of piperead(). *)
LEMMA SysReadKeeps == ASSUME IInv, NEW p \in Proc, SysRead(p), UNCHANGED <<kills, state>> PROVE IInv'
<1>1. sys[p] # Nil /\ sys[p].op = "read" /\ Plain(sys[p]) /\ chan[p] = Nil
  BY DEF SysRead, InSys, Plain
<1>2. UNCHANGED <<pipe, plock, chan, killed, ofile, content>>
  BY DEF SysRead, pipeVars
<1>3. CASE ~ ArgOk(p) \/ Denied(FileOf(p), "r") \/ ~ FileOf(p).readable
  <2>1. Return(p, -1) /\ file' = file
    BY <1>3 DEF SysRead
  <2> QED
    BY <1>1, <1>2, <2>1, ReturnKeeps
<1>4. CASE ~ (~ ArgOk(p) \/ Denied(FileOf(p), "r") \/ ~ FileOf(p).readable)
  <2> DEFINE g == ofile[p][sys[p].fd]
             f == FileOf(p)
  <2>1. g \in Ftable /\ sys[p].fd \in Fd /\ file[g].ref >= 1 /\ f.type \in {"pipe", "inode", "device"} /\ f = file[g]
    BY <1>4, ArgFile DEF FileOf
  <2>2. f \in FileStruct
    BY <2>1 DEF IInv, Types, TypeInv
  <2>3. sys[p].n \in Int /\ sys[p].room \in Int
    BY <1>1, InSysShape DEF IInv, Shaped
  <2>4. CASE f.type = "pipe"
    <3> DEFINE x == [op |-> "piperead", pi |-> f.pipe, n |-> sys[p].n, room |-> sys[p].room, got |-> <<>>, copy |-> FALSE]
    <3>1. sys' = [sys EXCEPT ![p] = x] /\ file' = file
      BY <1>4, <2>4 DEF SysRead
    <3>2. file[g].ref > 0
      BY <2>1, <2>2, Positive DEF FileStruct
    <3>3. f.pipe \in Pipes /\ f.readable = ~ f.writable
      BY <2>1, <2>4, <3>2 DEF IInv, PipeParts, EndInv, FileInv
    <3>4. InPipe(x)
      <4>1. x \in [op : {"piperead"}, pi : Pipes, n : Int, room : Int, got : Seq(Byte \cup {Nil}), copy : BOOLEAN]
        BY <2>3, <3>3, SMTT(30)
      <4> QED
        BY <4>1 DEF InPipe
    <3>5. f.writable = FALSE
      BY <1>4, <2>2, <3>3 DEF FileStruct
    <3>6. x.pi = f.pipe /\ (x.op = "pipewrite") = FALSE
      OBVIOUS
    <3>7. HasEnd(p, x.pi, x.op = "pipewrite")
      BY <2>1, <2>4, <3>2, <3>5, <3>6 DEF HasEnd, IsEnd
    <3> HIDE DEF x
    <3> QED
      BY <1>1, <1>2, <3>1, <3>4, <3>7, EnterKeeps
  <2>5. CASE f.type = "device"
    <3>1. Return(p, 0) /\ file' = file
      BY <1>4, <2>5 DEF SysRead
    <3> QED
      BY <1>1, <1>2, <3>1, ReturnKeeps
  <2>6. CASE f.type = "inode"
    <3> DEFINE size == Len(content[f.ip])
               n == sys[p].n % UINT
               r == IF f.off > size \/ (f.off + n) % UINT < f.off THEN 0
                    ELSE IF f.off + n > size THEN size - f.off ELSE n
    <3>1. /\ sys' = [sys EXCEPT ![p] = Nil]
          /\ file' = IF r <= sys[p].room THEN [file EXCEPT ![g].off = (@ + r) % UINT] ELSE file
      BY <1>4, <2>6 DEF SysRead, Return
    <3>2. f.ip \in Name /\ content \in [Name -> Seq(Byte \cup {Nil})]
      BY <2>1, <2>6 DEF IInv, Types, ContentInv
    <3>3. size \in Nat
      BY <3>2, SMTT(30)
    <3>4. f.off \in Nat
      BY <2>2 DEF FileStruct
    <3>5. r \in Int
      <4>1. n \in Nat
        BY <2>3, ModUINT
      <4> HIDE DEF size, f, n
      <4> QED
        BY <3>3, <3>4, <4>1, SMTT(30)
    <3> HIDE DEF r
    <3>6. file' = file \/ file' = [file EXCEPT ![g].off = (file[g].off + r) % UINT]
      BY <2>1, <3>1
    <3>7. (file[g].off + r) % UINT \in Nat
      BY <2>1, <3>4, <3>5, ModSum
    <3>8. content' \in [Name -> Seq(Byte \cup {Nil})]
      BY <1>2, <3>2
    <3> QED
      BY <1>1, <1>2, <2>1, <3>1, <3>6, <3>7, <3>8, NilPlain, DataKeeps
  <2> QED
    BY <2>1, <2>4, <2>5, <2>6
<1> QED
  BY <1>3, <1>4

(* A part of a sequence. *)
LEMMA SubSeqIn ==
  ASSUME NEW S, NEW c \in Seq(S), NEW a \in Int, NEW b \in Int, a >= 1, b <= Len(c)
  PROVE  SubSeq(c, a, b) \in Seq(S)
BY SMTT(30)

(* What writei() leaves is contents again. *)
LEMMA StoredIn ==
  ASSUME NEW S, NEW c \in Seq(S), NEW bytes \in Seq(S), NEW off \in Nat, off <= Len(c)
  PROVE  Stored(c, off, bytes) \in Seq(S)
<1>1. Len(c) \in Nat /\ Len(bytes) \in Nat
  BY SMTT(30)
<1>2. SubSeq(c, 1, off) \in Seq(S)
  BY <1>1, SubSeqIn, SMTT(30)
<1>3. SubSeq(c, off + Len(bytes) + 1, Len(c)) \in Seq(S)
  <2> DEFINE a == off + Len(bytes) + 1
  <2>1. a \in Int /\ a >= 1 /\ Len(c) \in Int /\ Len(c) <= Len(c)
    BY <1>1, SMTT(30)
  <2> HIDE DEF a
  <2>2. SubSeq(c, a, Len(c)) \in Seq(S)
    BY <2>1, SubSeqIn
  <2> QED
    BY <2>2 DEF a
<1>4. \A u, v \in Seq(S) : u \o v \in Seq(S)
  BY SMTT(30)
<1> QED
  BY <1>2, <1>3, <1>4 DEF Stored

(* write() to a file, to a device, and the start of pipewrite(). *)
LEMMA SysWriteKeeps == ASSUME IInv, NEW p \in Proc, SysWrite(p), UNCHANGED <<kills, state>> PROVE IInv'
<1>1. sys[p] # Nil /\ sys[p].op = "write" /\ Plain(sys[p]) /\ chan[p] = Nil
  BY DEF SysWrite, InSys, Plain
<1>2. UNCHANGED <<pipe, plock, chan, killed, ofile>>
  BY DEF SysWrite, Stay, pipeVars
<1>3. CASE ~ ArgOk(p) \/ Denied(FileOf(p), "w") \/ ~ FileOf(p).writable
  <2>1. Return(p, -1) /\ file' = file /\ content' = content
    BY <1>3 DEF SysWrite
  <2> QED
    BY <1>1, <1>2, <2>1, ReturnKeeps
<1>4. CASE ~ (~ ArgOk(p) \/ Denied(FileOf(p), "w") \/ ~ FileOf(p).writable)
  <2> DEFINE g == ofile[p][sys[p].fd]
             f == FileOf(p)
             bytes == sys[p].bytes
  <2>1. g \in Ftable /\ sys[p].fd \in Fd /\ file[g].ref >= 1 /\ f.type \in {"pipe", "inode", "device"} /\ f = file[g]
    BY <1>4, ArgFile DEF FileOf
  <2>2. f \in FileStruct
    BY <2>1 DEF IInv, Types, TypeInv
  <2>3. sys[p] \in [op : {"write"}, fd : Int, bytes : Seq(Byte \cup {Nil}), n : Int]
    BY <1>1, InSysShape DEF IInv, Shaped
  <2>4. sys[p].n \in Int /\ bytes \in Seq(Byte \cup {Nil})
    BY <2>3
  <2>5. CASE f.type = "pipe"
    <3> DEFINE x == [op |-> "pipewrite", pi |-> f.pipe, bytes |-> bytes, n |-> sys[p].n]
    <3>1. sys' = [sys EXCEPT ![p] = x] /\ file' = file /\ content' = content
      BY <1>4, <2>5 DEF SysWrite
    <3>2. file[g].ref > 0
      BY <2>1, <2>2, Positive DEF FileStruct
    <3>3. f.pipe \in Pipes
      BY <2>1, <2>5, <3>2 DEF IInv, PipeParts, EndInv, FileInv
    <3>4. InPipe(x)
      <4>1. x \in [op : {"pipewrite"}, pi : Pipes, bytes : Seq(Byte \cup {Nil}), n : Int]
        BY <2>4, <3>3
      <4> QED
        BY <4>1 DEF InPipe
    <3>5. f.writable = TRUE
      BY <1>4, <2>2 DEF FileStruct
    <3>6. x.pi = f.pipe /\ (x.op = "pipewrite") = TRUE
      OBVIOUS
    <3>7. HasEnd(p, x.pi, x.op = "pipewrite")
      BY <2>1, <2>5, <3>2, <3>5, <3>6 DEF HasEnd, IsEnd
    <3> HIDE DEF x
    <3> QED
      BY <1>1, <1>2, <3>1, <3>4, <3>7, EnterKeeps
  <2>6. CASE f.type = "device"
    <3>1. PICK k : Return(p, k) /\ file' = file /\ content' = content
      BY <1>4, <2>6 DEF SysWrite
    <3> QED
      BY <1>1, <1>2, <3>1, ReturnKeeps
  <2>7. CASE f.type = "inode" /\ bytes = <<>>
    <3>1. Return(p, sys[p].n) /\ file' = file /\ content' = content
      BY <1>4, <2>7 DEF SysWrite
    <3> QED
      BY <1>1, <1>2, <3>1, ReturnKeeps
  <2>8. CASE f.type = "inode" /\ bytes # <<>>
    <3> DEFINE n1 == IF Len(bytes) > MaxWrite THEN MaxWrite ELSE Len(bytes)
               left == Len(content[f.ip]) - f.off
               ok == left >= 0 /\ f.off + n1 <= MAXFILE
    <3> DEFINE Wrote(w, y) ==
                 /\ IF ok
                      THEN /\ content' = [content EXCEPT ![f.ip] = Stored(@, f.off, SubSeq(bytes, 1, y))]
                           /\ file' = [file EXCEPT ![g].off = (@ + w) % UINT]
                      ELSE UNCHANGED <<file, content>>
                 /\ IF ok /\ w = n1 /\ n1 < Len(bytes)
                      THEN sys' = [sys EXCEPT ![p].bytes = SubSeq(@, n1 + 1, Len(@))]
                      ELSE sys' = [sys EXCEPT ![p] = Nil]
    <3>1. \E k \in 0 .. n1 : \E w \in 0 .. k : \E y \in Seen(w, k, left) : Wrote(w, y)
      BY <1>4, <2>8 DEF SysWrite, Return
    <3>2. PICK k \in 0 .. n1 : \E w \in 0 .. k : \E y \in Seen(w, k, left) : Wrote(w, y)
      BY <3>1
    <3>3. PICK w \in 0 .. k : \E y \in Seen(w, k, left) : Wrote(w, y)
      BY <3>2
    <3>4. PICK y \in Seen(w, k, left) : Wrote(w, y)
      BY <3>3
    <3> DEFINE more == ok /\ w = n1 /\ n1 < Len(bytes)
               x == IF more THEN [sys[p] EXCEPT !.bytes = SubSeq(@, n1 + 1, Len(@))] ELSE Nil
    <3>5. f.ip \in Name /\ content \in [Name -> Seq(Byte \cup {Nil})]
      BY <2>1, <2>8 DEF IInv, Types, ContentInv
    <3>6. f.off \in Nat
      BY <2>2 DEF FileStruct
    <3>7. Len(bytes) \in Nat /\ n1 \in Nat /\ n1 <= Len(bytes)
      <4>1. Len(bytes) \in Nat
        BY <2>4, SMTT(30)
      <4> HIDE DEF bytes
      <4> QED
        BY <4>1, FileAssumption, SMTT(30)
    <3> HIDE DEF n1
    <3>8. Len(content[f.ip]) \in Nat
      BY <3>5, SMTT(30)
    <3>9. k \in Nat /\ w \in Nat /\ w <= k /\ k <= n1
      BY <3>7, SMTT(30)
    <3>10. y \in Int /\ y <= k
      <4>1. left \in Int
        <5> HIDE DEF f
        <5> QED
          BY <3>6, <3>8, SMTT(30)
      <4> HIDE DEF left
      <4>2. y = w \/ ((y = k \/ y = left) /\ y <= k)
        BY <3>4 DEF Seen
      <4> QED
        BY <3>9, <4>1, <4>2, SMTT(30)
    <3>11. SubSeq(bytes, 1, y) \in Seq(Byte \cup {Nil}) /\ SubSeq(bytes, n1 + 1, Len(bytes)) \in Seq(Byte \cup {Nil})
      <4>1. /\ n1 + 1 \in Int /\ n1 + 1 >= 1 /\ 1 \in Int /\ 1 >= 1 /\ y <= Len(bytes)
            /\ Len(bytes) \in Int /\ Len(bytes) <= Len(bytes)
        BY <3>7, <3>9, <3>10, SMTT(30)
      <4> QED
        BY <2>4, <3>7, <3>10, <4>1, SubSeqIn
    <3>12. content' \in [Name -> Seq(Byte \cup {Nil})]
      <4>1. CASE ok
        <5>1. f.off <= Len(content[f.ip])
          <6> HIDE DEF f
          <6> QED
            BY <3>6, <3>8, <4>1, SMTT(30)
        <5>2. Stored(content[f.ip], f.off, SubSeq(bytes, 1, y)) \in Seq(Byte \cup {Nil})
          BY <3>5, <3>6, <3>11, <5>1, StoredIn
        <5> QED
          BY <3>4, <3>5, <4>1, <5>2
      <4>2. CASE ~ ok
        BY <3>4, <3>5, <4>2
      <4> QED
        BY <4>1, <4>2
    <3>13. file' = file \/ \E h \in Ftable, o \in Nat : file' = [file EXCEPT ![h].off = o]
      <4>1. CASE ok
        <5>1. (file[g].off + w) % UINT \in Nat
          <6>1. file[g].off \in Nat
            BY <2>1, <3>6
          <6> HIDE DEF g
          <6>2. file[g].off + w \in Int
            BY <3>9, <6>1, SMTT(30)
          <6> QED
            BY <6>2, ModUINT
        <5>2. file' = [file EXCEPT ![g].off = (file[g].off + w) % UINT]
          BY <2>1, <3>4, <4>1
        <5> QED
          BY <2>1, <5>1, <5>2
      <4> QED
        BY <3>4, <4>1
    <3>14. sys' = [sys EXCEPT ![p] = x]
      BY <3>4
    <3>15. Plain(x) /\ (x # Nil => Known(x))
      <4>1. CASE more
        <5>1. x \in [op : {"write"}, fd : Int, bytes : Seq(Byte \cup {Nil}), n : Int]
          BY <2>3, <3>11, <4>1
        <5>2. UserCall(x)
          BY <5>1 DEF UserCall, FileCall
        <5> QED
          BY <5>2, UserCallPlain DEF Known
      <4>2. CASE ~ more
        BY <4>2, NilPlain
      <4> QED
        BY <4>1, <4>2
    <3> HIDE DEF x
    <3> QED
      BY <1>1, <1>2, <3>12, <3>13, <3>14, <3>15, DataKeeps
  <2> QED
    BY <2>1, <2>5, <2>6, <2>8, <2>7
<1> QED
  BY <1>3, <1>4

-----------------------------------------------------------------------------
(* The other processes' descriptors, p's others, and the files in use stay. *)
KeptFiles ==
  /\ \A f \in Ftable : file[f].ref > 0 =>
       /\ file'[f].ref > 0 /\ file'[f].type = file[f].type /\ file'[f].pipe = file[f].pipe
       /\ file'[f].readable = file[f].readable /\ file'[f].writable = file[f].writable
  /\ \A q \in Proc, d \in Fd : ofile[q][d] # Nil => ofile'[q][d] = ofile[q][d]

(* A new descriptor takes no end from who has one. *)
LEMMA KeptHasEnd ==
  ASSUME KeptFiles, NEW q \in Proc, NEW pi, NEW w, HasEnd(q, pi, w)
  PROVE  HasEnd(q, pi, w)'
<1>1. PICK d \in Fd : ofile[q][d] \in Ftable /\ IsEnd(ofile[q][d], pi, w)
  BY DEF HasEnd
<1>2. ofile[q][d] # Nil
  BY <1>1, FileAssumption
<1>3. ofile'[q][d] = ofile[q][d]
  BY <1>2 DEF KeptFiles
<1>4. IsEnd(ofile[q][d], pi, w)'
  BY <1>1, <1>3 DEF IsEnd, KeptFiles
<1> QED
  BY <1>1, <1>3, <1>4 DEF HasEnd

(* A descriptor more for f. *)
LEMMA CountAdd ==
  ASSUME TypeInv, CountInv, NEW p \in Proc, NEW fd \in Fd, NEW f \in Ftable, ofile[p][fd] = Nil,
         ofile' = [ofile EXCEPT ![p][fd] = f],
         file'[f].ref = file[f].ref + 1, \A g \in Ftable : g # f => file'[g].ref = file[g].ref
  PROVE  CountInv'
<1>0. Nil \notin Ftable
  BY FileAssumption
<1>1. ofile'[p][fd] = f /\ \A q \in Proc, d \in Fd : <<q, d>> # <<p, fd>> => ofile'[q][d] = ofile[q][d]
  BY DEF TypeInv
<1>2. Cardinality(Holders(f)') = Cardinality(Holders(f)) + 1
  <2>1. ofile[p][fd] # f
    BY <1>0
  <2>2. ASSUME NEW q \in Proc, NEW d \in Fd
        PROVE  ofile'[q][d] = f <=> (ofile[q][d] = f \/ <<q, d>> = <<p, fd>>)
    BY <1>1
  <2> QED
    BY <2>1, <2>2, AddHolder
<1>3. ASSUME NEW g \in Ftable, g # f PROVE Holders(g)' = Holders(g)
  <2>1. ASSUME NEW q \in Proc, NEW d \in Fd PROVE ofile'[q][d] = g <=> ofile[q][d] = g
    BY <1>0, <1>1, <1>3
  <2> QED
    BY <2>1, SameHolders
<1>4. file'[f].ref = Cardinality(Holders(f)')
  BY <1>2 DEF CountInv
<1>5. ASSUME NEW g \in Ftable, g # f PROVE file'[g].ref = Cardinality(Holders(g)')
  BY <1>3, <1>5 DEF CountInv
<1> QED
  BY <1>4, <1>5 DEF CountInv

(* dup() and open() give p a descriptor; a file they start to use is no end. *)
LEMMA DescriptorKeeps ==
  ASSUME IInv, NEW p \in Proc, Plain(sys[p]), sys[p] # Nil, sys' = [sys EXCEPT ![p] = Nil],
         UNCHANGED <<pipe, plock, chan, killed, kills, state>>,
         content' \in [Name -> Seq(Byte \cup {Nil})], file' \in [Ftable -> FileStruct],
         \A f \in Ftable : file'[f].type = "inode" => file'[f].ip \in Name,
         ofile' \in [Proc -> [Fd -> Ftable \cup {Nil}]], \A q \in Proc : q # p => ofile'[q] = ofile[q],
         KeptFiles, CountInv',
         \A f \in Ftable : ~ (file[f].ref > 0) /\ file'[f].ref > 0 => file'[f].type \in {"inode", "device"}
  PROVE  IInv'
<1>1. SysInv /\ Types /\ TypeInv /\ IdleInv /\ EndInv /\ UserInv /\ LockInv /\ SleepInv
  BY DEF IInv, Types, PipeParts
<1>2. SysInv' /\ sys'[p] = Nil /\ \A q \in Proc : q # p => sys'[q] = sys[q]
  BY <1>1, SysSet
<1>3. TypeInv' /\ ContentInv'
  BY <1>1 DEF TypeInv, ContentInv
<1>4. IdleInv'
  <2>1. state[p] = "run"
    BY <1>1, InSysRuns
  <2>2. ASSUME NEW q \in Proc, state[q] # "run" PROVE sys'[q] = Nil /\ \A fd \in Fd : ofile'[q][fd] = Nil
    <3>1. sys'[q] = sys[q] /\ ofile'[q] = ofile[q]
      BY <1>2, <2>1, <2>2
    <3> QED
      BY <1>1, <2>2, <3>1 DEF IdleInv
  <2> QED
    BY <2>2 DEF IdleInv
<1>5. SameDrops /\ SameLoops
  BY <1>1, NilPlain, PlainSet, PlainFrame
<1>6. SameFlags
  BY DEF SameFlags
<1>7. EndInv'
  <2>1. ASSUME NEW f \in Ftable, NEW pi \in Pipes, NEW w \in BOOLEAN PROVE IsEnd(f, pi, w)' <=> IsEnd(f, pi, w)
    <3>1. CASE file[f].ref > 0
      BY <3>1 DEF IsEnd, KeptFiles
    <3>2. CASE ~ (file[f].ref > 0)
      BY <3>2 DEF IsEnd
    <3> QED
      BY <3>1, <3>2
  <2>2. SameIsEnds
    BY <2>1 DEF SameIsEnds
  <2>3. ASSUME NEW f \in Ftable PROVE FileInv(f)'
    <3>1. CASE file[f].ref > 0
      <4>1. FileInv(f)
        BY <1>1 DEF EndInv
      <4> QED
        BY <3>1, <4>1 DEF FileInv, KeptFiles
    <3>2. CASE ~ (file[f].ref > 0)
      BY <3>2 DEF FileInv
    <3> QED
      BY <3>1, <3>2
  <2> QED
    BY <1>1, <1>5, <1>6, <2>2, <2>3, EndFrame
<1>8. UserInv'
  BY <1>1, <1>5, KeptHasEnd, UserFrame DEF SameLoops
<1>9. LockInv' /\ SleepInv'
  BY <1>1, <1>5, LockFrame, SleepFrame
<1> QED
  BY <1>2, <1>3, <1>4, <1>7, <1>8, <1>9 DEF IInv, Types, PipeParts

(* dup() *)
LEMMA SysDupKeeps == ASSUME IInv, NEW p \in Proc, SysDup(p), UNCHANGED <<kills, state>> PROVE IInv'
<1>1. sys[p] # Nil /\ sys[p].op = "dup" /\ Plain(sys[p])
  BY DEF SysDup, InSys, Plain
<1>2. UNCHANGED <<pipe, plock, chan, killed, content>>
  BY DEF SysDup, Stay, pipeVars
<1>3. CASE ~ (ArgOk(p) /\ FreeFds(p) # {})
  <2>1. Return(p, -1) /\ file' = file /\ ofile' = ofile
    BY <1>3 DEF SysDup
  <2> QED
    BY <1>1, <1>2, <2>1, ReturnKeeps
<1>4. CASE ArgOk(p) /\ FreeFds(p) # {}
  <2> DEFINE fd == Least(FreeFds(p))
             f == ofile[p][sys[p].fd]
  <2>1. ofile' = [ofile EXCEPT ![p][fd] = f] /\ file' = [file EXCEPT ![f].ref = @ + 1] /\ sys' = [sys EXCEPT ![p] = Nil]
    BY <1>4 DEF SysDup, filedup, Return
  <2>2. f \in Ftable /\ file[f].ref >= 1
    BY <1>4, ArgFile
  <2>3. fd \in Fd /\ ofile[p][fd] = Nil
    <3>1. FreeFds(p) \in SUBSET Nat
      BY SMTT(30) DEF FreeFds, Fd
    <3>2. fd \in FreeFds(p)
      BY <1>4, <3>1, LeastIn
    <3> QED
      BY <3>2 DEF FreeFds
  <2>4. TypeInv /\ CountInv /\ ContentInv
    BY DEF IInv, Types, PipeParts
  <2> HIDE DEF fd, f
  <2>5. file \in [Ftable -> FileStruct]
    BY <2>4 DEF TypeInv
  <2>6. [file[f] EXCEPT !.ref = @ + 1] \in FileStruct
    BY <2>2, <2>5, SMTT(30) DEF FileStruct
  <2>7. file' \in [Ftable -> FileStruct]
    BY <2>1, <2>5, <2>6
  <2>8. file'[f].ref = file[f].ref + 1 /\ file'[f].ref > 0
    <3>1. file[f].ref \in Nat
      BY <2>2, <2>5 DEF FileStruct
    <3>2. file'[f].ref = file[f].ref + 1
      BY <2>1, <2>2, <2>5 DEF FileStruct
    <3> QED
      BY <3>1, <3>2, OneMore
  <2>9. ASSUME NEW g \in Ftable
        PROVE  /\ file'[g].type = file[g].type /\ file'[g].pipe = file[g].pipe /\ file'[g].ip = file[g].ip
               /\ file'[g].readable = file[g].readable /\ file'[g].writable = file[g].writable
               /\ g # f => file'[g].ref = file[g].ref
    BY <2>1, <2>5, SMTT(30) DEF FileStruct
  <2>10. /\ ofile' \in [Proc -> [Fd -> Ftable \cup {Nil}]]
         /\ \A q \in Proc, d \in Fd : <<q, d>> # <<p, fd>> => ofile'[q][d] = ofile[q][d]
    BY <2>1, <2>2, <2>3, <2>4 DEF TypeInv
  <2>11. \A q \in Proc : q # p => ofile'[q] = ofile[q]
    BY <2>1, <2>4 DEF TypeInv
  <2>12. KeptFiles
    <3>1. \A q \in Proc, d \in Fd : ofile[q][d] # Nil => ofile'[q][d] = ofile[q][d]
      BY <2>3, <2>10
    <3> QED
      BY <2>8, <2>9, <3>1 DEF KeptFiles
  <2>13. CountInv'
    BY <2>1, <2>2, <2>3, <2>4, <2>8, <2>9, CountAdd
  <2>14. \A g \in Ftable : file'[g].type = "inode" => file'[g].ip \in Name
    BY <2>4, <2>9 DEF ContentInv
  <2>15. file[f].ref > 0
    BY <2>2, <2>5, SMTT(30) DEF FileStruct
  <2>16. \A g \in Ftable : ~ (file[g].ref > 0) /\ file'[g].ref > 0 => file'[g].type \in {"inode", "device"}
    BY <2>9, <2>15
  <2>17. content' \in [Name -> Seq(Byte \cup {Nil})]
    BY <1>2, <2>4 DEF ContentInv
  <2> QED
    BY <1>1, <1>2, <2>1, <2>7, <2>10, <2>11, <2>12, <2>13, <2>14, <2>16, <2>17, DescriptorKeeps
<1> QED
  BY <1>3, <1>4

(* open(): the file structure was free. *)
LEMMA SysOpenKeeps == ASSUME IInv, NEW p \in Proc, SysOpen(p), UNCHANGED <<kills, state>> PROVE IInv'
<1> DEFINE om == sys[p].omode
           ip == sys[p].ip
<1>1. sys[p] # Nil /\ sys[p].op = "open" /\ Plain(sys[p])
  BY DEF SysOpen, InSys, Plain
<1>2. UNCHANGED <<pipe, plock, chan, killed>>
  BY DEF SysOpen, Stay, pipeVars
<1>3. CASE ("wronly" \in om /\ "w" \notin Mode[ip]) \/ FreeFiles = {} \/ FreeFds(p) = {}
  <2>1. Return(p, -1) /\ file' = file /\ ofile' = ofile /\ content' = content
    BY <1>3 DEF SysOpen
  <2> QED
    BY <1>1, <1>2, <2>1, ReturnKeeps
<1>4. CASE ~ (("wronly" \in om /\ "w" \notin Mode[ip]) \/ FreeFiles = {} \/ FreeFds(p) = {})
  <2> DEFINE fd == Least(FreeFds(p))
             f == Least(FreeFiles)
             x == [ref |-> 1, type |-> IF ip = Console THEN "device" ELSE "inode",
                   readable |-> "wronly" \notin om, writable |-> om \cap {"wronly", "rdwr"} # {},
                   pipe |-> file[f].pipe, ip |-> ip, off |-> IF ip = Console THEN file[f].off ELSE 0]
  <2>1. /\ ofile' = [ofile EXCEPT ![p][fd] = f] /\ sys' = [sys EXCEPT ![p] = Nil]
        /\ content' = IF "trunc" \in om /\ ip # Console THEN [content EXCEPT ![ip] = <<>>] ELSE content
    BY <1>4 DEF SysOpen, Return
  <2>2. f \in Ftable /\ file[f].ref = 0
    <3>1. FreeFiles \in SUBSET Nat
      BY SMTT(30) DEF FreeFiles, Ftable
    <3>2. f \in FreeFiles
      BY <1>4, <3>1, LeastIn
    <3> QED
      BY <3>2 DEF FreeFiles
  <2>3. fd \in Fd /\ ofile[p][fd] = Nil
    <3>1. FreeFds(p) \in SUBSET Nat
      BY SMTT(30) DEF FreeFds, Fd
    <3>2. fd \in FreeFds(p)
      BY <1>4, <3>1, LeastIn
    <3> QED
      BY <3>2 DEF FreeFds
  <2>4. TypeInv /\ CountInv /\ ContentInv
    BY DEF IInv, Types, PipeParts
  <2>5. file \in [Ftable -> FileStruct]
    BY <2>4 DEF TypeInv
  <2>6. file' = [file EXCEPT ![f] = x]
    BY <1>4, <2>2, <2>5 DEF SysOpen
  <2>7. ip \in Inodes
    BY <1>1, InSysShape DEF IInv, Shaped
  <2> HIDE DEF fd, f
  <2>8. x \in FileStruct
    <3>1. file[f].pipe \in Pipes \cup {Nil} /\ file[f].off \in Nat
      BY <2>2, <2>5 DEF FileStruct
    <3>2. x.ref \in Nat /\ x.off \in Nat
      BY <3>1, SMTT(30)
    <3> QED
      BY <2>7, <3>1, <3>2 DEF FileStruct
  <2>9. x.ref = 1 /\ (x.type = "device" \/ (x.type = "inode" /\ x.ip \in Name))
    BY <2>7 DEF Inodes
  <2> HIDE DEF x
  <2>10. file' \in [Ftable -> FileStruct] /\ file'[f] = x /\ \A g \in Ftable : g # f => file'[g] = file[g]
    BY <2>2, <2>5, <2>6, <2>8
  <2>11. /\ ofile' \in [Proc -> [Fd -> Ftable \cup {Nil}]]
         /\ \A q \in Proc, d \in Fd : <<q, d>> # <<p, fd>> => ofile'[q][d] = ofile[q][d]
    BY <2>1, <2>2, <2>3, <2>4 DEF TypeInv
  <2>12. \A q \in Proc : q # p => ofile'[q] = ofile[q]
    BY <2>1, <2>4 DEF TypeInv
  <2>13. ~ (file[f].ref > 0) /\ file[f].ref + 1 = 1
    BY <2>2, SMTT(30)
  <2>14. KeptFiles
    <3>1. \A q \in Proc, d \in Fd : ofile[q][d] # Nil => ofile'[q][d] = ofile[q][d]
      BY <2>3, <2>11
    <3>2. ASSUME NEW g \in Ftable, file[g].ref > 0 PROVE file'[g] = file[g]
      BY <2>10, <2>13, <3>2
    <3> QED
      BY <3>1, <3>2 DEF KeptFiles
  <2>15. CountInv'
    BY <2>1, <2>2, <2>3, <2>4, <2>9, <2>10, <2>13, CountAdd
  <2>16. \A g \in Ftable : file'[g].type = "inode" => file'[g].ip \in Name
    BY <2>4, <2>9, <2>10 DEF ContentInv
  <2>17. \A g \in Ftable : ~ (file[g].ref > 0) /\ file'[g].ref > 0 => file'[g].type \in {"inode", "device"}
    BY <2>9, <2>10
  <2>18. content' \in [Name -> Seq(Byte \cup {Nil})]
    <3>1. <<>> \in Seq(Byte \cup {Nil})
      BY SMTT(30)
    <3> QED
      BY <2>1, <2>4, <3>1 DEF ContentInv
  <2> QED
    BY <1>1, <1>2, <2>1, <2>10, <2>11, <2>12, <2>14, <2>15, <2>16, <2>17, <2>18, DescriptorKeeps
<1> QED
  BY <1>3, <1>4

-----------------------------------------------------------------------------
(* fileclose() gives up the reference f had from p.  What it leaves.         *)
LEMMA CloseFile ==
  ASSUME IInv, NEW f \in Ftable, file[f].ref >= 1,
         NEW x, x = (IF file[f].ref > 1 THEN [file[f] EXCEPT !.ref = @ - 1]
                                        ELSE [file[f] EXCEPT !.ref = 0, !.type = "none"]),
         file' = [file EXCEPT ![f] = x]
  PROVE  /\ file' \in [Ftable -> FileStruct]
         /\ \A g \in Ftable : g # f => file'[g] = file[g]
         /\ file'[f].ref = file[f].ref - 1
         /\ file'[f].pipe = file[f].pipe /\ file'[f].ip = file[f].ip
         /\ file'[f].readable = file[f].readable /\ file'[f].writable = file[f].writable
         /\ file[f].ref # 1 => file'[f].ref > 0 /\ file'[f].type = file[f].type
         /\ file[f].ref = 1 => ~ (file'[f].ref > 0) /\ file'[f].type = "none"
<1> DEFINE a == [file[f] EXCEPT !.ref = file[f].ref - 1]
           b == [file[f] EXCEPT !.ref = 0, !.type = "none"]
<1>1. file \in [Ftable -> FileStruct]
  BY DEF IInv, Types, TypeInv
<1>2. file[f] \in FileStruct
  BY <1>1
<1>3. file[f].ref \in Nat
  BY <1>2 DEF FileStruct
<1>4. /\ a \in FileStruct /\ a.ref = file[f].ref - 1 /\ a.pipe = file[f].pipe /\ a.ip = file[f].ip
      /\ a.readable = file[f].readable /\ a.writable = file[f].writable /\ a.type = file[f].type
  BY <1>2, SMTT(30) DEF FileStruct
<1>5. /\ b \in FileStruct /\ b.ref = 0 /\ b.pipe = file[f].pipe /\ b.ip = file[f].ip
      /\ b.readable = file[f].readable /\ b.writable = file[f].writable /\ b.type = "none"
  <2>1. 0 \in Nat
    OBVIOUS
  <2> QED
    BY <1>2, <2>1 DEF FileStruct
<1>6. x = IF file[f].ref > 1 THEN a ELSE b
  OBVIOUS
<1> HIDE DEF a, b
<1>7. file' \in [Ftable -> FileStruct] /\ file'[f] = (IF file[f].ref > 1 THEN a ELSE b) /\ \A g \in Ftable : g # f => file'[g] = file[g]
  BY <1>1, <1>4, <1>5, <1>6
<1>8. CASE file[f].ref = 1
  <2>1. file'[f] = b /\ ~ (b.ref > 0) /\ b.ref = file[f].ref - 1
    BY <1>5, <1>7, <1>8, SMTT(30)
  <2> QED
    BY <1>5, <1>7, <1>8, <2>1
<1>9. CASE file[f].ref # 1
  <2>1. file'[f] = a /\ a.ref > 0
    BY <1>3, <1>4, <1>7, <1>9, SMTT(30)
  <2> QED
    BY <1>4, <1>7, <1>9, <2>1
<1> QED
  BY <1>8, <1>9

(* fileclose() takes one reference with the one descriptor. *)
LEMMA CountDrop ==
  ASSUME TypeInv, CountInv, NEW p \in Proc, NEW fd \in Fd, NEW f \in Ftable, ofile[p][fd] = f,
         ofile' = [ofile EXCEPT ![p][fd] = Nil],
         file'[f].ref = file[f].ref - 1, \A g \in Ftable : g # f => file'[g] = file[g]
  PROVE  CountInv'
<1>0. Nil \notin Ftable
  BY FileAssumption
<1>1. ofile'[p][fd] = Nil /\ \A q \in Proc, d \in Fd : <<q, d>> # <<p, fd>> => ofile'[q][d] = ofile[q][d]
  BY DEF TypeInv
<1>2. Cardinality(Holders(f)') = Cardinality(Holders(f)) - 1
  <2>1. ASSUME NEW q \in Proc, NEW d \in Fd
        PROVE  ofile'[q][d] = f <=> (ofile[q][d] = f /\ <<q, d>> # <<p, fd>>)
    BY <1>0, <1>1
  <2> QED
    BY <2>1, DropHolder
<1>3. ASSUME NEW g \in Ftable, g # f PROVE Holders(g)' = Holders(g)
  <2>1. ASSUME NEW q \in Proc, NEW d \in Fd PROVE ofile'[q][d] = g <=> ofile[q][d] = g
    BY <1>0, <1>1, <1>3
  <2> QED
    BY <2>1, SameHolders
<1>4. file'[f].ref = Cardinality(Holders(f)')
  BY <1>2 DEF CountInv
<1>5. ASSUME NEW g \in Ftable, g # f PROVE file'[g].ref = Cardinality(Holders(g)')
  BY <1>3, <1>5 DEF CountInv
<1> QED
  BY <1>4, <1>5 DEF CountInv

(* An end passes from the last descriptor for file f to process p, which is  *)
(* about to close it.                                                        *)
LEMMA EndMoves ==
  ASSUME EndInv, NEW f \in Ftable, NEW p \in Proc, SameFlags, \A g \in Ftable : FileInv(g)',
         \A g \in Ftable, pi \in Pipes, w \in BOOLEAN : IsEnd(g, pi, w)' <=> IsEnd(g, pi, w) /\ g # f,
         \A q \in Proc, pi \in Pipes, w \in BOOLEAN :
           Drops(q, pi, w)' <=> Drops(q, pi, w) \/ (q = p /\ IsEnd(f, pi, w))
  PROVE  EndInv'
<1>1. ASSUME NEW pi \in Pipes, NEW w \in BOOLEAN PROVE EndOpen(pi, w)' = EndOpen(pi, w)
  <2>1. EndOpen(pi, w)' <=> EndOpen(pi, w)
    BY EndOpenDef
  <2> QED
    BY <2>1 DEF EndOpen
<1>2. ASSUME NEW pi \in Pipes PROVE PageInv(pi)'
  <2>1. EndOpen(pi, TRUE)' = EndOpen(pi, TRUE) /\ EndOpen(pi, FALSE)' = EndOpen(pi, FALSE)
    BY <1>1
  <2>2. PageInv(pi)
    BY DEF EndInv
  <2> QED
    BY <2>1, <2>2 DEF PageInv, SameFlags
<1>3. ASSUME NEW pi \in Pipes, NEW w \in BOOLEAN, OneEnd(pi, w) PROVE OneEnd(pi, w)'
  <2>1. \A g, h \in Ftable : IsEnd(g, pi, w)' /\ IsEnd(h, pi, w)' => g = h
    BY <1>3 DEF OneEnd
  <2>2. ASSUME NEW q \in Proc, NEW r \in Proc, Drops(q, pi, w)', Drops(r, pi, w)' PROVE q = r
    <3>1. Drops(q, pi, w) \/ (q = p /\ IsEnd(f, pi, w))
      BY <2>2
    <3>2. Drops(r, pi, w) \/ (r = p /\ IsEnd(f, pi, w))
      BY <2>2
    <3> QED
      BY <1>3, <3>1, <3>2 DEF OneEnd
  <2>3. ASSUME NEW g \in Ftable, NEW q \in Proc, IsEnd(g, pi, w)', Drops(q, pi, w)' PROVE FALSE
    BY <1>3, <2>3 DEF OneEnd
  <2> QED
    BY <2>1, <2>2, <2>3 DEF OneEnd
<1> QED
  BY <1>2, <1>3 DEF EndInv

(* close() returns and exit() goes on after a fileclose(). *)
LEMMA DonePlain ==
  ASSUME NEW done \in {Nil, [op |-> "exit"]}
  PROVE  Plain(done) /\ (done # Nil => Known(done))
<1>1. CASE done = Nil
  BY <1>1, NilPlain
<1>2. CASE done = [op |-> "exit"]
  <2>1. UserCall(done)
    BY <1>2 DEF UserCall
  <2> QED
    BY <2>1, UserCallPlain DEF Known
<1> QED
  BY <1>1, <1>2

(* fileclose(), first half.  Another process that is in the pipe has a       *)
(* descriptor of its own, so that this was not the last one.                 *)
LEMMA CloseKeeps ==
  ASSUME IInv, NEW p \in Proc, NEW fd \in Fd, NEW done \in {Nil, [op |-> "exit"]}, ofile[p][fd] # Nil,
         Plain(sys[p]), sys[p] # Nil, Close(p, fd, done),
         UNCHANGED <<pipe, plock, chan, killed, kills, content, state>>
  PROVE  IInv'
<1> DEFINE f == ofile[p][fd]
           last == file[f].ref = 1 /\ file[f].type = "pipe"
           x == IF last THEN [op |-> "pipeclose", pi |-> file[f].pipe, writable |-> file[f].writable, done |-> done]
                ELSE done
           left == IF file[f].ref > 1 THEN [file[f] EXCEPT !.ref = @ - 1]
                                      ELSE [file[f] EXCEPT !.ref = 0, !.type = "none"]
<1>1. SysInv /\ Types /\ TypeInv /\ ContentInv /\ IdleInv /\ CountInv /\ EndInv /\ UserInv /\ LockInv /\ SleepInv
  BY DEF IInv, Types, PipeParts
<1>2. f \in Ftable
  <2>1. ofile \in [Proc -> [Fd -> Ftable \cup {Nil}]]
    BY <1>1 DEF TypeInv
  <2>2. f \in Ftable \cup {Nil}
    BY <2>1
  <2> QED
    BY <2>2
<1>3. file[f].ref >= 1 /\ \A q \in Proc, d \in Fd : ofile[q][d] = f /\ <<q, d>> # <<p, fd>> => file[f].ref # 1
  BY <1>1, <1>2, HeldTwice
<1>4. file[f] \in FileStruct
  BY <1>1, <1>2 DEF TypeInv
<1>5. ofile' = [ofile EXCEPT ![p][fd] = Nil] /\ sys' = [sys EXCEPT ![p] = x]
  BY DEF Close
<1>6. file' = [file EXCEPT ![f] = left]
  BY DEF Close
<1>7. last => file[f].ref > 0 /\ file[f].pipe \in Pipes
  <2>1. file[f].ref = 1 => file[f].ref > 0
    BY SMTT(30)
  <2> QED
    BY <1>1, <1>2, <2>1 DEF EndInv, FileInv
<1>8. Plain(done) /\ (done # Nil => Known(done))
  BY DonePlain
<1>9. last => x \in [op : {"pipeclose"}, pi : Pipes, writable : BOOLEAN, done : {Nil, [op |-> "exit"]}]
  BY <1>4, <1>7 DEF FileStruct
<1>10. x # Nil => Known(x)
  BY <1>8, <1>9 DEF Known, Closing
<1>11. last => x # Nil /\ x.op = "pipeclose" /\ x.pi = file[f].pipe /\ x.writable = file[f].writable
  BY <1>9, FileAssumption DEF Closing
<1>12. ~ last => Plain(x)
  BY <1>8
<1> HIDE DEF x
<1>13. SysInv' /\ sys'[p] = x /\ \A q \in Proc : q # p => sys'[q] = sys[q]
  BY <1>1, <1>5, <1>10, SysSet
<1> HIDE DEF f
<1>14. /\ file' \in [Ftable -> FileStruct]
       /\ \A g \in Ftable : g # f => file'[g] = file[g]
       /\ file'[f].ref = file[f].ref - 1
       /\ file'[f].pipe = file[f].pipe /\ file'[f].ip = file[f].ip
       /\ file'[f].readable = file[f].readable /\ file'[f].writable = file[f].writable
       /\ file[f].ref # 1 => file'[f].ref > 0 /\ file'[f].type = file[f].type
       /\ file[f].ref = 1 => ~ (file'[f].ref > 0) /\ file'[f].type = "none"
  BY <1>2, <1>3, <1>6, CloseFile
<1>15. TypeInv'
  <2>1. ofile' \in [Proc -> [Fd -> Ftable \cup {Nil}]]
    BY <1>1, <1>5 DEF TypeInv
  <2> QED
    BY <1>1, <1>14, <2>1 DEF TypeInv
<1>16. ContentInv'
  <2>1. ASSUME NEW g \in Ftable, file'[g].type = "inode" PROVE file'[g].ip = file[g].ip /\ file[g].type = "inode"
    BY <1>14, <2>1
  <2> QED
    BY <1>1, <2>1 DEF ContentInv
<1>17. \A q \in Proc : q # p => ofile'[q] = ofile[q]
  BY <1>1, <1>5 DEF TypeInv
<1>18. IdleInv'
  <2>1. state[p] = "run"
    BY <1>1, InSysRuns
  <2>2. ASSUME NEW q \in Proc, state[q] # "run" PROVE sys'[q] = Nil /\ \A d \in Fd : ofile'[q][d] = Nil
    <3>1. sys'[q] = sys[q] /\ ofile'[q] = ofile[q]
      BY <1>13, <1>17, <2>1, <2>2
    <3> QED
      BY <1>1, <2>2, <3>1 DEF IdleInv
  <2> QED
    BY <2>2 DEF IdleInv
<1>19. CountInv'
  BY <1>1, <1>2, <1>5, <1>14, CountDrop DEF f
<1>20. SameLoops
  <2>1. x = Nil \/ x.op \notin {"piperead", "pipewrite"}
    BY <1>11, <1>12 DEF Plain
  <2>2. ASSUME NEW q \in Proc, NEW pi \in Pipes
        PROVE  /\ Reads(q, pi)' <=> Reads(q, pi)
               /\ Writes(q, pi)' <=> Writes(q, pi)
               /\ Reads(q, pi) => sys'[q].copy = sys[q].copy
    <3>1. CASE q = p
      BY <1>13, <2>1, <3>1 DEF Reads, Writes, Plain
    <3>2. CASE q # p
      BY <1>13, <3>2 DEF Reads, Writes
    <3> QED
      BY <3>1, <3>2
  <2> QED
    BY <2>2 DEF SameLoops
<1>21. SameFlags
  BY DEF SameFlags
<1>22. ASSUME NEW g \in Ftable PROVE FileInv(g)'
  <2>1. FileInv(g)
    BY <1>1 DEF EndInv
  <2>2. CASE g # f
    BY <1>14, <2>1, <2>2 DEF FileInv
  <2>3. CASE g = f /\ file[f].ref = 1
    BY <1>14, <2>3 DEF FileInv
  <2>4. CASE g = f /\ file[f].ref # 1
    <3>1. file[f].ref > 0
      BY <1>3, <1>4, SMTT(30) DEF FileStruct
    <3> QED
      BY <1>14, <2>1, <2>4, <3>1 DEF FileInv
  <2> QED
    BY <2>2, <2>3, <2>4
<1>23. EndInv'
  <2>1. CASE last
    <3>1. file[f].ref > 0 /\ ~ (file'[f].ref > 0)
      BY <1>7, <1>14, <2>1
    <3>2. ASSUME NEW g \in Ftable, NEW pi \in Pipes, NEW w \in BOOLEAN
          PROVE  IsEnd(g, pi, w)' <=> IsEnd(g, pi, w) /\ g # f
      <4>1. CASE g = f
        BY <3>1, <4>1 DEF IsEnd
      <4>2. CASE g # f
        BY <1>14, <4>2 DEF IsEnd
      <4> QED
        BY <4>1, <4>2
    <3>3. ASSUME NEW q \in Proc, NEW pi \in Pipes, NEW w \in BOOLEAN
          PROVE  Drops(q, pi, w)' <=> Drops(q, pi, w) \/ (q = p /\ IsEnd(f, pi, w))
      <4>1. CASE q = p
        <5>1. Drops(p, pi, w)' <=> file[f].pipe = pi /\ file[f].writable = w
          BY <1>11, <1>13, <2>1 DEF Drops
        <5>2. IsEnd(f, pi, w) <=> file[f].pipe = pi /\ file[f].writable = w
          BY <2>1, <3>1 DEF IsEnd
        <5>3. ~ Drops(p, pi, w)
          BY DEF Drops, Plain
        <5> QED
          BY <4>1, <5>1, <5>2, <5>3
      <4>2. CASE q # p
        BY <1>13, <4>2 DEF Drops
      <4> QED
        BY <4>1, <4>2
    <3> QED
      BY <1>1, <1>2, <1>21, <1>22, <3>2, <3>3, EndMoves
  <2>2. CASE ~ last
    <3>1. PlainStep
      BY <1>12, <1>13, <2>2 DEF PlainStep
    <3>2. ASSUME NEW g \in Ftable, NEW pi \in Pipes, NEW w \in BOOLEAN PROVE IsEnd(g, pi, w)' <=> IsEnd(g, pi, w)
      <4>1. CASE g # f
        BY <1>14, <4>1 DEF IsEnd
      <4>2. CASE g = f /\ file[f].ref = 1
        BY <1>14, <2>2, <4>2 DEF IsEnd
      <4>3. CASE g = f /\ file[f].ref # 1
        <5>1. file[f].ref > 0
          BY <1>3, <1>4, SMTT(30) DEF FileStruct
        <5> QED
          BY <1>14, <4>3, <5>1 DEF IsEnd
      <4> QED
        BY <4>1, <4>2, <4>3
    <3>3. SameIsEnds
      BY <3>2 DEF SameIsEnds
    <3> QED
      BY <1>1, <1>21, <1>22, <3>1, <3>3, PlainFrame, EndFrame
  <2> QED
    BY <2>1, <2>2
<1>24. UserInv'
  <2>1. ASSUME NEW q \in Proc, NEW pi \in Pipes, NEW w \in BOOLEAN, Reads(q, pi) \/ Writes(q, pi), HasEnd(q, pi, w)
        PROVE  HasEnd(q, pi, w)'
    <3>1. q # p
      BY <2>1 DEF Reads, Writes, Plain
    <3>2. PICK d \in Fd : ofile[q][d] \in Ftable /\ IsEnd(ofile[q][d], pi, w)
      BY <2>1 DEF HasEnd
    <3>3. ofile'[q][d] = ofile[q][d]
      BY <1>17, <3>1
    <3>4. IsEnd(ofile[q][d], pi, w)'
      <4>1. CASE ofile[q][d] # f
        BY <1>14, <3>2, <3>3, <4>1 DEF IsEnd
      <4>2. CASE ofile[q][d] = f
        <5>1. <<q, d>> # <<p, fd>>
          BY <3>1
        <5>2. file[f].ref # 1
          BY <1>3, <4>2, <5>1
        <5> QED
          BY <1>14, <3>2, <3>3, <4>2, <5>2 DEF IsEnd
      <4> QED
        BY <4>1, <4>2
    <3> QED
      BY <3>2, <3>3, <3>4 DEF HasEnd
  <2>2. \A q \in Proc, pi \in Pipes : (Reads(q, pi)' => Reads(q, pi)) /\ (Writes(q, pi)' => Writes(q, pi))
    BY <1>20 DEF SameLoops
  <2> QED
    BY <1>1, <2>1, <2>2, UserFrame
<1>25. LockInv' /\ SleepInv'
  BY <1>1, <1>20, LockFrame, SleepFrame
<1> QED
  BY <1>13, <1>15, <1>16, <1>18, <1>19, <1>23, <1>24, <1>25 DEF IInv, Types, PipeParts

(* close() and exit(). *)
LEMMA SysCloseKeeps == ASSUME IInv, NEW p \in Proc, SysClose(p), UNCHANGED <<kills, state>> PROVE IInv'
<1>1. sys[p] # Nil /\ sys[p].op = "close" /\ Plain(sys[p])
  BY DEF SysClose, InSys, Plain
<1>2. UNCHANGED <<pipe, plock, chan, killed, content>>
  BY DEF SysClose, Stay, pipeVars
<1>3. CASE ArgOk(p)
  <2>1. Close(p, sys[p].fd, Nil)
    BY <1>3 DEF SysClose
  <2>2. sys[p].fd \in Fd /\ ofile[p][sys[p].fd] # Nil
    BY <1>3 DEF ArgOk
  <2> QED
    BY <1>1, <1>2, <2>1, <2>2, CloseKeeps
<1>4. CASE ~ ArgOk(p)
  <2>1. Return(p, -1) /\ file' = file /\ ofile' = ofile
    BY <1>4 DEF SysClose
  <2> QED
    BY <1>1, <1>2, <2>1, ReturnKeeps
<1> QED
  BY <1>3, <1>4

(* exit() closes its next descriptor. *)
LEMMA ExitCloseKeeps == ASSUME IInv, NEW p \in Proc, ExitClose(p) PROVE IInv'
<1>1. sys[p] # Nil /\ sys[p].op = "exit" /\ Plain(sys[p])
  BY DEF ExitClose, InSys, Plain
<1>2. UNCHANGED <<pipe, plock, chan, killed, kills, content, state>>
  BY DEF ExitClose, pipeVars, treeVars
<1>3. PICK fd \in Fd : ofile[p][fd] # Nil /\ Close(p, fd, [op |-> "exit"])
  BY DEF ExitClose
<1>4. [op |-> "exit"] \in {Nil, [op |-> "exit"]}
  OBVIOUS
<1> QED
  BY <1>1, <1>2, <1>3, <1>4, CloseKeeps

-----------------------------------------------------------------------------
(* Who is in the loop of a pipe has it open on its side. *)
LEMMA LoopOpen ==
  ASSUME IInv, NEW q \in Proc, NEW pi \in Pipes
  PROVE  /\ Reads(q, pi) => pipe[pi] # Nil /\ pipe[pi].readopen
         /\ Writes(q, pi) => pipe[pi] # Nil /\ pipe[pi].writeopen
<1>1. UserInv /\ PageInv(pi)
  BY DEF IInv, PipeParts, EndInv
<1>2. ASSUME NEW w, HasEnd(q, pi, w) PROVE EndOpen(pi, w)
  BY <1>2, EndOpenDef DEF HasEnd
<1>3. Reads(q, pi) => EndOpen(pi, FALSE)
  BY <1>1, <1>2 DEF UserInv
<1>4. Writes(q, pi) => EndOpen(pi, TRUE)
  BY <1>1, <1>2 DEF UserInv
<1> QED
  BY <1>1, <1>3, <1>4 DEF PageInv

(* The two least of a set. *)
LEMMA LeastTwo ==
  ASSUME NEW S \in SUBSET Nat, Cardinality(S) # 0, Cardinality(S) # 1
  PROVE  LET a == Least(S)
             b == Least(S \ {a})
         IN  a \in S /\ b \in S /\ a # b
<1> DEFINE a == Least(S)
           b == Least(S \ {a})
<1>1. S # {}
  BY FS_EmptySet
<1>2. a \in S
  BY <1>1, LeastIn
<1> HIDE DEF a
<1>3. S \ {a} # {}
  <2>1. S # {a}
    BY FS_Singleton
  <2> QED
    BY <1>2, <2>1
<1>4. b \in S \ {a}
  <2>1. S \ {a} \in SUBSET Nat
    OBVIOUS
  <2> QED
    BY <1>3, <2>1, LeastIn
<1> QED
  BY <1>2, <1>4 DEF a

(* What pipe() does to the page, to the two files and to p's descriptors. *)
NewPage(pi) ==
  /\ pipe[pi] = Nil /\ pipe' \in [Pipes -> PipeStruct \cup {Nil}]
  /\ pipe'[pi] # Nil /\ pipe'[pi].readopen = TRUE /\ pipe'[pi].writeopen = TRUE
  /\ \A x \in Pipes : x # pi => pipe'[x] = pipe[x]
NewEnd(f, pi, w) ==
  LET e == file'[f] IN e.ref = 1 /\ e.type = "pipe" /\ e.pipe = pi /\ e.readable = ~ w /\ e.writable = w
NewFiles(rf, wf, pi) ==
  /\ rf # wf /\ file[rf].ref = 0 /\ file[wf].ref = 0
  /\ file' \in [Ftable -> FileStruct] /\ NewEnd(rf, pi, FALSE) /\ NewEnd(wf, pi, TRUE)
  /\ \A f \in Ftable : f # rf /\ f # wf => file'[f] = file[f]
NewFds(p, fd0, fd1, rf, wf) ==
  /\ ofile[p][fd0] = Nil /\ ofile[p][fd1] = Nil
  /\ ofile' \in [Proc -> [Fd -> Ftable \cup {Nil}]] /\ ofile'[p][fd0] = rf /\ ofile'[p][fd1] = wf
  /\ \A q \in Proc : q # p => ofile'[q] = ofile[q]
  /\ \A d \in Fd : d # fd0 /\ d # fd1 => ofile'[p][d] = ofile[p][d]

(* A new pipe has one file at each end. *)
LEMMA EndNew ==
  ASSUME EndInv, NEW rf \in Ftable, NEW wf \in Ftable, NEW pi \in Pipes, NewPage(pi),
         SameDrops, \A g \in Ftable : FileInv(g)',
         \A g \in Ftable, x \in Pipes, w \in BOOLEAN :
           IsEnd(g, x, w)' <=> IsEnd(g, x, w) \/ (x = pi /\ ((w = FALSE /\ g = rf) \/ (w = TRUE /\ g = wf)))
  PROVE  EndInv'
<1>1. ASSUME NEW g \in Ftable, NEW x \in Pipes, NEW w \in BOOLEAN, x # pi PROVE IsEnd(g, x, w)' <=> IsEnd(g, x, w)
  BY <1>1
<1>2. ASSUME NEW q \in Proc, NEW x \in Pipes, NEW w \in BOOLEAN PROVE Drops(q, x, w)' <=> Drops(q, x, w)
  BY DEF SameDrops
<1>3. ASSUME NEW x \in Pipes, x # pi PROVE PageInv(x)'
  <2>1. ASSUME NEW w \in BOOLEAN PROVE EndOpen(x, w)' = EndOpen(x, w)
    <3>1. EndOpen(x, w)' <=> EndOpen(x, w)
      BY <1>1, <1>2, <1>3, EndOpenDef
    <3> QED
      BY <3>1 DEF EndOpen
  <2>2. EndOpen(x, TRUE)' = EndOpen(x, TRUE) /\ EndOpen(x, FALSE)' = EndOpen(x, FALSE)
    BY <2>1
  <2>3. PageInv(x) /\ pipe'[x] = pipe[x]
    BY <1>3 DEF EndInv, NewPage
  <2> QED
    BY <2>2, <2>3 DEF PageInv
<1>4. ASSUME NEW x \in Pipes, NEW w \in BOOLEAN, OneEnd(x, w), x # pi PROVE OneEnd(x, w)'
  <2>1. \A g \in Ftable : IsEnd(g, x, w)' => IsEnd(g, x, w)
    BY <1>1, <1>4
  <2>2. \A q \in Proc : Drops(q, x, w)' => Drops(q, x, w)
    BY <1>2
  <2> QED
    BY <1>4, <2>1, <2>2 DEF OneEnd
<1>5. ~ EndOpen(pi, TRUE) /\ ~ EndOpen(pi, FALSE)
  BY DEF EndInv, PageInv, NewPage
<1>6. ASSUME NEW w \in BOOLEAN
      PROVE  (\A g \in Ftable : ~ IsEnd(g, pi, w)) /\ (\A q \in Proc : ~ Drops(q, pi, w))
  BY <1>5, EndOpenDef
<1>7. ASSUME NEW g \in Ftable
      PROVE  (IsEnd(g, pi, FALSE)' <=> g = rf) /\ (IsEnd(g, pi, TRUE)' <=> g = wf)
  BY <1>6
<1>8. ASSUME NEW q \in Proc, NEW w \in BOOLEAN PROVE ~ Drops(q, pi, w)'
  BY <1>2, <1>6
<1>9. PageInv(pi)'
  <2>1. EndOpen(pi, TRUE)' /\ EndOpen(pi, FALSE)'
    BY <1>7, EndOpenDef
  <2>2. EndOpen(pi, TRUE)' = TRUE /\ EndOpen(pi, FALSE)' = TRUE
    BY <2>1 DEF EndOpen
  <2> QED
    BY <2>2 DEF PageInv, NewPage
<1>10. OneEnd(pi, TRUE)' /\ OneEnd(pi, FALSE)'
  BY <1>7, <1>8 DEF OneEnd
<1>11. ASSUME NEW x \in Pipes PROVE PageInv(x)' /\ OneEnd(x, TRUE)' /\ OneEnd(x, FALSE)'
  <2>1. OneEnd(x, TRUE) /\ OneEnd(x, FALSE)
    BY DEF EndInv
  <2> QED
    BY <1>3, <1>4, <1>9, <1>10, <2>1
<1> QED
  BY <1>11 DEF EndInv

(* A file's first descriptor. *)
LEMMA FirstHolder ==
  ASSUME CountInv, NEW f \in Ftable, file[f].ref = 0, NEW p \in Proc, NEW d \in Fd, ofile'[p][d] = f,
         \A q \in Proc, e \in Fd : ofile'[q][e] = f => ofile[q][e] = f \/ <<q, e>> = <<p, d>>
  PROVE  Cardinality(Holders(f)') = 1
<1>1. Holders(f) = {}
  BY NoHolders
<1>2. ASSUME NEW q \in Proc, NEW e \in Fd PROVE ofile[q][e] # f
  <2>1. <<q, e>> \notin Holders(f)
    BY <1>1
  <2> QED
    BY <2>1 DEF Holders
<1>3. ASSUME NEW q \in Proc, NEW e \in Fd
      PROVE  ofile'[q][e] = f <=> (ofile[q][e] = f \/ <<q, e>> = <<p, d>>)
  BY <1>2
<1>4. Cardinality(Holders(f)') = Cardinality(Holders(f)) + 1
  BY <1>2, <1>3, AddHolder
<1>5. Cardinality(Holders(f)) = 0
  BY <1>1, FS_EmptySet
<1> QED
  BY <1>4, <1>5, SMTT(30)

(* Two files' first descriptors. *)
LEMMA CountPair ==
  ASSUME CountInv, NEW rf \in Ftable, NEW wf \in Ftable, NEW pi, NewFiles(rf, wf, pi),
         NEW p \in Proc, NEW fd0 \in Fd, NEW fd1 \in Fd, NewFds(p, fd0, fd1, rf, wf)
  PROVE  CountInv'
<1>1. Nil \notin Ftable
  BY FileAssumption
<1>2. ASSUME NEW q \in Proc, NEW e \in Fd
      PROVE  \/ ofile'[q][e] = ofile[q][e]
             \/ <<q, e>> = <<p, fd0>> /\ ofile'[q][e] = rf /\ ofile[q][e] = Nil
             \/ <<q, e>> = <<p, fd1>> /\ ofile'[q][e] = wf /\ ofile[q][e] = Nil
  <2>1. CASE q # p
    BY <2>1 DEF NewFds
  <2>2. CASE q = p /\ e = fd0
    BY <2>2 DEF NewFds
  <2>3. CASE q = p /\ e = fd1
    BY <2>3 DEF NewFds
  <2>4. CASE q = p /\ e # fd0 /\ e # fd1
    BY <2>4 DEF NewFds
  <2> QED
    BY <2>1, <2>2, <2>3, <2>4
<1>3. Cardinality(Holders(rf)') = 1
  <2>1. ASSUME NEW q \in Proc, NEW e \in Fd, ofile'[q][e] = rf PROVE ofile[q][e] = rf \/ <<q, e>> = <<p, fd0>>
    BY <1>2, <2>1 DEF NewFiles
  <2> QED
    BY <2>1, FirstHolder DEF NewFiles, NewFds
<1>4. Cardinality(Holders(wf)') = 1
  <2>1. ASSUME NEW q \in Proc, NEW e \in Fd, ofile'[q][e] = wf PROVE ofile[q][e] = wf \/ <<q, e>> = <<p, fd1>>
    BY <1>2, <2>1 DEF NewFiles
  <2> QED
    BY <2>1, FirstHolder DEF NewFiles, NewFds
<1>5. ASSUME NEW f \in Ftable, f # rf, f # wf PROVE file'[f].ref = Cardinality(Holders(f)')
  <2>1. ASSUME NEW q \in Proc, NEW e \in Fd PROVE ofile'[q][e] = f <=> ofile[q][e] = f
    BY <1>1, <1>2, <1>5
  <2>2. Holders(f)' = Holders(f)
    BY <2>1, SameHolders
  <2> QED
    BY <1>5, <2>2 DEF CountInv, NewFiles
<1>6. ASSUME NEW f \in Ftable PROVE file'[f].ref = Cardinality(Holders(f)')
  BY <1>3, <1>4, <1>5 DEF NewFiles, NewEnd
<1> QED
  BY <1>6 DEF CountInv

(* A new pipe with its two files and descriptors. *)
LEMMA PipeNewKeeps ==
  ASSUME IInv, NEW p \in Proc, sys[p] # Nil, Plain(sys[p]), sys' = [sys EXCEPT ![p] = Nil],
         UNCHANGED <<plock, chan, killed, content, kills, state>>,
         NEW pi \in Pipes, NewPage(pi), NEW rf \in Ftable, NEW wf \in Ftable, NewFiles(rf, wf, pi),
         NEW fd0 \in Fd, NEW fd1 \in Fd, NewFds(p, fd0, fd1, rf, wf)
  PROVE  IInv'
<1>1. SysInv /\ Types /\ TypeInv /\ ContentInv /\ IdleInv /\ CountInv /\ EndInv /\ UserInv /\ LockInv /\ SleepInv
  BY DEF IInv, Types, PipeParts
<1>2. SysInv' /\ sys'[p] = Nil /\ \A q \in Proc : q # p => sys'[q] = sys[q]
  BY <1>1, SysSet
<1>3. TypeInv' /\ ContentInv'
  <2>1. TypeInv'
    BY <1>1 DEF TypeInv, NewPage, NewFiles, NewFds
  <2>2. file'[rf].type = "pipe" /\ file'[wf].type = "pipe"
    BY DEF NewFiles, NewEnd
  <2>3. ASSUME NEW f \in Ftable, file'[f].type = "inode" PROVE file'[f].ip \in Name
    BY <1>1, <2>2, <2>3 DEF ContentInv, NewFiles
  <2> QED
    BY <1>1, <2>1, <2>3 DEF ContentInv
<1>4. IdleInv'
  <2>1. state[p] = "run"
    BY <1>1, InSysRuns
  <2>2. ASSUME NEW q \in Proc, state[q] # "run" PROVE sys'[q] = Nil /\ \A d \in Fd : ofile'[q][d] = Nil
    <3>1. sys'[q] = sys[q] /\ ofile'[q] = ofile[q]
      BY <1>2, <2>1, <2>2 DEF NewFds
    <3> QED
      BY <1>1, <2>2, <3>1 DEF IdleInv
  <2> QED
    BY <2>2 DEF IdleInv
<1>5. CountInv'
  BY <1>1, CountPair
<1>6. ~ (file[rf].ref > 0) /\ ~ (file[wf].ref > 0) /\ 1 > 0
  BY SMTT(30) DEF NewFiles
<1>7. KeptFiles
  <2>1. ASSUME NEW f \in Ftable, file[f].ref > 0 PROVE file'[f] = file[f]
    BY <1>6, <2>1 DEF NewFiles
  <2>2. \A q \in Proc, d \in Fd : ofile[q][d] # Nil => ofile'[q][d] = ofile[q][d]
    BY DEF NewFds
  <2> QED
    BY <2>1, <2>2 DEF KeptFiles
<1>8. SameDrops /\ SameLoops
  <2>1. PlainStep
    BY <1>2, NilPlain DEF PlainStep
  <2> QED
    BY <2>1, PlainFrame
<1>9. EndInv'
  <2>1. ASSUME NEW f \in Ftable PROVE FileInv(f)'
    <3>1. CASE f = rf \/ f = wf
      BY <3>1 DEF FileInv, NewFiles, NewEnd
    <3>2. CASE f # rf /\ f # wf
      BY <1>1, <3>2 DEF EndInv, FileInv, NewFiles
    <3> QED
      BY <3>1, <3>2
  <2>2. ASSUME NEW g \in Ftable, NEW x \in Pipes, NEW w \in BOOLEAN
        PROVE  IsEnd(g, x, w)' <=>
                 IsEnd(g, x, w) \/ (x = pi /\ ((w = FALSE /\ g = rf) \/ (w = TRUE /\ g = wf)))
    <3>1. CASE g = rf
      <4>1. ~ IsEnd(g, x, w)
        BY <1>6, <3>1 DEF IsEnd
      <4>2. IsEnd(g, x, w)' <=> x = pi /\ w = FALSE
        BY <1>6, <3>1 DEF IsEnd, NewFiles, NewEnd
      <4> QED
        BY <3>1, <4>1, <4>2 DEF NewFiles
    <3>2. CASE g = wf
      <4>1. ~ IsEnd(g, x, w)
        BY <1>6, <3>2 DEF IsEnd
      <4>2. IsEnd(g, x, w)' <=> x = pi /\ w = TRUE
        BY <1>6, <3>2 DEF IsEnd, NewFiles, NewEnd
      <4> QED
        BY <3>2, <4>1, <4>2 DEF NewFiles
    <3>3. CASE g # rf /\ g # wf
      BY <3>3 DEF IsEnd, NewFiles
    <3> QED
      BY <3>1, <3>2, <3>3
  <2> QED
    BY <1>1, <1>8, <2>1, <2>2, EndNew
<1>10. UserInv'
  BY <1>1, <1>7, <1>8, KeptHasEnd, UserFrame DEF SameLoops
<1>11. LockInv'
  BY <1>1, <1>8, LockFrame
<1>12. SleepInv'
  <2>1. ASSUME NEW x \in Pipes, ReasonInv(x), x # pi PROVE ReasonInv(x)'
    <3>1. pipe'[x] = pipe[x]
      BY <2>1 DEF NewPage
    <3> QED
      BY <1>8, <2>1, <3>1 DEF ReasonInv, SameLoops, Asleep, Empty, Full
  <2>2. \A q \in Proc : ~ Reads(q, pi) /\ ~ Writes(q, pi)
    BY LoopOpen DEF NewPage
  <2>3. \A q \in Proc : ~ Reads(q, pi)' /\ ~ Writes(q, pi)'
    BY <1>8, <2>2 DEF SameLoops
  <2>4. ~ Asleep(pi, "nread")' /\ ~ Asleep(pi, "nwrite")'
    BY <1>1, <2>2 DEF Asleep, LockInv
  <2>5. ReasonInv(pi)'
    BY <2>3, <2>4 DEF ReasonInv
  <2> QED
    BY <1>1, <2>1, <2>5 DEF SleepInv
<1> QED
  BY <1>2, <1>3, <1>4, <1>5, <1>9, <1>10, <1>11, <1>12 DEF IInv, Types, PipeParts

(* pipe() *)
LEMMA SysPipeKeeps == ASSUME IInv, NEW p \in Proc, SysPipe(p), UNCHANGED <<kills, state>> PROVE IInv'
<1>1. sys[p] # Nil /\ sys[p].op = "pipe" /\ Plain(sys[p])
  BY DEF SysPipe, InSys, Plain
<1>2. UNCHANGED <<plock, chan, killed, content>>
  BY DEF SysPipe
<1>3. CASE ~ pipealloc \/ Cardinality(FreeFds(p)) < 2
  <2>1. Return(p, -1) /\ pipe' = pipe /\ file' = file /\ ofile' = ofile
    BY <1>3 DEF SysPipe
  <2> QED
    BY <1>1, <1>2, <2>1, ReturnKeeps
<1>4. CASE ~ (~ pipealloc \/ Cardinality(FreeFds(p)) < 2)
  <2> DEFINE rf == Least(FreeFiles)
             wf == Least(FreeFiles \ {rf})
             fd0 == Least(FreeFds(p))
             fd1 == Least(FreeFds(p) \ {fd0})
  <2>1. PICK pi \in {CHOOSE x \in FreePages : TRUE} :
          /\ pipe' = [pipe EXCEPT ![pi] = NewPipe]
          /\ file' = [file EXCEPT ![rf] = PipeEnd(rf, pi, FALSE), ![wf] = PipeEnd(wf, pi, TRUE)]
          /\ ofile' = [ofile EXCEPT ![p][fd0] = rf, ![p][fd1] = wf]
          /\ sys' = [sys EXCEPT ![p] = Nil]
    BY <1>4 DEF SysPipe, Return
  <2>2. pi \in Pipes /\ pipe[pi] = Nil
    <3>1. FreePages # {}
      BY <1>4 DEF pipealloc
    <3>2. pi \in FreePages
      BY <3>1
    <3> QED
      BY <3>2 DEF FreePages
  <2>3. rf \in FreeFiles /\ wf \in FreeFiles /\ rf # wf
    <3>1. FreeFiles \in SUBSET Nat
      BY SMTT(30) DEF FreeFiles, Ftable
    <3>2. Cardinality(FreeFiles) >= 2
      BY <1>4 DEF pipealloc
    <3>3. Cardinality(FreeFiles) # 0 /\ Cardinality(FreeFiles) # 1
      BY <3>2, SMTT(30)
    <3> QED
      BY <3>1, <3>3, LeastTwo
  <2>4. fd0 \in FreeFds(p) /\ fd1 \in FreeFds(p) /\ fd0 # fd1
    <3>1. FreeFds(p) \in SUBSET Nat
      BY SMTT(30) DEF FreeFds, Fd
    <3>2. ~ (Cardinality(FreeFds(p)) < 2)
      BY <1>4
    <3>3. Cardinality(FreeFds(p)) # 0 /\ Cardinality(FreeFds(p)) # 1
      BY <3>2, SMTT(30)
    <3> QED
      BY <3>1, <3>3, LeastTwo
  <2> HIDE DEF rf, wf, fd0, fd1
  <2>5. rf \in Ftable /\ wf \in Ftable /\ file[rf].ref = 0 /\ file[wf].ref = 0
    BY <2>3 DEF FreeFiles
  <2>6. fd0 \in Fd /\ fd1 \in Fd /\ ofile[p][fd0] = Nil /\ ofile[p][fd1] = Nil
    BY <2>4 DEF FreeFds
  <2>7. SysInv /\ TypeInv
    BY DEF IInv, Types
  <2>8. NewPipe \in PipeStruct /\ NewPipe # Nil /\ NewPipe.readopen = TRUE /\ NewPipe.writeopen = TRUE
    <3>1. 0 \in 0 .. WRAP - 1
      BY PipeAssumption, SMTT(30)
    <3>2. NewPipe \in PipeStruct
      BY <3>1 DEF NewPipe, PipeStruct
    <3>3. NewPipe # Nil
      BY <3>2, PipeAssumption
    <3>4. NewPipe.readopen = TRUE /\ NewPipe.writeopen = TRUE
      BY DEF NewPipe
    <3> QED
      BY <3>2, <3>3, <3>4
  <2>9. /\ pipe' \in [Pipes -> PipeStruct \cup {Nil}]
         /\ pipe'[pi] = NewPipe /\ \A x \in Pipes : x # pi => pipe'[x] = pipe[x]
    <3>1. pipe \in [Pipes -> PipeStruct \cup {Nil}]
      BY <2>7 DEF TypeInv
    <3> QED
      BY <2>1, <2>2, <2>8, <3>1
  <2>10. ASSUME NEW f \in Ftable, NEW w \in BOOLEAN
         PROVE  LET e == PipeEnd(f, pi, w)
                IN  e \in FileStruct /\ e.ref = 1 /\ e.type = "pipe" /\ e.pipe = pi /\ e.readable = ~ w /\ e.writable = w
    <3>1. file[f] \in FileStruct
      BY <2>7 DEF TypeInv
    <3>2. 1 \in Nat /\ (~ w) \in BOOLEAN
      OBVIOUS
    <3> QED
      BY <2>2, <3>1, <3>2 DEF PipeEnd, FileStruct
  <2>11. /\ file' \in [Ftable -> FileStruct]
         /\ file'[rf] = PipeEnd(rf, pi, FALSE) /\ file'[wf] = PipeEnd(wf, pi, TRUE)
         /\ \A f \in Ftable : f # rf /\ f # wf => file'[f] = file[f]
    <3>1. file \in [Ftable -> FileStruct]
      BY <2>7 DEF TypeInv
    <3>2. PipeEnd(rf, pi, FALSE) \in FileStruct /\ PipeEnd(wf, pi, TRUE) \in FileStruct
      BY <2>5, <2>10
    <3> QED
      BY <2>1, <2>3, <2>5, <3>1, <3>2
  <2>12. /\ ofile' \in [Proc -> [Fd -> Ftable \cup {Nil}]]
         /\ ofile'[p][fd0] = rf /\ ofile'[p][fd1] = wf
         /\ \A q \in Proc : q # p => ofile'[q] = ofile[q]
         /\ \A d \in Fd : d # fd0 /\ d # fd1 => ofile'[p][d] = ofile[p][d]
    <3>1. ofile \in [Proc -> [Fd -> Ftable \cup {Nil}]]
      BY <2>7 DEF TypeInv
    <3> QED
      BY <2>1, <2>4, <2>5, <2>6, <3>1
  <2>13. NewPage(pi)
    BY <2>2, <2>8, <2>9 DEF NewPage
  <2>14. NewFiles(rf, wf, pi)
    BY <2>3, <2>5, <2>10, <2>11 DEF NewFiles, NewEnd
  <2>15. NewFds(p, fd0, fd1, rf, wf)
    BY <2>6, <2>12 DEF NewFds
  <2> QED
    BY <1>1, <1>2, <2>1, <2>2, <2>5, <2>6, <2>13, <2>14, <2>15, PipeNewKeeps
<1> QED
  BY <1>3, <1>4

==============================================================================
