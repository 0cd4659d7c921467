--------------------------------- MODULE File ---------------------------------
(***************************************************************************)
(* Open files: the file table of kernel/file.c and the system calls of     *)
(* kernel/sysfile.c that work on descriptors, over Pipe.  A file's name    *)
(* stands for its inode, content for what readi() and writei() see under   *)
(* its lock.  Writes to the console go to out.                             *)
(*                                                                         *)
(* fileclose() takes two steps, as in the code: the reference is given up  *)
(* under ftable.lock, and the pipe is closed after the release.            *)
(***************************************************************************)
EXTENDS Pipe

CONSTANTS
  Name,       \* the files
  Console,    \* the inode of the console
  NFILE, NOFILE,        \* kernel/param.h
  BSIZE,      \* bytes of a block
  MAXFILE,    \* longest file, in bytes
  MaxWrite,   \* bytes filewrite() gives writei() in one transaction
  UINT,       \* file offsets are unsigned and count modulo UINT, 2^32
  Mode        \* permissions of each inode: a subset of {"r", "w"}

VARIABLES
  file,       \* ftable.file
  ofile,      \* p->ofile
  pfd,        \* the array p[2] of runcmd(), as pipe() filled it
  content,    \* the bytes of each file
  out         \* what was written to the console

fileVars == <<file, ofile, pfd, content, out>>

Fd == 0 .. NOFILE - 1
Ftable == 1 .. NFILE
Inodes == Name \cup {Console}

FileStruct ==
  [ref : Nat, type : {"none", "pipe", "inode", "device"}, readable : BOOLEAN, writable : BOOLEAN,
   pipe : Pipes \cup {Nil}, ip : Inodes \cup {Nil}, off : Nat]

(* A system call c with its arguments, as argint(), argaddr() and namei()    *)
(* have fetched them.                                                        *)
FileCall(c) ==
  \/ c \in [op : {"dup", "close"}, fd : Int]
  \/ c \in [op : {"pipe"}]
  \/ c \in [op : {"open"}, ip : Inodes, omode : SUBSET {"rdonly", "wronly", "rdwr", "create", "trunc"}]
  \/ c \in [op : {"read"}, fd : Int, n : Int, room : Int]
  \/ c \in [op : {"write"}, fd : Int, bytes : Seq(Byte \cup {Nil}), n : Int]
  \/ c \in [op : {"lseek"}, fd : Int, offset : Int, whence : {"set", "cur", "end", "other"}]

(* close() or exit() on the way to pipeclose(), and what it goes on with. *)
Closing(c) ==
  c \in [op : {"pipeclose"}, pi : Pipes, writable : BOOLEAN, done : {Nil, [op |-> "exit"]}]

ASSUME FileAssumption ==
  /\ NFILE \in Nat /\ NOFILE \in Nat /\ BSIZE \in Nat \ {0} /\ MaxWrite \in Nat \ {0} /\ UINT \in Nat \ {0}
  /\ ~ FileCall(Nil) /\ ~ Closing(Nil) /\ Nil \notin Inodes /\ Nil \notin Ftable /\ Console \notin Name

ClosedFile == [ref |-> 0, type |-> "none", readable |-> FALSE, writable |-> FALSE,
               pipe |-> Nil, ip |-> Nil, off |-> 0]

ArgOk(p) == sys[p].fd \in Fd /\ ofile[p][sys[p].fd] # Nil      \* argfd()
FileOf(p) == file[ofile[p][sys[p].fd]]

(* filealloc(), fdalloc(): the first free entry. *)
FreeFiles == {f \in Ftable : file[f].ref = 0}
FreeFds(p) == {fd \in Fd : ofile[p][fd] = Nil}
Least(S) == CHOOSE x \in S : \A y \in S : x <= y

Stay == UNCHANGED <<pipeVars, killed, buf, pfd>>

-----------------------------------------------------------------------------
filedup(f) == [file EXCEPT ![f].ref = @ + 1]

SysDup(p) ==
  /\ InSys(p, "dup")
  /\ IF ArgOk(p) /\ FreeFds(p) # {}
       THEN LET fd == Least(FreeFds(p))
                f == ofile[p][sys[p].fd]
            IN /\ ofile' = [ofile EXCEPT ![p][fd] = f]
               /\ file' = filedup(f)
               /\ Return(p, fd)
       ELSE Return(p, -1) /\ UNCHANGED <<file, ofile>>
  /\ Stay /\ UNCHANGED <<content, out>>

(* Mutation: fileclose() closes the pipe whenever a descriptor goes. *)
CloseAlways(p, fd, done) ==
  LET f == ofile[p][fd] IN
  /\ ofile' = [ofile EXCEPT ![p][fd] = Nil]
  /\ file' = [file EXCEPT ![f] =
                IF file[f].ref > 1 THEN [file[f] EXCEPT !.ref = @ - 1]
                                   ELSE [file[f] EXCEPT !.ref = 0, !.type = "none"]]
  /\ sys' = [sys EXCEPT ![p] =
               IF file[f].type = "pipe"
                 THEN [op |-> "pipeclose", pi |-> file[f].pipe,
                       writable |-> file[f].writable, done |-> done]
                 ELSE done]

(* fileclose(), first half, of descriptor fd; the call goes on with done. *)
Close(p, fd, done) ==
  LET f == ofile[p][fd] IN
  /\ ofile' = [ofile EXCEPT ![p][fd] = Nil]
  /\ file' = [file EXCEPT ![f] =
                IF file[f].ref > 1 THEN [file[f] EXCEPT !.ref = @ - 1]
                                   ELSE [file[f] EXCEPT !.ref = 0, !.type = "none"]]
  /\ sys' = [sys EXCEPT ![p] =
               IF file[f].ref = 1 /\ file[f].type = "pipe"
                 THEN [op |-> "pipeclose", pi |-> file[f].pipe,
                       writable |-> file[f].writable, done |-> done]
                 ELSE done]

(* fileclose(), second half. *)
FilePipeClose(p) ==
  /\ InSys(p, "pipeclose")
  /\ PipeClose(p, sys[p].pi, sys[p].writable)
  /\ sys' = [sys EXCEPT ![p] = sys[p].done]
  /\ UNCHANGED <<killed, ret, buf, fileVars>>

SysClose(p) ==
  /\ InSys(p, "close")
  /\ IF ArgOk(p)
       THEN Close(p, sys[p].fd, Nil) /\ ret' = [ret EXCEPT ![p] = 0]
       ELSE Return(p, -1) /\ UNCHANGED <<file, ofile>>
  /\ Stay /\ UNCHANGED <<content, out>>

(* pipealloc() needs two file structures and a page, and gives back what it  *)
(* got when it does not get them all.                                        *)
FreePages == {pi \in Pipes : pipe[pi] = Nil}
pipealloc == Cardinality(FreeFiles) >= 2 /\ FreePages # {}
PipeEnd(f, pi, w) ==
  [file[f] EXCEPT !.ref = 1, !.type = "pipe", !.pipe = pi, !.readable = ~ w, !.writable = w]

(* sys_pipe(): a pipe and two descriptors, or nothing.  Free pages are       *)
(* interchangeable.                                                          *)
SysPipe(p) ==
  /\ InSys(p, "pipe")
  /\ IF ~ pipealloc \/ Cardinality(FreeFds(p)) < 2
       THEN Return(p, -1) /\ UNCHANGED <<pipe, file, ofile, pfd>>
       ELSE LET rf == Least(FreeFiles)
                wf == Least(FreeFiles \ {rf})
                fd0 == Least(FreeFds(p))
                fd1 == Least(FreeFds(p) \ {fd0})
            IN \E pi \in {CHOOSE x \in FreePages : TRUE} :
                 /\ pipe' = [pipe EXCEPT ![pi] = NewPipe]
                 /\ file' = [file EXCEPT ![rf] = PipeEnd(rf, pi, FALSE), ![wf] = PipeEnd(wf, pi, TRUE)]
                 /\ ofile' = [ofile EXCEPT ![p][fd0] = rf, ![p][fd1] = wf]
                 /\ pfd' = [pfd EXCEPT ![p] = <<fd0, fd1>>]
                 /\ Return(p, 0)
  /\ UNCHANGED <<plock, chan, killed, buf, content, out>>

(* sys_open(), from the permission tests on.  A name with O_CREATE always    *)
(* exists; read permission is tested by sys_read() only.                     *)
SysOpen(p) ==
  LET om == sys[p].omode
      ip == sys[p].ip
  IN
  /\ InSys(p, "open")
  /\ IF ("wronly" \in om /\ "w" \notin Mode[ip]) \/ FreeFiles = {} \/ FreeFds(p) = {}
       THEN Return(p, -1) /\ UNCHANGED <<file, ofile, content>>
       ELSE LET f == Least(FreeFiles)
                fd == Least(FreeFds(p))
            IN /\ file' = [file EXCEPT ![f] =
                    [ref |-> 1, type |-> IF ip = Console THEN "device" ELSE "inode",
                     readable |-> "wronly" \notin om,
                     writable |-> om \cap {"wronly", "rdwr"} # {},
                     pipe |-> @.pipe, ip |-> ip,
                     off |-> IF ip = Console THEN @.off ELSE 0]]
               /\ ofile' = [ofile EXCEPT ![p][fd] = f]
               /\ content' = IF "trunc" \in om /\ ip # Console
                               THEN [content EXCEPT ![ip] = <<>>] ELSE content
               /\ Return(p, fd)
  /\ Stay /\ UNCHANGED out

-----------------------------------------------------------------------------
(* The permission tests of sys_read() and sys_write() look at f->ip, whatever *)
(* the type of f: filealloc() does not clear it.                              *)
Denied(f, m) == f.ip # Nil /\ m \notin Mode[f.ip]

(* sys_read() and fileread(): a pipe goes on in piperead(); a file is read   *)
(* from f->off under the inode's lock, and f->off stays where it is when     *)
(* readi() cannot copy everything out; the console gives end of file here,   *)
(* before anything is copied.  readi() takes n for an unsigned number.       *)
SysRead(p) ==
  /\ InSys(p, "read")
  /\ IF ~ ArgOk(p) \/ Denied(FileOf(p), "r") \/ ~ FileOf(p).readable
     THEN Return(p, -1) /\ UNCHANGED <<file, buf>>
     ELSE LET f == FileOf(p) IN
          CASE f.type = "pipe" ->
                 /\ sys' = [sys EXCEPT ![p] = [op |-> "piperead", pi |-> f.pipe, n |-> @.n,
                                               room |-> @.room, got |-> <<>>, copy |-> FALSE]]
                 /\ UNCHANGED <<file, ret, buf>>
            [] f.type = "device" ->
                 Return(p, 0) /\ UNCHANGED <<file, buf>>
            [] f.type = "inode" ->
                 LET size == Len(content[f.ip])
                     n == sys[p].n % UINT
                     r == IF f.off > size \/ (f.off + n) % UINT < f.off THEN 0
                          ELSE IF f.off + n > size THEN size - f.off ELSE n
                     good == r <= sys[p].room
                     got == IF good THEN r ELSE sys[p].room
                 IN /\ buf' = [buf EXCEPT ![p] = SubSeq(content[f.ip], f.off + 1, f.off + got)]
                    /\ file' = IF good THEN [file EXCEPT ![ofile[p][sys[p].fd]].off = (@ + r) % UINT]
                                       ELSE file
                    /\ Return(p, IF good THEN r ELSE -1)
  /\ UNCHANGED <<pipeVars, killed, ofile, pfd, content, out>>

(* writei(): bytes stored from off on. *)
Stored(c, off, bytes) ==
  SubSeq(c, 1, off) \o bytes \o SubSeq(c, off + Len(bytes) + 1, Len(c))

(* either_copyin() gets the first k of bytes: the next one is not mapped. *)
Mapped(bytes, k) ==
  (\A i \in 1 .. k : bytes[i] # Nil) /\ (k < Len(bytes) => bytes[k + 1] = Nil)

(* Of n bytes written from off on, k of them mapped, writei() counts w: all  *)
(* of them, or the blocks before the one it could not fill.                  *)
Counted(off, n, k, w) ==
  IF k = n THEN w = n
  ELSE (w = 0 \/ (off + w) % BSIZE = 0) /\ \A i \in w + 1 .. k : (off + i) % BSIZE # 0

(* The bytes that can be seen afterwards: the ones counted, and those copied *)
(* to the buffer of that block, which is not logged, as far as the file has  *)
(* them (left bytes) and for as long as the buffer stays in the cache.       *)
Seen(w, k, left) == {w} \cup {x \in {k, left} : w <= x /\ x <= k /\ x <= left}

(* sys_write() and filewrite(): a pipe goes on in pipewrite(); a file is     *)
(* written in transactions of at most MaxWrite bytes, one step each.         *)
SysWrite(p) ==
  /\ InSys(p, "write")
  /\ IF ~ ArgOk(p) \/ Denied(FileOf(p), "w") \/ ~ FileOf(p).writable
     THEN Return(p, -1) /\ UNCHANGED <<file, content, out>>
     ELSE LET f == FileOf(p)
              bytes == sys[p].bytes
          IN
          CASE f.type = "pipe" ->
                 /\ sys' = [sys EXCEPT ![p] = [op |-> "pipewrite", pi |-> f.pipe,
                                               bytes |-> bytes, n |-> sys[p].n]]
                 /\ UNCHANGED <<file, content, out, ret>>
            [] f.type = "device" ->
                 \E k \in 0 .. Len(bytes) :
                   /\ Mapped(bytes, k)
                   /\ out' = out \o SubSeq(bytes, 1, k)
                   /\ Return(p, k)
                   /\ UNCHANGED <<file, content>>
            [] f.type = "inode" /\ bytes = <<>> ->
                 Return(p, sys[p].n) /\ UNCHANGED <<file, content, out>>
            [] f.type = "inode" /\ bytes # <<>> ->
                 LET n1 == IF Len(bytes) > MaxWrite THEN MaxWrite ELSE Len(bytes)
                     left == Len(content[f.ip]) - f.off
                     ok == left >= 0 /\ f.off + n1 <= MAXFILE
                 IN \E k \in 0 .. n1 : \E w \in 0 .. k : \E x \in Seen(w, k, left) :
                      /\ Mapped(SubSeq(bytes, 1, n1), k) /\ Counted(f.off, n1, k, w)
                      /\ IF ok
                           THEN /\ content' = [content EXCEPT ![f.ip] =
                                                 Stored(@, f.off, SubSeq(bytes, 1, x))]
                                /\ file' = [file EXCEPT ![ofile[p][sys[p].fd]].off = (@ + w) % UINT]
                           ELSE UNCHANGED <<file, content>>
                      /\ IF ok /\ w = n1 /\ n1 < Len(bytes)
                           THEN /\ sys' = [sys EXCEPT ![p].bytes = SubSeq(@, n1 + 1, Len(@))]
                                /\ UNCHANGED ret
                           ELSE Return(p, IF ok /\ w = n1 THEN sys[p].n ELSE -1)
                      /\ UNCHANGED out
  /\ Stay /\ UNCHANGED ofile

(* sys_lseek(): f->off and f->ip->size are unsigned, so that the tests for   *)
(* a sum below 0 never succeed; the sums are modulo UINT.  No program seeks  *)
(* on a pipe whose file structure never had an inode: f->ip is null there.   *)
SysLseek(p) ==
  /\ InSys(p, "lseek")
  /\ ArgOk(p) => FileOf(p).ip # Nil
  /\ IF ~ ArgOk(p)
     THEN Return(p, -1) /\ UNCHANGED file
     ELSE LET f == FileOf(p)
              size == IF f.ip = Console THEN 0 ELSE Len(content[f.ip])
              o == sys[p].offset
              to == CASE sys[p].whence = "set" -> IF o < 0 \/ o > size THEN -1 ELSE o
                      [] sys[p].whence = "cur" -> IF (f.off + o) % UINT > size THEN -1
                                                  ELSE (f.off + o) % UINT
                      [] sys[p].whence = "end" -> IF o > 0 THEN -1 ELSE (size + o) % UINT
                      [] OTHER -> -1
          IN /\ Return(p, to)
             /\ file' = IF to = -1 THEN file
                        ELSE [file EXCEPT ![ofile[p][sys[p].fd]].off = to]
  /\ Stay /\ UNCHANGED <<ofile, content, out>>

FileStep(p) ==
  \/ SysDup(p) \/ SysClose(p) \/ SysPipe(p) \/ SysOpen(p) \/ SysRead(p) \/ SysWrite(p)
  \/ SysLseek(p) \/ FilePipeClose(p)
  \/ PipeStep(p) /\ UNCHANGED fileVars

==============================================================================
