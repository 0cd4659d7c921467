---------------------------------- MODULE Fs ----------------------------------
(***************************************************************************)
(* Inodes in memory and the system calls on names (kernel/fs.c, sysfile.c, *)
(* file.c): the inode table with its references, copies and sleep locks;   *)
(* namex(); open, create, mkdir, mknod, link, unlink, chdir, chmod, close, *)
(* read, write and the end of a process.                                   *)
(*                                                                         *)
(* What a process does between two points where it may wait or lose the    *)
(* itable lock is one step.  iput() is four steps when it frees an inode;  *)
(* the calls queue the references they give up in put[p].  A transaction   *)
(* is durable when the last of those open at the same time ends (module    *)
(* Log refines AtomicDisk), so that a crash goes back to a state with no   *)
(* transaction open.                                                       *)
(***************************************************************************)
EXTENDS Inode

CONSTANTS
  Proc,
  NINODE,     \* entries of the inode table
  NOFILE,     \* open files of a process
  NDEV,       \* major device numbers
  MAXOPBLOCKS,
  Names,      \* the files mkfs puts into the root
  Scenario,   \* the calls each process makes, whether the machine crashes, and
              \* the room the rest of the system leaves in ftable
  Nil

VARIABLES
  disk,       \* as seen through the log and the buffer cache
  itab,       \* itable.inode: inum, ref, valid and the copy ip
  ilk,        \* holder of ip->lock
  outst,      \* log.outstanding
  pc, sys,    \* stage and arguments of p's system call
  ip, dp,     \* its local variables: entries of the inode table
  path,       \* what namex() has left of the path
  put,        \* references p gives up before it goes on
  freeing,    \* how far iput() is in freeing the first of them
  cwd, ofile, \* p->cwd; the inode entry and offset of each open file
  todo,       \* calls left to make
  leaked,     \* references that sys_chmod() has not given back, by entry
  lost        \* inodes that stay allocated although no path leads to them: the
              \* unlinked ones at a crash, what was made in a removed directory,
              \* and what iput() gave up the last reference to without freeing it

local == <<sys, ip, dp, path>>
held == <<put, freeing, cwd, ofile>>
ghost == <<leaked, lost>>
vars == <<disk, itab, ilk, outst, pc, local, held, todo, ghost>>

Slot == 0 .. NINODE - 1
Fd == 0 .. NOFILE - 1
FreeSlot == [inum |-> 0, ref |-> 0, valid |-> FALSE, ip |-> Dinode("none", 0)]

EmptySlot(t) ==
  IF \A s \in Slot : t[s].ref > 0 THEN Nil
  ELSE CHOOSE s \in Slot : t[s].ref = 0 /\ \A k \in 0 .. s - 1 : t[k].ref > 0

(* iget(): the entry of inum, or the first free one; it panics without. *)
Has(e, inum) == e.ref > 0 /\ e.inum = inum
SlotOf(t, inum) ==
  IF \E s \in Slot : Has(t[s], inum) THEN CHOOSE s \in Slot : Has(t[s], inum) ELSE EmptySlot(t)

Refer(t, inum, s) ==
  IF s = Nil THEN t
  ELSE IF t[s].ref > 0 THEN [t EXCEPT ![s].ref = @ + 1]
  ELSE [t EXCEPT ![s] = [FreeSlot EXCEPT !.inum = inum, !.ref = 1]]
iget(t, inum) == Refer(t, inum, SlotOf(t, inum))

Checked(d, s) == IF s = Nil THEN Panic(d, "iget: no inodes") ELSE d

(* ilock(): waits for the lock, and reads the copy if it is not valid; an    *)
(* inode that is not allocated is a panic.                                   *)
CanLock(s) == ilk[s] = Nil
Copy(s) == IF itab[s].valid THEN itab[s].ip ELSE disk.ino[itab[s].inum]
Store(t, s, c) == [t EXCEPT ![s].ip = c, ![s].valid = TRUE]
Load(s) == Store(itab, s, Copy(s))
Typed(d, s) == IF Copy(s).type = "none" THEN Panic(d, "ilock: no type") ELSE d

(* iinit(), userinit(): every process starts in the root directory. *)
BootTable ==
  [s \in Slot |-> IF s = 0 THEN [FreeSlot EXCEPT !.inum = ROOTINO, !.ref = Cardinality(Proc)] ELSE FreeSlot]
All(v) == [p \in Proc |-> v]
NoFiles == [fd \in Fd |-> Nil]

Init ==
  /\ disk = mkfs(Names)
  /\ itab = BootTable /\ ilk = [s \in Slot |-> Nil] /\ outst = 0
  /\ pc = All("idle") /\ sys = All(Nil) /\ ip = All(Nil) /\ dp = All(Nil) /\ path = All(<<>>)
  /\ put = All(<<>>) /\ freeing = All("no") /\ cwd = All(0) /\ ofile = All(NoFiles)
  /\ todo \in Scenario /\ leaked = [s \in Slot |-> 0] /\ lost = {}

-----------------------------------------------------------------------------
(* p is at stage l and has given up the references it had to. *)
At(p, l) == pc[p] = l /\ put[p] = <<>> /\ disk.panic = "none"
In(p, l, ops) == At(p, l) /\ sys[p].op \in ops
Goto(p, l) == pc' = [pc EXCEPT ![p] = l]
Drop(p, ss) == put' = [put EXCEPT ![p] = @ \o ss] /\ UNCHANGED <<freeing, cwd, ofile>>
Set(f, p, v) == [f EXCEPT ![p] = v]
Rest == UNCHANGED <<outst, todo, ghost>>

(* The inodes is get an entry in directory d, which may have been removed. *)
EntryIn(d, is) ==
  /\ lost' = IF itab[d].ip.nlink = 0 \/ itab[d].inum \in lost THEN lost \union is ELSE lost
  /\ UNCHANGED <<outst, todo, leaked>>

(* Mutation: iput() frees an inode without links to which others refer. *)
LastPutAny(s) == itab[s].valid /\ itab[s].ip.nlink = 0

(* iput(): drops a reference; the last one to an inode without links first   *)
(* frees it, which takes the inode's lock under itable.lock: it must be free. *)
LastPut(s) == itab[s].ref = 1 /\ itab[s].valid /\ itab[s].ip.nlink = 0

Unref(p) ==
  /\ itab' = [itab EXCEPT ![Head(put[p])].ref = @ - 1]
  /\ put' = [put EXCEPT ![p] = Tail(@)] /\ freeing' = Set(freeing, p, "no")
  /\ UNCHANGED <<disk, ilk, pc, local, cwd, ofile, outst, todo, leaked>>

Iput(p) ==
  /\ put[p] # <<>> /\ freeing[p] = "no" /\ disk.panic = "none"
  /\ ~ LastPut(Head(put[p]))
  /\ Unref(p) /\ UNCHANGED lost

IputLast(p) ==
  /\ put[p] # <<>> /\ freeing[p] = "no" /\ disk.panic = "none"
  /\ LastPut(Head(put[p]))
  /\ disk' = IF CanLock(Head(put[p])) THEN disk ELSE Panic(disk, "iput sleeps with itable.lock")
  /\ ilk' = Set(ilk, Head(put[p]), p)
  /\ freeing' = Set(freeing, p, "free")
  /\ UNCHANGED <<itab, pc, local, put, cwd, ofile>> /\ Rest

IputFree(p) ==
  /\ freeing[p] = "free" /\ disk.panic = "none"
  /\ \E s \in {Head(put[p])} : \E t \in {itrunc(disk, itab[s].inum, itab[s].ip)} :
       /\ disk' = iupdate(t.d, itab[s].inum, [t.ip EXCEPT !.type = "none"])
       /\ itab' = [itab EXCEPT ![s].ip = [t.ip EXCEPT !.type = "none"], ![s].valid = FALSE]
  /\ freeing' = Set(freeing, p, "freed")
  /\ lost' = lost \ {itab[Head(put[p])].inum}
  /\ UNCHANGED <<ilk, pc, local, put, cwd, ofile, outst, todo, leaked>>

(* releasesleep(); ref-- comes when it has itable.lock again.  Meanwhile      *)
(* ialloc() and iget() may have handed out the inode and its entry, and the   *)
(* new owner may have failed and put it: then nobody frees it.                *)
IputUnlock(p) ==
  /\ freeing[p] = "freed" /\ disk.panic = "none"
  /\ ilk' = Set(ilk, Head(put[p]), Nil)
  /\ freeing' = Set(freeing, p, "unlocked")
  /\ UNCHANGED <<disk, itab, pc, local, put, cwd, ofile>> /\ Rest

IputEnd(p) ==
  /\ freeing[p] = "unlocked" /\ disk.panic = "none"
  /\ Unref(p)
  /\ lost' = IF LastPut(Head(put[p])) THEN lost \union {itab[Head(put[p])].inum} ELSE lost

-----------------------------------------------------------------------------
idup(t, s) == [t EXCEPT ![s].ref = @ + 1]

(* The start of namex(): the root for "/", else the current directory.       *)
Start(t, p, name) ==
  IF name # <<>> /\ Head(name) = "/" THEN [t |-> iget(t, ROOTINO), s |-> SlotOf(t, ROOTINO), path |-> Tail(name)]
  ELSE [t |-> idup(t, cwd[p]), s |-> cwd[p], path |-> name]

WantsParent(c) == c.op \in {"mkdir", "mknod", "unlink"} \/ (c.op = "open" /\ "create" \in c.omode)

(* A call on a path: begin_op(), and into namex(). *)
Begin(p) ==
  /\ At(p, "idle") /\ todo.calls[p] # <<>>
  /\ \E c \in {Head(todo.calls[p])} : \E st \in {Start(itab, p, c.path)} :
       /\ c.op \notin {"close", "write", "read", "exit"}
       /\ sys' = Set(sys, p, [c EXCEPT !.parent = WantsParent(c)])
       /\ disk' = Checked(disk, st.s) /\ itab' = st.t
       /\ ip' = Set(ip, p, st.s) /\ path' = Set(path, p, st.path)
  /\ todo' = [todo EXCEPT !.calls[p] = Tail(@)]
  /\ outst' = outst + 1
  /\ Goto(p, "walk")
  /\ UNCHANGED <<ilk, dp, held, ghost>>

(* The return value 0 of namex(). *)
NotFound(p) == IF sys[p].op = "link" /\ sys[p].parent THEN "link bad" ELSE "end"

(* namex() at the end of the path. *)
WalkEnd(p) ==
  /\ At(p, "walk") /\ path[p] = <<>>
  /\ IF sys[p].parent THEN Drop(p, <<ip[p]>>) /\ Goto(p, NotFound(p))
                      ELSE Goto(p, "got") /\ UNCHANGED held
  /\ UNCHANGED <<disk, itab, ilk, local>> /\ Rest

(* One element of the path: the directory is locked, the name looked up and  *)
(* referred to, the directory unlocked and put.                              *)
WalkFail(p, s) ==
  /\ disk' = Typed(disk, s)
  /\ Drop(p, <<s>>) /\ Goto(p, NotFound(p))
  /\ UNCHANGED <<ip, path>>

WalkOn(p, s, to) ==
  /\ disk' = Checked(disk, to)
  /\ ip' = Set(ip, p, to) /\ path' = Set(path, p, Tail(path[p]))
  /\ Drop(p, <<s>>)
  /\ UNCHANGED pc

AtParent(p) == sys[p].parent /\ Len(path[p]) = 1

Walk(p) ==
  /\ At(p, "walk") /\ path[p] # <<>>
  /\ \E s \in {ip[p]} : \E c \in {Copy(s)} : \E t \in {Load(s)} :
     \E next \in {IF c.type # "dir" \/ AtParent(p) THEN 0 ELSE dirlookup(disk, c, Head(path[p]))} :
       /\ CanLock(s)
       /\ itab' = IF next = 0 THEN t ELSE iget(t, next)
       /\ \/ c.type # "dir" /\ WalkFail(p, s)
          \/ c.type = "dir" /\ AtParent(p) /\ Goto(p, "got") /\ UNCHANGED <<disk, ip, path, held>>
          \/ c.type = "dir" /\ ~ AtParent(p) /\ next = 0 /\ WalkFail(p, s)
          \/ next # 0 /\ WalkOn(p, s, SlotOf(t, next))
  /\ UNCHANGED <<ilk, sys, dp>> /\ Rest

(* end_op() *)
End(p) ==
  /\ At(p, "end")
  /\ outst' = outst - 1
  /\ Goto(p, "idle")
  /\ sys' = Set(sys, p, Nil) /\ ip' = Set(ip, p, Nil) /\ dp' = Set(dp, p, Nil) /\ path' = Set(path, p, <<>>)
  /\ UNCHANGED <<disk, itab, ilk, held, todo, ghost>>

-----------------------------------------------------------------------------
(* sys_open() of an inode that is there; create() in the parent follows.     *)
OpenFound(p) ==
  LET s == ip[p] IN
  /\ In(p, "got", {"open"}) /\ ~ sys[p].parent /\ CanLock(s)
  /\ disk' = Typed(disk, s) /\ itab' = Load(s)
  /\ IF Copy(s).type = "dir" /\ sys[p].omode # {"rdonly"}
       THEN Drop(p, <<s>>) /\ Goto(p, "end") /\ UNCHANGED ilk
       ELSE ilk' = Set(ilk, s, p) /\ Goto(p, "open") /\ UNCHANGED held
  /\ UNCHANGED local /\ Rest

(* create(), the name exists: open() takes a file or device, the rest fails. *)
Named(p, s) == dirlookup(disk, Copy(s), path[p][1])

CreateLookup(p) ==
  /\ In(p, "got", {"open", "mkdir", "mknod"}) /\ sys[p].parent
  /\ \E s \in {ip[p]} : \E inum \in {Named(p, s)} : \E t \in {Load(s)} : \E to \in {SlotOf(t, inum)} :
       /\ CanLock(s) /\ inum # 0
       /\ disk' = Checked(disk, to) /\ itab' = iget(t, inum) /\ ip' = Set(ip, p, to)
       /\ Drop(p, <<s>>)
  /\ Goto(p, "exists")
  /\ UNCHANGED <<ilk, sys, dp, path>> /\ Rest

CreateExists(p) ==
  LET s == ip[p] IN
  /\ At(p, "exists") /\ CanLock(s)
  /\ disk' = Typed(disk, s) /\ itab' = Load(s)
  /\ IF sys[p].op = "open" /\ Copy(s).type \in {"file", "device"}
       THEN ilk' = Set(ilk, s, p) /\ Goto(p, "open") /\ UNCHANGED held
       ELSE Drop(p, <<s>>) /\ Goto(p, "end") /\ UNCHANGED ilk
  /\ UNCHANGED local /\ Rest

(* create(), the name is new: the directory stays locked over ialloc() ... *)
TypeOf(op) == CASE op = "open" -> "file" [] op = "mkdir" -> "dir" [] op = "mknod" -> "device"

CreateAlloc(p) ==
  /\ In(p, "got", {"open", "mkdir", "mknod"}) /\ sys[p].parent
  /\ \E s \in {ip[p]} : \E a \in {ialloc(disk, TypeOf(sys[p].op))} : \E to \in {SlotOf(Load(s), a.inum)} :
       /\ CanLock(s) /\ Named(p, s) = 0
       /\ \/ /\ a.inum = 0
             /\ itab' = Load(s) /\ Drop(p, <<s>>) /\ Goto(p, "end")
             /\ UNCHANGED <<disk, ilk, ip, dp>>
          \/ /\ a.inum # 0
             /\ disk' = Checked(a.d, to) /\ itab' = iget(Load(s), a.inum)
             /\ ilk' = Set(ilk, s, p) /\ dp' = Set(dp, p, s) /\ ip' = Set(ip, p, to)
             /\ Goto(p, "create") /\ UNCHANGED held
  /\ UNCHANGED <<sys, path>> /\ Rest

(* Mutation: a directory is made without counting its "..". *)
DotDotUncounted(c, isdir) == c

(* dp->nlink++ for ".." of a new directory. *)
DotDot(c, isdir) == IF isdir THEN [c EXCEPT !.nlink = @ + 1] ELSE c

(* ... and the new inode gets its link, its own entries and its name.  l has *)
(* the disk, the inode and whether all went well.                            *)
LinkUnless(l, isdir, inum, name, to) == IF l.ok /\ isdir THEN dirlink(l.d, inum, l.ip, name, to) ELSE l
Fresh(p, c) == [c EXCEPT !.nlink = 1, !.major = sys[p].major]
NewInode(p, i, di) ==
  LinkUnless(LinkUnless([d |-> iupdate(disk, i, Fresh(p, disk.ino[i])), ip |-> Fresh(p, disk.ino[i]), ok |-> TRUE],
                        sys[p].op = "mkdir", i, ".", i), sys[p].op = "mkdir", i, "..", di)
Filled(l, di, c, name, i) == IF l.ok THEN dirlink(l.d, di, c, name, i) ELSE [d |-> l.d, ip |-> c, ok |-> FALSE]

CreateDone(p, s, d, child, parent, dsk) ==
  /\ disk' = iupdate(dsk, itab[d].inum, parent)
  /\ EntryIn(d, {itab[s].inum} \union (IF sys[p].op = "mkdir" THEN {itab[d].inum} ELSE {}))
  /\ itab' = Store(Store(itab, d, parent), s, child)
  /\ ilk' = [ilk EXCEPT ![d] = Nil, ![s] = p]
  /\ Drop(p, <<d>>) /\ Goto(p, IF sys[p].op = "open" THEN "open" ELSE "made")

(* The label fail: the inode is given up again, then the directory (Bad). *)
CreateFail(p, s, d, child, parent, dsk) ==
  /\ disk' = iupdate(dsk, itab[s].inum, child)
  /\ itab' = Store(Store(itab, d, parent), s, child)
  /\ Drop(p, <<s>>) /\ Goto(p, "bad") /\ UNCHANGED ilk /\ Rest

CreateFill(p) ==
  /\ At(p, "create") /\ CanLock(ip[p])
  /\ \E s \in {ip[p]} : \E d \in {dp[p]} :
     \E l \in {NewInode(p, itab[s].inum, itab[d].inum)} :
     \E r \in {Filled(l, itab[d].inum, itab[d].ip, path[p][1], itab[s].inum)} :
       \/ r.ok /\ CreateDone(p, s, d, l.ip, DotDot(r.ip, sys[p].op = "mkdir"), r.d)
       \/ ~ r.ok /\ CreateFail(p, s, d, [l.ip EXCEPT !.nlink = 0], r.ip, r.d)
  /\ UNCHANGED local

(* sys_mkdir() and sys_mknod() give the new inode up at once. *)
Made(p) ==
  /\ At(p, "made")
  /\ ilk' = Set(ilk, ip[p], Nil) /\ Drop(p, <<ip[p]>>) /\ Goto(p, "end")
  /\ UNCHANGED <<disk, itab, local>> /\ Rest

(* The rest of sys_open(), under ip->lock: a device needs a driver, and the   *)
(* file a place in ftable and in p->ofile.  A file that may not be written    *)
(* makes it return without end_op(); O_RDONLY is 0, so that reading is never  *)
(* refused.                                                                   *)
NoDriver(c) == c.type = "device" /\ c.major \notin 0 .. NDEV - 1
Denied(p, c) == ~ NoDriver(c) /\ "wronly" \in sys[p].omode /\ "w" \notin c.mode /\ c.type # "dir"
OpenFiles == {<<q, fd>> \in Proc \X Fd : ofile[q][fd] # Nil}
FreeFds(p) == IF Cardinality(OpenFiles) < todo.room THEN {fd \in Fd : ofile[p][fd] = Nil} ELSE {}
Opened(s, omode) ==
  [s |-> s, off |-> 0, readable |-> "wronly" \notin omode, writable |-> omode \cap {"wronly", "rdwr"} # {}]
Trunc(p, c) == "trunc" \in sys[p].omode /\ c.type = "file"

OpenFile(p) ==
  /\ At(p, "open")
  /\ ilk' = Set(ilk, ip[p], Nil)
  /\ \E s \in {ip[p]} : \E c \in {itab[s].ip} : \E fds \in {FreeFds(p)} :
     \E t \in {IF Trunc(p, c) THEN itrunc(disk, itab[s].inum, c) ELSE [d |-> disk, ip |-> c]} :
       \/ /\ NoDriver(c) \/ Denied(p, c) \/ fds = {}
          /\ Drop(p, <<s>>) /\ Goto(p, IF Denied(p, c) THEN "idle" ELSE "end")
          /\ UNCHANGED <<disk, itab>>
       \/ /\ ~ NoDriver(c) /\ ~ Denied(p, c) /\ fds # {}
          /\ disk' = t.d /\ itab' = Store(itab, s, t.ip)
          /\ ofile' = [ofile EXCEPT ![p][Min(fds)] = Opened(s, sys[p].omode)]
          /\ Goto(p, "end") /\ UNCHANGED <<put, freeing, cwd>>
  /\ UNCHANGED local /\ Rest

-----------------------------------------------------------------------------
(* Mutation: "." and ".." may be unlinked. *)
ReservedNone(name) == FALSE

Reserved(name) == name \in {".", ".."}

(* sys_unlink(): the entry is looked up under the directory's lock ... *)
UnlinkLookup(p) ==
  /\ In(p, "got", {"unlink"}) /\ CanLock(ip[p])
  /\ \E s \in {ip[p]} : \E inum \in {Named(p, s)} : \E t \in {Load(s)} : \E to \in {SlotOf(t, inum)} :
       \/ /\ Reserved(path[p][1]) \/ inum = 0
          /\ itab' = t /\ Drop(p, <<s>>) /\ Goto(p, "end")
          /\ UNCHANGED <<disk, ilk, ip, dp>>
       \/ /\ ~ Reserved(path[p][1]) /\ inum # 0
          /\ disk' = Checked(disk, to) /\ itab' = iget(t, inum)
          /\ ilk' = Set(ilk, s, p) /\ dp' = Set(dp, p, s) /\ ip' = Set(ip, p, to)
          /\ Goto(p, "unlink") /\ UNCHANGED held
  /\ UNCHANGED <<sys, path>> /\ Rest

Removable(c) == c.type # "dir" \/ isdirempty(disk, c)

(* ... and cleared with the file locked too; a directory that is not empty   *)
(* stays.                                                                    *)
Uncounted(c, isdir) == IF isdir THEN [c EXCEPT !.nlink = @ - 1] ELSE c
Cleared(p, di, c) == writei(disk, di, c, LookupOff(disk, c, path[p][1]), <<NoEntry>>)

UnlinkEntry(p) ==
  /\ At(p, "unlink") /\ CanLock(ip[p])
  /\ \E s \in {ip[p]} : \E d \in {dp[p]} : \E c \in {Copy(s)} :
       \/ /\ c.nlink < 1 \/ ~ Removable(c)
          /\ disk' = IF c.nlink < 1 THEN Panic(Typed(disk, s), "unlink: nlink < 1") ELSE disk
          /\ itab' = Load(s) /\ Drop(p, <<s>>) /\ Goto(p, "bad") /\ UNCHANGED ilk
       \/ /\ c.nlink >= 1 /\ Removable(c)
          /\ \E w \in {Cleared(p, itab[d].inum, itab[d].ip)} :
             \E parent \in {Uncounted(w.ip, c.type = "dir")} :
               disk' = iupdate(w.d, itab[d].inum, parent) /\ itab' = Store(Load(s), d, parent)
          /\ ilk' = [ilk EXCEPT ![d] = Nil, ![s] = p]
          /\ Drop(p, <<d>>) /\ Goto(p, "unlinked")
  /\ UNCHANGED local /\ Rest

(* The label bad. *)
Bad(p) ==
  /\ At(p, "bad")
  /\ ilk' = Set(ilk, dp[p], Nil) /\ Drop(p, <<dp[p]>>) /\ Goto(p, "end")
  /\ UNCHANGED <<disk, itab, local>> /\ Rest

UnlinkCount(p) ==
  LET s == ip[p]
      c == [itab[s].ip EXCEPT !.nlink = @ - 1]
  IN
  /\ At(p, "unlinked")
  /\ disk' = iupdate(disk, itab[s].inum, c) /\ itab' = Store(itab, s, c)
  /\ ilk' = Set(ilk, s, Nil) /\ Drop(p, <<s>>) /\ Goto(p, "end")
  /\ UNCHANGED local /\ Rest

(* sys_link(): the link is counted before the new name exists ... *)
LinkCount(p) ==
  /\ In(p, "got", {"link"}) /\ ~ sys[p].parent /\ CanLock(ip[p])
  /\ \E s \in {ip[p]} : \E c \in {[Copy(s) EXCEPT !.nlink = @ + 1]} :
       \/ /\ c.type \in {"dir", "none"}
          /\ disk' = Typed(disk, s) /\ itab' = Load(s) /\ Drop(p, <<s>>) /\ Goto(p, "end")
          /\ UNCHANGED local
       \/ /\ c.type \notin {"dir", "none"}
          /\ \E st \in {Start(Store(itab, s, c), p, sys[p].new)} :
               /\ disk' = Checked(iupdate(disk, itab[s].inum, c), st.s) /\ itab' = st.t
               /\ ip' = Set(ip, p, st.s) /\ path' = Set(path, p, st.path)
          /\ sys' = [sys EXCEPT ![p].parent = TRUE] /\ dp' = Set(dp, p, s)
          /\ Goto(p, "walk") /\ UNCHANGED held
  /\ UNCHANGED ilk /\ Rest

LinkName(p) ==
  /\ In(p, "got", {"link"}) /\ sys[p].parent /\ CanLock(ip[p])
  /\ \E s \in {ip[p]} : \E l \in {dirlink(disk, itab[s].inum, Copy(s), path[p][1], itab[dp[p]].inum)} :
       /\ disk' = l.d /\ itab' = Store(itab, s, l.ip)
       /\ IF l.ok THEN Drop(p, <<s, dp[p]>>) /\ Goto(p, "end") /\ EntryIn(s, {itab[dp[p]].inum})
                  ELSE Drop(p, <<s>>) /\ Goto(p, "link bad") /\ Rest
  /\ UNCHANGED <<ilk, local>>

(* ... and taken back if it does not come to exist. *)
LinkBad(p) ==
  LET s == dp[p]
      c == [Copy(s) EXCEPT !.nlink = @ - 1]
  IN
  /\ At(p, "link bad") /\ CanLock(s)
  /\ disk' = iupdate(disk, itab[s].inum, c) /\ itab' = Store(itab, s, c)
  /\ Drop(p, <<s>>) /\ Goto(p, "end")
  /\ UNCHANGED <<ilk, local>> /\ Rest

-----------------------------------------------------------------------------
(* sys_chdir(): the old directory is put before p->cwd changes. *)
Chdir(p) ==
  LET s == ip[p] IN
  /\ In(p, "got", {"chdir"}) /\ CanLock(s)
  /\ disk' = Typed(disk, s) /\ itab' = Load(s)
  /\ IF Copy(s).type = "dir" THEN Drop(p, <<cwd[p]>>) /\ Goto(p, "chdir")
                             ELSE Drop(p, <<s>>) /\ Goto(p, "end")
  /\ UNCHANGED <<ilk, local>> /\ Rest

ChdirEnd(p) ==
  /\ At(p, "chdir")
  /\ outst' = outst - 1 /\ cwd' = Set(cwd, p, ip[p])
  /\ Goto(p, "idle")
  /\ sys' = Set(sys, p, Nil) /\ ip' = Set(ip, p, Nil) /\ path' = Set(path, p, <<>>)
  /\ UNCHANGED <<disk, itab, ilk, dp, put, freeing, ofile, todo, ghost>>

(* sys_chmod() never puts the inode. *)
Chmod(p) ==
  LET s == ip[p]
      c == [Copy(s) EXCEPT !.mode = sys[p].mode]
  IN
  /\ In(p, "got", {"chmod"}) /\ CanLock(s)
  /\ disk' = iupdate(Typed(disk, s), itab[s].inum, c) /\ itab' = Store(itab, s, c)
  /\ leaked' = [leaked EXCEPT ![s] = @ + 1] /\ Goto(p, "end")
  /\ UNCHANGED <<ilk, local, held, outst, todo, lost>>

-----------------------------------------------------------------------------
(* Calls on a descriptor.  sys_close(), fileclose(): the last reference to   *)
(* the file puts its inode in a transaction of its own.                      *)
Next1(p, op) == At(p, "idle") /\ todo.calls[p] # <<>> /\ Head(todo.calls[p]).op = op
Taken(p) == [todo EXCEPT !.calls[p] = Tail(@)]
FileOf(p) == ofile[p][Head(todo.calls[p]).fd]

BadFd(p) ==
  /\ Next1(p, "close") \/ Next1(p, "write") \/ Next1(p, "read")
  /\ FileOf(p) = Nil
  /\ todo' = Taken(p)
  /\ UNCHANGED <<disk, itab, ilk, outst, pc, local, held, ghost>>

Close(p) ==
  /\ Next1(p, "close") /\ FileOf(p) # Nil
  /\ todo' = Taken(p)
  /\ ofile' = [ofile EXCEPT ![p][Head(todo.calls[p]).fd] = Nil]
  /\ put' = Set(put, p, <<FileOf(p).s>>)
  /\ outst' = outst + 1 /\ Goto(p, "end")
  /\ UNCHANGED <<disk, itab, ilk, local, freeing, cwd, ghost>>

(* sys_write() and sys_read() test the mode without the inode's lock; then   *)
(* filewrite() writes pieces of at most max bytes, each in a transaction of  *)
(* its own, and fileread() reads under the lock.  A device is its driver's.  *)
Allows(op, f, c) ==
  /\ IF op = "read" THEN f.readable ELSE f.writable
  /\ c.type # "device"
  /\ c.type = "dir" \/ (IF op = "read" THEN "r" ELSE "w") \in c.mode
MayCall(p, op) == Next1(p, op) /\ FileOf(p) # Nil /\ Allows(op, FileOf(p), itab[FileOf(p).s].ip)

Refused(p) ==
  /\ \E op \in {"read", "write"} : Next1(p, op) /\ FileOf(p) # Nil /\ ~ MayCall(p, op)
  /\ todo' = Taken(p)
  /\ UNCHANGED <<disk, itab, ilk, outst, pc, local, held, ghost>>

WriteStart(p) ==
  /\ MayCall(p, "write")
  /\ todo' = Taken(p)
  /\ sys' = Set(sys, p, Head(todo.calls[p])) /\ Goto(p, "piece")
  /\ UNCHANGED <<disk, itab, ilk, outst, ip, dp, path, held, ghost>>

max == ((MAXOPBLOCKS - 1 - 1 - 2) \div 2) * BSIZE

WriteBegin(p) ==
  /\ At(p, "piece") /\ sys[p].n > 0
  /\ outst' = outst + 1 /\ Goto(p, "write")
  /\ UNCHANGED <<disk, itab, ilk, local, held, todo, ghost>>

(* The user's memory has only the first sys[p].good slots of the rest. *)
Piece(p) == [i \in 1 .. Min({sys[p].n, max}) |-> IF i <= sys[p].good THEN NoEntry ELSE Fault]
WroteLess(c, n1) == IF n1 < 0 THEN [c EXCEPT !.n = 0] ELSE [c EXCEPT !.n = @ - n1, !.good = @ - n1]

Write(p) ==
  /\ At(p, "write")
  /\ \E f \in {ofile[p][sys[p].fd]} : \E piece \in {Piece(p)} :
     \E w \in {writei(disk, itab[f.s].inum, Copy(f.s), f.off, piece)} :
       /\ CanLock(f.s)
       /\ disk' = w.d /\ itab' = Store(itab, f.s, w.ip)
       /\ ofile' = [ofile EXCEPT ![p][sys[p].fd].off = IF w.n > 0 THEN @ + w.n ELSE @]
       /\ sys' = Set(sys, p, WroteLess(sys[p], IF w.n = Len(piece) THEN w.n ELSE -1))
  /\ Goto(p, "written")
  /\ UNCHANGED <<ilk, ip, dp, path, put, freeing, cwd>> /\ Rest

(* end_op(), and the next piece unless one was cut short. *)
WriteEnd(p) ==
  /\ At(p, "written")
  /\ outst' = outst - 1 /\ Goto(p, "piece")
  /\ UNCHANGED <<disk, itab, ilk, local, held, todo, ghost>>

WriteReturn(p) ==
  /\ At(p, "piece") /\ sys[p].n = 0
  /\ sys' = Set(sys, p, Nil) /\ Goto(p, "idle")
  /\ UNCHANGED <<disk, itab, ilk, outst, ip, dp, path, held, todo, ghost>>

Read(p) ==
  LET f == FileOf(p)
      fd == Head(todo.calls[p]).fd
      n == Min({itab[f.s].ip.size - f.off, Head(todo.calls[p]).n})
  IN
  /\ MayCall(p, "read") /\ CanLock(f.s)
  /\ todo' = Taken(p)
  /\ ofile' = IF n < 1 \/ Head(todo.calls[p]).good < n THEN ofile ELSE [ofile EXCEPT ![p][fd].off = @ + n]
  /\ UNCHANGED <<disk, itab, ilk, outst, pc, local, put, freeing, cwd, ghost>>

(* exit(), the files being closed: the current directory is put. *)
Exit(p) ==
  /\ Next1(p, "exit") /\ ofile[p] = NoFiles
  /\ todo' = [todo EXCEPT !.calls[p] = <<>>]
  /\ put' = Set(put, p, <<cwd[p]>>) /\ cwd' = Set(cwd, p, Nil)
  /\ outst' = outst + 1 /\ Goto(p, "end")
  /\ UNCHANGED <<disk, itab, ilk, local, freeing, ofile, ghost>>

(* A crash, seen from the state it goes back to: memory is gone, the         *)
(* processes are new ones.                                                   *)
Crash ==
  /\ todo.crash /\ outst = 0 /\ disk.panic = "none"
  /\ todo' = [todo EXCEPT !.crash = FALSE]
  /\ itab' = BootTable /\ ilk' = [s \in Slot |-> Nil] /\ outst' = 0
  /\ pc' = All("idle") /\ sys' = All(Nil) /\ ip' = All(Nil) /\ dp' = All(Nil) /\ path' = All(<<>>)
  /\ put' = All(<<>>) /\ freeing' = All("no") /\ cwd' = All(0) /\ ofile' = All(NoFiles)
  /\ leaked' = [s \in Slot |-> 0]
  /\ lost' = lost \union {i \in Inum : disk.ino[i].type # "none" /\ disk.ino[i].nlink = 0}
  /\ UNCHANGED disk

Step(p) ==
  \/ Iput(p) \/ IputLast(p) \/ IputFree(p) \/ IputUnlock(p) \/ IputEnd(p)
  \/ Begin(p) \/ Walk(p) \/ WalkEnd(p) \/ End(p)
  \/ OpenFound(p) \/ CreateLookup(p) \/ CreateExists(p) \/ CreateAlloc(p) \/ CreateFill(p) \/ Made(p) \/ OpenFile(p)
  \/ UnlinkLookup(p) \/ UnlinkEntry(p) \/ Bad(p) \/ UnlinkCount(p)
  \/ LinkCount(p) \/ LinkName(p) \/ LinkBad(p)
  \/ Chdir(p) \/ ChdirEnd(p) \/ Chmod(p)
  \/ BadFd(p) \/ Close(p) \/ Refused(p) \/ Read(p) \/ Exit(p)
  \/ WriteStart(p) \/ WriteBegin(p) \/ Write(p) \/ WriteEnd(p) \/ WriteReturn(p)

(* All calls are made. *)
Done ==
  /\ \A p \in Proc : At(p, "idle") /\ todo.calls[p] = <<>>
  /\ UNCHANGED vars

Next == (\E p \in Proc : Step(p)) \/ Crash \/ Done

Spec == Init /\ [][Next]_vars

-----------------------------------------------------------------------------
(* No assertion of the code fails: no block is freed twice, no link count is *)
(* 0 under an entry, the inode table is large enough, iput() never has to    *)
(* wait for the lock of the inode it frees ("this acquiresleep() won't block *)
(* (or deadlock)"), and ilock() finds an inode allocated.  The last is so    *)
(* while no path goes through ".." of a directory that has been removed: see *)
(* MCFsParent.cfg for one that does.                                         *)
NoPanic == disk.panic = "none"

Allocated == {i \in Inum : disk.ino[i].type # "none"}
(* The entries of directory j for i that count as links: "." does not, nor   *)
(* the root's "..".                                                          *)
Links(j, i) ==
  {o \in Offsets(disk.ino[j]) :
     /\ disk.ino[j].type = "dir"
     /\ Entry(disk, disk.ino[j], o)[2] = i
     /\ Entry(disk, disk.ino[j], o)[1] # "."
     /\ ~ (j = ROOTINO /\ Entry(disk, disk.ino[j], o)[1] = "..")}

(* What a path from the root can lead to. *)
Reachable ==
  LET to == [j \in Inum |-> {i \in Inum : Links(j, i) # {}}]
  IN {i \in Inum : \A R \in SUBSET Inum : ROOTINO \in R /\ (\A j \in R : to[j] \subseteq R) => i \in R}

(* Between transactions - so, after a crash too - the disk is consistent:    *)
(* what a path can reach is allocated and has as many links as there are     *)
(* entries for it (the root one more); an allocated inode that cannot be     *)
(* reached has no links left and is somebody's open file or current          *)
(* directory, with the three exceptions that lost records; a block belongs   *)
(* to one inode and is marked, and every marked block belongs to one.        *)
DiskConsistent ==
  outst = 0 /\ NoPanic =>
    \E reachable \in {Reachable} :
      /\ reachable \subseteq Allocated
      /\ \A i \in reachable \ lost :
           disk.ino[i].nlink = MapThenSumSet(LAMBDA j : Cardinality(Links(j, i)), reachable)
                               + (IF i = ROOTINO THEN 1 ELSE 0)
      /\ \A i \in Allocated \ (reachable \union lost) :
           disk.ino[i].nlink = 0 /\ \E s \in Slot : Has(itab[s], i)
      /\ \A i, j \in Allocated : i # j => BlocksOf(disk, disk.ino[i]) \cap BlocksOf(disk, disk.ino[j]) = {}
      /\ disk.used = UNION {BlocksOf(disk, disk.ino[i]) : i \in Allocated}

(* The references p holds to entry s. *)
Local(p, s) ==
  LET ipStages == {"walk", "got", "exists", "open", "create", "made", "unlink", "unlinked", "chdir"}
      dpHeld == \/ pc[p] \in {"create", "unlink", "bad", "link bad"}
                \/ pc[p] \in {"walk", "got"} /\ sys[p].op = "link" /\ sys[p].parent
  IN Cardinality({x \in {"ip"} : pc[p] \in ipStages /\ ip[p] = s})
     + Cardinality({x \in {"dp"} : dpHeld /\ dp[p] = s})
     + Cardinality({x \in {"cwd"} : cwd[p] = s /\ pc[p] # "chdir"})
     + Cardinality({k \in DOMAIN put[p] : put[p][k] = s})
     + Cardinality({fd \in Fd : ofile[p][fd] # Nil /\ ofile[p][fd].s = s})

(* The table has one entry for an inode, a copy that is the disk's - so that *)
(* an entry can be reused at any time without losing a change - and exactly  *)
(* one reference for every pointer to the entry, plus one for every          *)
(* sys_chmod() that found the inode: it does not call iput().                *)
TableExact ==
  NoPanic =>
    /\ \A s, t \in Slot : s # t /\ itab[s].ref > 0 /\ itab[t].ref > 0 => itab[s].inum # itab[t].inum
    /\ \A s \in Slot : itab[s].ref = MapThenSumSet(LAMBDA p : Local(p, s), Proc) + leaked[s]
    /\ \A s \in Slot : itab[s].ref > 0 /\ itab[s].valid => itab[s].ip = disk.ino[itab[s].inum]

(* The inode whose lock p needs next, if there is one. *)
Wants(p) ==
  IF put[p] # <<>> THEN {}
  ELSE CASE pc[p] \in {"exists", "create", "unlink", "got"} -> {ip[p]}
         [] pc[p] = "walk" /\ path[p] # <<>> -> {ip[p]}
         [] pc[p] = "link bad" -> {dp[p]}
         [] pc[p] = "write" -> {ofile[p][sys[p].fd].s}
         [] OTHER -> {}
Waits(p, q) == \E s \in Wants(p) : ilk[s] = q

(* Processes never wait for each other's inodes in a circle, and none for    *)
(* one it holds: directories are locked before what is in them.              *)
NoCircularWait ==
  \A p, q \in Proc : Waits(p, q) => p # q /\ ~ Waits(q, p)

==============================================================================
