--------------------------------- MODULE Inode ---------------------------------
(***************************************************************************)
(* The on-disk file system (kernel/fs.c) as operators on a disk d: the     *)
(* dinodes, the bitmap, the indirect blocks and the directory blocks, with *)
(* d.panic set where the code panics; and the image mkfs (mkfs/mkfs.c)     *)
(* makes.  Sizes and offsets count slots of one directory entry; what a    *)
(* file's own blocks hold is left out.                                     *)
(***************************************************************************)
EXTENDS Integers, Sequences, FiniteSets, SequencesExt, FiniteSetsExt

CONSTANTS
  NINODES,    \* sb.ninodes
  NBLOCKS,    \* data blocks, numbered from 1
  BSIZE,      \* slots in a block
  NDIRECT, NINDIRECT

ASSUME InodeAssumption ==
  /\ NINODES \in Nat \ {0, 1} /\ NBLOCKS \in Nat /\ BSIZE \in Nat \ {0}
  /\ NDIRECT \in Nat \ {0} /\ NINDIRECT \in Nat \ {0}

Inum == 1 .. NINODES - 1
Block == 1 .. NBLOCKS
ROOTINO == 1
MAXFILE == NDIRECT + NINDIRECT
NoEntry == <<"", 0>>          \* a directory entry: name and inum, 0 when free
Fault == <<"fault", 0>>       \* one the user's memory does not have

Dinode(type, nlink) ==
  [type |-> type, major |-> 0, nlink |-> nlink, size |-> 0, mode |-> {"r", "w"}, addrs |-> [i \in 0 .. NDIRECT |-> 0]]

Panic(d, what) == [d EXCEPT !.panic = IF @ = "none" THEN what ELSE @]

-----------------------------------------------------------------------------
(* balloc(): the first free block, zeroed; 0 if there is none. *)
Zeroed(d, b) ==
  [d EXCEPT !.used = @ \union {b},
            !.dir[b] = [i \in 0 .. BSIZE - 1 |-> NoEntry],
            !.ind[b] = [i \in 0 .. NINDIRECT - 1 |-> 0]]
FirstFree(d) == CHOOSE b \in 0 .. NBLOCKS :
  IF Block \subseteq d.used THEN b = 0 ELSE b \in Block \ d.used /\ 1 .. b - 1 \subseteq d.used
balloc(d, b) == IF b = 0 THEN d ELSE Zeroed(d, b)

Claimed(d, type, i) == [inum |-> i, d |-> [d EXCEPT !.ino[i] = Dinode(type, 0)]]

(* ialloc(): the first dinode without type; 0 if there is none. *)
ialloc(d, type) ==
  IF \A i \in Inum : d.ino[i].type # "none" THEN [d |-> d, inum |-> 0]
  ELSE Claimed(d, type, CHOOSE i \in Inum : d.ino[i].type = "none" /\ \A j \in 1 .. i - 1 : d.ino[j].type # "none")

(* Mutation: the link count is not written back. *)
iupdateNoLinks(d, inum, ip) == [d EXCEPT !.ino[inum] = [ip EXCEPT !.nlink = d.ino[inum].nlink]]

iupdate(d, inum, ip) == [d EXCEPT !.ino[inum] = ip]

(* bmap(): the block of ip that holds its bn-th, 0 if it has none ... *)
Indexed(d, ip, i) == IF ip.addrs[NDIRECT] = 0 THEN 0 ELSE d.ind[ip.addrs[NDIRECT]][i]
BlockAt(d, ip, bn) == IF bn < NDIRECT THEN ip.addrs[bn] ELSE Indexed(d, ip, bn - NDIRECT)

(* ... and allocated: in the inode, or in its indirect block, which may have *)
(* to be allocated first.  st has the disk and the inode.                    *)
InInode(st, i, b) == [st EXCEPT !.d = balloc(@, b), !.ip.addrs[i] = b]
InIndirect(st, i, b) ==
  [st EXCEPT !.d = IF b = 0 THEN @ ELSE [balloc(@, b) EXCEPT !.ind[st.ip.addrs[NDIRECT]][i] = b]]
WithIndirect(st) == IF st.ip.addrs[NDIRECT] # 0 THEN st ELSE InInode(st, NDIRECT, FirstFree(st.d))
Extend(st, i) == IF st.ip.addrs[NDIRECT] = 0 THEN st ELSE InIndirect(st, i, FirstFree(st.d))

bmap(st, bn) ==
  IF BlockAt(st.d, st.ip, bn) # 0 THEN st
  ELSE IF bn < NDIRECT THEN InInode(st, bn, FirstFree(st.d))
  ELSE Extend(WithIndirect(st), bn - NDIRECT)

(* The blocks ip uses, the indirect one included. *)
Indirect(d, ip) == IF ip.addrs[NDIRECT] = 0 THEN {} ELSE {d.ind[ip.addrs[NDIRECT]][i] : i \in 0 .. NINDIRECT - 1}
BlocksOf(d, ip) == ({ip.addrs[i] : i \in 0 .. NDIRECT} \union Indirect(d, ip)) \ {0}

(* itrunc(): frees every block and writes the inode back. *)
Bare(ip) == [ip EXCEPT !.addrs = [i \in 0 .. NDIRECT |-> 0], !.size = 0]
(* bfree() of each block *)
Bfree(d, bs) ==
  IF bs \subseteq d.used THEN [d EXCEPT !.used = @ \ bs] ELSE Panic(d, "freeing free block")
itrunc(d, inum, ip) == [ip |-> Bare(ip), d |-> iupdate(Bfree(d, BlocksOf(d, ip)), inum, Bare(ip))]

-----------------------------------------------------------------------------
(* One turn of the loop of writei(), for block bn of the file: bmap(), then   *)
(* either_copyin() and log_write() of the part of the entries that goes there. *)
(* Without a block, or if the copy fails, the loop ends; what bmap() has       *)
(* allocated stays.  st has the disk, the inode, the count so far and whether  *)
(* the loop has ended.                                                         *)
Part(off, entries, bn) == {k \in DOMAIN entries : (off + k - 1) \div BSIZE = bn}
Copied(block, off, entries, ks) ==
  [i \in 0 .. BSIZE - 1 |->
     IF \E k \in ks : (off + k - 1) % BSIZE = i THEN entries[CHOOSE k \in ks : (off + k - 1) % BSIZE = i]
     ELSE block[i]]
PutPart(st, b, off, entries, ks) ==
  IF b = 0 \/ \E k \in ks : entries[k] = Fault THEN [st EXCEPT !.ended = TRUE]
  ELSE [st EXCEPT !.d.dir[b] = Copied(@, off, entries, ks), !.n = @ + Cardinality(ks)]
Mapped(st, bn, off, entries) == PutPart(st, BlockAt(st.d, st.ip, bn), off, entries, Part(off, entries, bn))
WriteBlock(st, bn, off, entries) == IF st.ended THEN st ELSE Mapped(bmap(st, bn), bn, off, entries)

(* writei(): r.n is what it returns; the inode goes back to disk in any case. *)
(* off + n < off cannot be: no caller writes more than filewrite()'s max.     *)
Grown(st, off) == [st.ip EXCEPT !.size = IF off + st.n > @ THEN off + st.n ELSE @]
Written(st, inum, off) == [d |-> iupdate(st.d, inum, Grown(st, off)), ip |-> Grown(st, off), n |-> st.n]
Blocks(off, n) == [k \in 1 .. (off + n - 1) \div BSIZE - off \div BSIZE + 1 |-> off \div BSIZE + k - 1]
writei(d, inum, ip, off, entries) ==
  IF off > ip.size \/ off + Len(entries) > MAXFILE * BSIZE THEN [d |-> d, ip |-> ip, n |-> -1]
  ELSE Written(FoldLeft(LAMBDA st, bn : WriteBlock(st, bn, off, entries),
                        [d |-> d, ip |-> ip, n |-> 0, ended |-> FALSE], Blocks(off, Len(entries))), inum, off)

(* readi() of the entry at off; an inode has no holes below its size. *)
Entry(d, ip, off) == d.dir[BlockAt(d, ip, off \div BSIZE)][off % BSIZE]

Offsets(ip) == 0 .. ip.size - 1

(* dirlookup(): the offset of the entry for name, and its inum; 0 if there   *)
(* is none.                                                                  *)
IsFor(entry, name) == entry[2] # 0 /\ entry[1] = name
Matches(d, ip, name) == {o \in Offsets(ip) : IsFor(Entry(d, ip, o), name)}
LookupOff(d, ip, name) == Min(Matches(d, ip, name))
dirlookup(d, ip, name) ==
  IF \E o \in Offsets(ip) : IsFor(Entry(d, ip, o), name) THEN Entry(d, ip, LookupOff(d, ip, name))[2] ELSE 0

(* dirlink(): into the first free entry or at the end.  The reference it     *)
(* gets for a name that is there already is put back in the same breath.     *)
Vacant(d, ip) == CHOOSE o \in 0 .. ip.size :
  /\ o < ip.size => Entry(d, ip, o)[2] = 0
  /\ \A k \in 0 .. o - 1 : Entry(d, ip, k)[2] # 0
Linked(r) == [d |-> r.d, ip |-> r.ip, ok |-> r.n = 1]
dirlink(d, inum, ip, name, to) ==
  IF dirlookup(d, ip, name) # 0 THEN [d |-> d, ip |-> ip, ok |-> FALSE]
  ELSE Linked(writei(d, inum, ip, Vacant(d, ip), <<<<name, to>>>>))

isdirempty(d, ip) == \A o \in Offsets(ip) : o >= 2 => Entry(d, ip, o)[2] = 0

-----------------------------------------------------------------------------
(* mkfs: inodes and blocks are handed out in order; iappend() adds slots.    *)
Blank ==
  [ino |-> [i \in Inum |-> Dinode("none", 0)], used |-> {}, panic |-> "none",
   dir |-> [b \in Block |-> [i \in 0 .. BSIZE - 1 |-> NoEntry]],
   ind |-> [b \in Block |-> [i \in 0 .. NINDIRECT - 1 |-> 0]]]

iappend(d, inum, entries) == writei(d, inum, d.ino[inum], d.ino[inum].size, entries).d

mkfs_ialloc(d, inum, type) == [d EXCEPT !.ino[inum] = Dinode(type, 1)]

(* The root directory, and one file of each name; the root's size is rounded *)
(* up past its last entry.                                                   *)
mkfs(names) ==
  LET root == iappend(mkfs_ialloc(Blank, ROOTINO, "dir"), ROOTINO, <<<<".", ROOTINO>>, <<"..", ROOTINO>>>>)
      AddFile(d, name) ==
        LET i == Min({j \in Inum : d.ino[j].type = "none"})
        IN iappend(iappend(mkfs_ialloc(d, i, "file"), ROOTINO, <<<<name, i>>>>), i, <<NoEntry>>)
      all == FoldLeft(AddFile, root, names)
  IN [all EXCEPT !.ino[ROOTINO].size = (@ \div BSIZE + 1) * BSIZE]

==============================================================================
