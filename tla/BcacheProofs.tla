---------------------------- MODULE BcacheProofs ----------------------------
(***************************************************************************)
(* Proofs about the buffer cache over the disk driver (Bcache, Virtio), for *)
(* any number of processes, blocks, buffers and descriptors: the caller of *)
(* bread() sees what the last holder of the block left, the device works   *)
(* only on buffers that are held, the reference counts are exact and no    *)
(* panic is reached.                                                       *)
(***************************************************************************)
EXTENDS Bcache, FiniteSetTheorems, WellFoundedInduction, TLAPS

(* Where p holds its buffer, and where it has a request under way. *)
Driver == {"rw", "descsleep", "publish", "iosleep", "iowoken", "rwdone"}
Holding == Driver \cup {"held"}
InIO == {"iosleep", "iowoken"}
Requesting == InIO \cup {"publish"}
Labels == Holding \cup {"user", "lock", "brelse"}

TypeInv ==
  /\ free \subseteq Desc
  /\ req \in [Desc -> Request \cup {Nil}]
  /\ avail \in Seq(Desc) /\ used \in Seq(Desc) /\ inflight \subseteq Desc
  /\ platter \in [Block -> Nat] /\ data \in [Buf -> Nat] /\ bdisk \in [Buf -> BOOLEAN]
  /\ pc \in [Proc -> Labels]
  /\ cur \in [Proc -> Buf \cup {Nil}]
  /\ wr \in [Proc -> BOOLEAN]
  /\ head \in [Proc -> Desc \cup {Nil}]
  /\ lru \in [1 .. NBUF -> Buf]
  /\ blockno \in [Buf -> Block \cup {Nil}]
  /\ valid \in [Buf -> BOOLEAN]
  /\ refcnt \in [Buf -> Nat]
  /\ owner \in [Buf -> Proc \cup {Nil}]
  /\ pinned \subseteq Block /\ IsFiniteSet(pinned) /\ Cardinality(pinned) <= MaxPin
  /\ dirty \subseteq Block
  /\ mods \in Nat /\ last \in [Block -> Nat]

(* A block has one buffer at most, a process in the cache has a buffer that  *)
(* stands for a block, and pinned blocks are cached.                         *)
CacheInv ==
  /\ \A b, c \in Buf : blockno[b] = blockno[c] /\ blockno[b] # Nil => b = c
  /\ \A p \in Proc : pc[p] = "user" <=> cur[p] = Nil
  /\ \A p \in Proc : cur[p] # Nil => blockno[cur[p]] # Nil
  /\ \A blk \in pinned : \E b \in Buf : blockno[b] = blk
  /\ \A b \in Buf : \E i \in 1 .. NBUF : lru[i] = b

(* The sleep lock of a buffer is held by the process between bread() and     *)
(* brelse().                                                                 *)
OwnerInv ==
  \A b \in Buf, p \in Proc : owner[b] = p <=> cur[p] = b /\ pc[p] \in Holding

(* A block whose buffer was modified and not written is cached, and stays    *)
(* so: it is pinned or held.                                                 *)
DirtyInv ==
  \A blk \in dirty : \E b \in Buf :
    /\ blockno[b] = blk /\ valid[b]
    /\ blk \in pinned \/ owner[b] \in Proc

(* A valid buffer has what the last holder left in it, and so has the disk   *)
(* for a block that is not dirty.  A buffer is written when it is valid and  *)
(* read when it is not.                                                      *)
ValidInv ==
  /\ \A b \in Buf : valid[b] => blockno[b] # Nil /\ data[b] = last[blockno[b]]
  /\ \A blk \in Block \ dirty : platter[blk] = last[blk]
  /\ \A p \in Proc : pc[p] = "held" => valid[cur[p]]
  /\ \A p \in Proc : pc[p] \in Driver => (wr[p] <=> valid[cur[p]])
  /\ \A p \in Proc : wr[p] => pc[p] \in Driver /\ blockno[cur[p]] \in dirty

(* A process in virtio_disk_rw() and its request know each other. *)
RequestInv ==
  /\ \A p \in Proc : pc[p] \in Requesting <=> head[p] # Nil
  /\ \A p \in Proc : pc[p] \in Requesting =>
       /\ req[head[p]] # Nil /\ req[head[p]].b = cur[p]
       /\ req[head[p]].blockno = blockno[cur[p]] /\ req[head[p]].write = wr[p]
  /\ \A p, q \in Proc : head[p] = head[q] /\ head[p] # Nil => p = q
  /\ \A h \in Desc : req[h] # Nil => \E p \in Proc : head[p] = h

(* The heads in a ring, each in one place. *)
Distinct(s) == \A i, j \in 1 .. Len(s) : s[i] = s[j] => i = j
Elems(s) == {s[i] : i \in 1 .. Len(s)}

(* A request that is published is in one place: the avail ring, the device,  *)
(* the used ring, or done with; b->disk says it is not done with.            *)
RingInv ==
  /\ Distinct(avail) /\ Distinct(used)
  /\ Elems(avail) \cap inflight = {} /\ Elems(avail) \cap Elems(used) = {}
  /\ inflight \cap Elems(used) = {}
  /\ \A h \in Elems(avail) \cup inflight \cup Elems(used) :
       \E p \in Proc : head[p] = h /\ pc[p] \in InIO
  /\ \A p \in Proc : pc[p] = "publish" => bdisk[cur[p]] /\ req[head[p]].status = "ff"
  /\ \A p \in Proc : pc[p] \in InIO =>
       /\ req[head[p]].status = "ff" <=> head[p] \in Elems(avail) \cup inflight
       /\ bdisk[cur[p]] <=> head[p] \in Elems(avail) \cup inflight \cup Elems(used)
  /\ \A b \in Buf : bdisk[b] => \E p \in Proc : cur[p] = b /\ pc[p] \in Requesting

(* What a request that is done has done. *)
Transferred(p) ==
  IF wr[p] THEN platter[blockno[cur[p]]] = data[cur[p]]
  ELSE data[cur[p]] = last[blockno[cur[p]]]

DoneInv ==
  \A p \in Proc :
    pc[p] = "rwdone" \/ (pc[p] \in Requesting /\ req[head[p]].status = "0") => Transferred(p)

(* Every descriptor is free or in the chain of one request, and nobody waits *)
(* for descriptors while three are free.                                     *)
DescInv ==
  /\ \A h \in Desc : req[h] # Nil => h \in req[h].chain /\ req[h].chain \cap free = {}
  /\ \A h, g \in Desc : req[h] # Nil /\ req[g] # Nil /\ h # g => req[h].chain \cap req[g].chain = {}
  /\ \A d \in Desc \ free : \E h \in Desc : req[h] # Nil /\ d \in req[h].chain
  /\ \A p \in Proc : pc[p] = "descsleep" => Cardinality(free) < 3

IInv ==
  /\ TypeInv /\ CacheInv /\ RefcntExact /\ OwnerInv /\ DirtyInv /\ ValidInv
  /\ RequestInv /\ RingInv /\ DoneInv /\ DescInv

-----------------------------------------------------------------------------
(* What each part of the invariant depends on: a step that leaves this alone *)
(* leaves the part alone.                                                    *)
Keeps(S) == \A p \in Proc : pc'[p] \in S <=> pc[p] \in S

(* The processes at the labels in S keep their buffer, which keeps its block. *)
KeepsBuffer(S) ==
  \A p \in Proc : pc[p] \in S =>
    /\ cur'[p] = cur[p] /\ wr'[p] = wr[p] /\ blockno'[cur[p]] = blockno[cur[p]]

CacheSame == UNCHANGED <<blockno, cur, pinned, lru>> /\ Keeps({"user"})
RefcntSame == UNCHANGED <<refcnt, cur, blockno, pinned>>
OwnerSame ==
  /\ UNCHANGED owner /\ Keeps(Holding)
  /\ \A p \in Proc : pc[p] \in Holding => cur'[p] = cur[p]
DirtySame == UNCHANGED <<dirty, blockno, valid, pinned, owner>>
ValidSame ==
  /\ UNCHANGED <<valid, blockno, data, last, platter, dirty, wr>>
  /\ Keeps(Driver) /\ Keeps({"held"}) /\ KeepsBuffer(Holding)
RequestSame == UNCHANGED <<head, req>> /\ Keeps(Requesting) /\ KeepsBuffer(Requesting)
RingSame ==
  /\ UNCHANGED <<avail, inflight, used, req, head, bdisk>>
  /\ Keeps(InIO) /\ Keeps({"publish"}) /\ KeepsBuffer(Requesting)
DoneSame ==
  /\ UNCHANGED <<head, req, platter>>
  /\ \A p \in Proc : pc'[p] \in Requesting => pc[p] \in Requesting
  /\ \A p \in Proc : pc'[p] = "rwdone" => pc[p] = "rwdone"
  /\ \A p \in Proc : pc'[p] \in Requesting \cup {"rwdone"} =>
       /\ cur'[p] = cur[p] /\ wr'[p] = wr[p] /\ blockno'[cur[p]] = blockno[cur[p]]
       /\ data'[cur[p]] = data[cur[p]] /\ last'[blockno[cur[p]]] = last[blockno[cur[p]]]
DescSame ==
  /\ UNCHANGED <<req, free>>
  /\ \A p \in Proc : pc'[p] = "descsleep" => pc[p] = "descsleep" \/ Cardinality(free) < 3

(* A step in which processes change only between two labels at which they    *)
(* have the same: interrupts, kill()s, waiting for descriptors.              *)
Idles ==
  /\ UNCHANGED <<free, req, bdisk, head, avail, used, inflight, platter, data, cur, wr>>
  /\ UNCHANGED <<cache, ghost>>
  /\ pc' \in [Proc -> Labels]
  /\ \A p \in Proc :
       \/ pc'[p] = pc[p]
       \/ pc[p] \in {"rw", "descsleep"} /\ pc'[p] \in {"rw", "descsleep"}
       \/ pc[p] \in InIO /\ pc'[p] \in InIO
  /\ \A p \in Proc : pc'[p] = "descsleep" => pc[p] = "descsleep" \/ Cardinality(free) < 3

(* The steps, one class for the ones that change little. *)
Step ==
  \/ Idles
  \/ \E p \in Proc, blk \in Block : BgetHit(p, blk) \/ BgetMiss(p, blk)
  \/ \E p \in Proc : \/ Bread(p) \/ Bwrite(p) \/ RwReturn(p) \/ Modify(p)
                     \/ Bpin(p) \/ Bunpin(p) \/ BrelseUnlock(p) \/ BrelsePut(p)
  \/ /\ UNCHANGED <<cache, ghost>>
     /\ \/ \E p \in Proc : \/ RwStart(p, blockno[cur[p]]) \/ RwPublish(p) \/ RwFinish(p)
        \/ DevFetch \/ IntrEntry \/ \E h \in inflight : DevFinish(h)

(* Most leaves are reasoning about sets; the ones that are not say so. *)
USE ZenonT(60)

-----------------------------------------------------------------------------
(* A set of natural numbers has a least element. *)
LEMMA Least ==
  ASSUME NEW S \in SUBSET Nat, S # {}
  PROVE  \E x \in S : \A y \in S : x <= y
<1>1. IsWellFoundedOn({ss \in Nat \X Nat : ss[1] < ss[2]}, Nat)
  BY NatLessThanWellFounded DEF OpToRel
<1> DEFINE R == {ss \in Nat \X Nat : ss[1] < ss[2]}
<1>2. PICK x \in S : \A y \in S : ~ (<<y, x>> \in R)
  <2> HIDE DEF R
  <2>1. IsWellFoundedOn(R, Nat)
    BY <1>1 DEF R
  <2> QED
    BY <2>1, WFMin
<1>3. ASSUME NEW y \in S, y < x PROVE FALSE
  <2>1. <<y, x>> \in Nat \X Nat /\ <<y, x>>[1] = y /\ <<y, x>>[2] = x
    OBVIOUS
  <2>2. <<y, x>> \in R
    BY <1>3, <2>1
  <2> QED
    BY <1>2, <2>2
<1>4. \A y \in S : x <= y
  BY <1>3, SMTT(30)
<1> QED
  BY <1>4

(* The choices of alloc_desc() and of bget() are elements of their sets. *)
LEMMA MinIn ==
  ASSUME NEW S \in SUBSET Nat, S # {}
  PROVE  Min(S) \in S
  BY Least DEF Min

(* The greatest index of a set of indices of the list is one of them. *)
LEMMA MaxIn ==
  ASSUME NEW n \in Nat, NEW S \in SUBSET (1 .. n), S # {}
  PROVE  Max(S) \in S
<1> DEFINE D == {n - x : x \in S}
<1>1. \A x \in S : n - x \in Nat
  BY SMTT(30)
<1>a. D \in SUBSET Nat /\ D # {}
  BY <1>1
<1>2. PICK d \in D : \A e \in D : d <= e
  BY <1>a, Least
<1>3. PICK x \in S : d = n - x
  BY <1>2
<1>4. \A y \in S : n - x <= n - y
  BY <1>2, <1>3
<1>5. \A y \in S : x >= y
  BY <1>4, SMTT(30)
<1> QED
  BY <1>5 DEF Max

(* A ring with one more head. *)
LEMMA Appended ==
  ASSUME NEW S, NEW s \in Seq(S), NEW e \in S
  PROVE  /\ Append(s, e) \in Seq(S)
         /\ Elems(Append(s, e)) = Elems(s) \cup {e}
         /\ Distinct(s) /\ e \notin Elems(s) => Distinct(Append(s, e))
<1>1. /\ Append(s, e) \in Seq(S) /\ Len(Append(s, e)) = Len(s) + 1 /\ Len(s) \in Nat
      /\ Append(s, e)[Len(s) + 1] = e
      /\ \A i \in 1 .. Len(s) : Append(s, e)[i] = s[i]
  BY SMTT(30)
<1>2. \A i \in 1 .. Len(s) + 1 : i = Len(s) + 1 \/ i \in 1 .. Len(s)
  BY <1>1, SMTT(30)
<1>3. \A i \in 1 .. Len(s) : i \in 1 .. Len(s) + 1
  BY <1>1, SMTT(30)
<1>4. Len(s) + 1 \in 1 .. Len(s) + 1
  BY <1>1, SMTT(30)
<1>5. Elems(Append(s, e)) = Elems(s) \cup {e}
  BY <1>1, <1>2, <1>3, <1>4 DEF Elems
<1>6. ASSUME Distinct(s), e \notin Elems(s) PROVE Distinct(Append(s, e))
  BY <1>1, <1>2, <1>6 DEF Elems, Distinct
<1> QED
  BY <1>1, <1>5, <1>6

(* A ring in which no head is twice, with its first head taken out. *)
LEMMA Tailed ==
  ASSUME NEW S, NEW s \in Seq(S), s # <<>>
  PROVE  /\ Head(s) \in Elems(s) /\ Head(s) \in S /\ Tail(s) \in Seq(S)
         /\ Distinct(s) => Distinct(Tail(s)) /\ Elems(Tail(s)) = Elems(s) \ {Head(s)}
<1>1. /\ Len(s) \in Nat /\ Len(s) >= 1 /\ Len(Tail(s)) = Len(s) - 1
      /\ Head(s) = s[1] /\ Head(s) \in S /\ Tail(s) \in Seq(S)
      /\ \A i \in 1 .. Len(s) - 1 : Tail(s)[i] = s[i + 1]
  BY SMTT(30)
<1>2. 1 \in 1 .. Len(s) /\ \A i \in 1 .. Len(s) - 1 : i + 1 \in 1 .. Len(s) /\ i + 1 # 1
  BY <1>1, SMTT(30)
<1>3. \A i, j \in 1 .. Len(s) - 1 : i + 1 = j + 1 => i = j
  BY <1>1, SMTT(30)
<1>4. \A i \in 1 .. Len(s) : i = 1 \/ (i - 1 \in 1 .. Len(s) - 1 /\ Tail(s)[i - 1] = s[i])
  BY <1>1, SMTT(30)
<1>5. Head(s) \in Elems(s)
  BY <1>1, <1>2 DEF Elems
<1>6. ASSUME Distinct(s) PROVE Distinct(Tail(s))
  <2>1. ASSUME NEW i \in 1 .. Len(s) - 1, NEW j \in 1 .. Len(s) - 1, Tail(s)[i] = Tail(s)[j]
        PROVE  i = j
    <3>1. s[i + 1] = s[j + 1] /\ i + 1 \in 1 .. Len(s) /\ j + 1 \in 1 .. Len(s)
      BY <1>1, <1>2, <2>1
    <3> QED
      BY <1>3, <1>6, <3>1 DEF Distinct
  <2> QED
    BY <1>1, <2>1 DEF Distinct
<1>7. ASSUME Distinct(s) PROVE Elems(Tail(s)) = Elems(s) \ {Head(s)}
  <2>1. ASSUME NEW i \in 1 .. Len(s) - 1
        PROVE  Tail(s)[i] \in Elems(s) /\ Tail(s)[i] # Head(s)
    <3>1. Tail(s)[i] = s[i + 1] /\ i + 1 \in 1 .. Len(s) /\ i + 1 # 1
      BY <1>1, <1>2
    <3> QED
      BY <1>1, <1>2, <1>7, <3>1 DEF Elems, Distinct
  <2>2. ASSUME NEW i \in 1 .. Len(s), s[i] # Head(s)
        PROVE  s[i] \in {Tail(s)[j] : j \in 1 .. Len(s) - 1}
    <3>1. i - 1 \in 1 .. Len(s) - 1 /\ Tail(s)[i - 1] = s[i]
      BY <1>1, <1>4, <2>2
    <3> QED
      BY <3>1
  <2>3. Elems(Tail(s)) = {Tail(s)[j] : j \in 1 .. Len(s) - 1}
    BY <1>1 DEF Elems
  <2>4. \A x \in Elems(s) : x # Head(s) => x \in Elems(Tail(s))
    BY <2>2, <2>3 DEF Elems
  <2>5. \A x \in Elems(Tail(s)) : x \in Elems(s) /\ x # Head(s)
    BY <2>1, <2>3
  <2> QED
    BY <2>4, <2>5
<1> QED
  BY <1>1, <1>5, <1>6, <1>7

-----------------------------------------------------------------------------
(* Each part of the invariant depends on what is said of it above. *)
LEMMA CacheFrame == ASSUME CacheInv, CacheSame PROVE CacheInv'
  BY DEF CacheInv, CacheSame, Keeps

(* The counts: b->refcnt, who has b, the blocks and the pins. *)
LEMMA RefcntFrame == ASSUME RefcntExact, RefcntSame PROVE RefcntExact'
  BY SMTT(30) DEF RefcntExact, RefcntSame

(* The sleep locks: who holds a buffer, and which. *)
LEMMA OwnerFrame == ASSUME OwnerInv, OwnerSame PROVE OwnerInv'
<1> SUFFICES ASSUME NEW b \in Buf, NEW p \in Proc
             PROVE  owner'[b] = p <=> cur'[p] = b /\ pc'[p] \in Holding
  BY DEF OwnerInv
<1>1. owner[b] = p <=> cur[p] = b /\ pc[p] \in Holding
  BY DEF OwnerInv
<1>2. pc'[p] \in Holding <=> pc[p] \in Holding
  BY DEF OwnerSame, Keeps
<1>3. pc[p] \in Holding => cur'[p] = cur[p]
  BY DEF OwnerSame
<1>4. owner'[b] = owner[b]
  BY DEF OwnerSame
<1> QED
  BY <1>1, <1>2, <1>3, <1>4

(* The modified blocks: where they are cached, pinned or held. *)
LEMMA DirtyFrame == ASSUME DirtyInv, DirtySame PROVE DirtyInv'
  BY DEF DirtyInv, DirtySame

(* The contents of buffers and disk, and which way a transfer goes. *)
LEMMA ValidFrame == ASSUME ValidInv, ValidSame PROVE ValidInv'
  BY DEF ValidInv, ValidSame, Keeps, KeepsBuffer, Holding

(* The requests and the processes that wait for them. *)
LEMMA RequestFrame == ASSUME RequestInv, RequestSame PROVE RequestInv'
  BY DEF RequestInv, RequestSame, Keeps, KeepsBuffer

(* The rings, b->disk and the status of the requests. *)
LEMMA RingFrame == ASSUME RingInv, RingSame PROVE RingInv'
<1>1. \A p \in Proc : pc'[p] \in Requesting <=> pc[p] \in Requesting
  BY DEF RingSame, Keeps, Requesting
<1>2. \A p \in Proc : pc[p] \in Requesting => cur'[p] = cur[p]
  BY DEF RingSame, KeepsBuffer
<1>3. UNCHANGED <<Elems(avail), Elems(used), Distinct(avail), Distinct(used)>>
  BY DEF RingSame
<1>u. UNCHANGED <<avail, inflight, used, req, head, bdisk>>
  BY DEF RingSame
<1>4. \A p \in Proc : (pc'[p] \in InIO <=> pc[p] \in InIO) /\ (pc'[p] = "publish" <=> pc[p] = "publish")
  BY DEF RingSame, Keeps
<1>5. \A p \in Proc : pc[p] \in InIO \/ pc[p] = "publish" => pc[p] \in Requesting
  BY DEF Requesting
<1>6. \A h \in Elems(avail) \cup inflight \cup Elems(used) :
        \E p \in Proc : head[p] = h /\ pc'[p] \in InIO
  BY <1>4 DEF RingInv
<1>7. \A p \in Proc : pc'[p] = "publish" => bdisk[cur'[p]] /\ req[head[p]].status = "ff"
  BY <1>2, <1>4, <1>5 DEF RingInv
<1>8. \A p \in Proc : pc'[p] \in InIO =>
        /\ req[head[p]].status = "ff" <=> head[p] \in Elems(avail) \cup inflight
        /\ bdisk[cur'[p]] <=> head[p] \in Elems(avail) \cup inflight \cup Elems(used)
  BY <1>2, <1>4, <1>5 DEF RingInv
<1>9. ASSUME NEW b \in Buf, bdisk[b] PROVE \E p \in Proc : cur'[p] = b /\ pc'[p] \in Requesting
  <2>1. PICK p \in Proc : cur[p] = b /\ pc[p] \in Requesting
    BY <1>9 DEF RingInv
  <2> QED
    BY <1>1, <1>2, <2>1
<1> QED
  BY <1>3, <1>6, <1>7, <1>8, <1>9, <1>u DEF RingInv

(* The requests that are done: the transferred data stays. *)
LEMMA DoneFrame == ASSUME DoneInv, DoneSame PROVE DoneInv'
<1> SUFFICES ASSUME NEW p \in Proc,
                    pc'[p] = "rwdone" \/ (pc'[p] \in Requesting /\ req'[head'[p]].status = "0")
             PROVE  Transferred(p)'
  BY DEF DoneInv
<1>1. pc[p] = "rwdone" \/ (pc[p] \in Requesting /\ req[head[p]].status = "0")
  BY DEF DoneSame
<1>2. Transferred(p)
  BY <1>1 DEF DoneInv
<1>3. /\ cur'[p] = cur[p] /\ wr'[p] = wr[p] /\ blockno'[cur[p]] = blockno[cur[p]]
      /\ data'[cur[p]] = data[cur[p]] /\ last'[blockno[cur[p]]] = last[blockno[cur[p]]]
      /\ platter' = platter
  BY DEF DoneSame
<1> QED
  BY <1>2, <1>3 DEF Transferred

(* The descriptors, free or in a chain. *)
LEMMA DescFrame == ASSUME DescInv, DescSame PROVE DescInv'
  BY SMTT(30) DEF DescInv, DescSame

(* A process with a buffer, and what the buffer stands for. *)
LEMMA Buffers ==
  ASSUME IInv
  PROVE  /\ \A p \in Proc : pc[p] # "user" => cur[p] \in Buf /\ blockno[cur[p]] \in Block
         /\ \A p \in Proc : pc[p] \in Holding => pc[p] # "user" /\ owner[cur[p]] = p
         /\ \A p, q \in Proc : pc[p] \in Holding /\ pc[q] \in Holding /\ p # q =>
              cur[p] # cur[q] /\ blockno[cur[p]] # blockno[cur[q]]
<1>t. /\ \A p \in Proc : cur[p] \in Buf \/ cur[p] = Nil
      /\ \A b \in Buf : blockno[b] \in Block \/ blockno[b] = Nil
  BY DEF IInv, TypeInv
<1>1. \A p \in Proc : pc[p] # "user" => cur[p] \in Buf /\ blockno[cur[p]] \in Block
  BY <1>t DEF IInv, CacheInv
<1>2. \A p \in Proc : pc[p] \in Holding => pc[p] # "user"
  BY DEF Holding, Driver
<1>3. \A p \in Proc : pc[p] \in Holding => owner[cur[p]] = p
  BY <1>1, <1>2 DEF IInv, OwnerInv
<1>4. ASSUME NEW p \in Proc, NEW q \in Proc, pc[p] \in Holding, pc[q] \in Holding, p # q
      PROVE  cur[p] # cur[q] /\ blockno[cur[p]] # blockno[cur[q]]
  <2>1. cur[p] # cur[q]
    BY <1>3, <1>4
  <2>2. cur[p] \in Buf /\ cur[q] \in Buf /\ blockno[cur[p]] # Nil
    BY <1>1, <1>2, <1>4, VirtioAssumption
  <2> QED
    BY <2>1, <2>2 DEF IInv, CacheInv
<1> QED
  BY <1>1, <1>2, <1>3, <1>4

(* The request of a process in virtio_disk_rw(). *)
LEMMA Requests ==
  ASSUME IInv
  PROVE  /\ \A p \in Proc : pc[p] \in Requesting =>
              head[p] \in Desc /\ req[head[p]] \in Request /\ pc[p] \in Driver /\ pc[p] \in Holding
         /\ \A h \in Desc : req[h] # Nil => req[h] \in Request /\
              \E p \in Proc : head[p] = h /\ pc[p] \in Requesting
<1>1. \A p \in Proc : pc[p] \in Requesting => pc[p] \in Driver /\ pc[p] \in Holding
  BY DEF Requesting, InIO, Driver, Holding
<1>2. Nil \notin Desc
  BY VirtioAssumption, SMTT(30) DEF Desc
<1>t. /\ \A p \in Proc : head[p] \in Desc \/ head[p] = Nil
      /\ \A h \in Desc : req[h] \in Request \/ req[h] = Nil
  BY DEF IInv, TypeInv
<1>3. \A p \in Proc : pc[p] \in Requesting => head[p] \in Desc /\ req[head[p]] \in Request
  BY <1>t DEF IInv, RequestInv
<1>4. ASSUME NEW h \in Desc, req[h] # Nil
      PROVE  req[h] \in Request /\ \E p \in Proc : head[p] = h /\ pc[p] \in Requesting
  BY <1>2, <1>4, <1>t DEF IInv, RequestInv
<1> QED
  BY <1>1, <1>3, <1>4

(* kill(), the waiting for descriptors, and the interrupt handler but for    *)
(* its turns, change next to nothing.                                        *)
LEMMA StepCases ==
  ASSUME IInv, Next
  PROVE  Step
<1>t. pc \in [Proc -> Labels]
  BY DEF IInv, TypeInv
<1>1. ASSUME NEW p \in Proc, RwNoDesc(p), UNCHANGED <<cache, ghost>> PROVE Idles
  <2>1. pc' \in [Proc -> Labels]
    BY <1>1, <1>t DEF RwNoDesc, Woken, Labels, Holding, Driver
  <2>2. \A q \in Proc : \/ pc'[q] = pc[q]
                        \/ pc[q] \in {"rw", "descsleep"} /\ pc'[q] \in {"rw", "descsleep"}
    BY <1>1, <1>t DEF RwNoDesc, Woken
  <2> QED
    BY <1>1, <2>1, <2>2 DEF RwNoDesc, Idles, driver, device
<1>2. ASSUME NEW p \in Proc, RwAgain(p), UNCHANGED <<cache, ghost>> PROVE Idles
  BY <1>2, <1>t DEF RwAgain, Idles, driver, device, InIO, Labels, Holding, Driver
<1>3. ASSUME NEW p \in Proc, Kill(p), UNCHANGED <<cache, ghost>> PROVE Idles
  BY <1>3, <1>t DEF Kill, Idles, driver, device, InIO, Labels, Holding, Driver
<1>4. ASSUME PlicClaim \/ IntrAck \/ IntrDone, UNCHANGED <<cache, ghost>> PROVE Idles
  BY <1>4, <1>t DEF PlicClaim, IntrAck, IntrDone, Idles, driver, device
<1> QED
  BY <1>1, <1>2, <1>3, <1>4 DEF Next, Step, Rw, Device, Interrupt

(* Nothing that the invariant is about changes. *)
LEMMA IdlesStep ==
  ASSUME IInv, Idles
  PROVE  IInv'
<1>1. TypeInv'
  BY DEF IInv, TypeInv, Idles, cache, ghost
<1>2. \A p \in Proc :
        \/ pc'[p] = pc[p]
        \/ pc[p] \in {"rw", "descsleep"} /\ pc'[p] \in {"rw", "descsleep"}
        \/ pc[p] \in InIO /\ pc'[p] \in InIO
  BY DEF Idles
<1>3. Keeps({"user"}) /\ Keeps({"held"}) /\ Keeps({"publish"}) /\ Keeps({"rwdone"}) /\ Keeps(InIO)
  BY <1>2 DEF Keeps, InIO
<1>4. Keeps(Driver) /\ Keeps(Holding) /\ Keeps(Requesting)
  BY <1>2 DEF Keeps, InIO, Driver, Holding, Requesting
<1>5. \A S : KeepsBuffer(S)
  BY DEF KeepsBuffer, Idles, cache
<1>6. CacheInv' /\ RefcntExact' /\ OwnerInv' /\ DirtyInv' /\ ValidInv'
  BY <1>3, <1>4, <1>5, CacheFrame, RefcntFrame, OwnerFrame, DirtyFrame, ValidFrame
     DEF IInv, CacheSame, RefcntSame, OwnerSame, DirtySame, ValidSame, Idles, cache, ghost
<1>7. RequestInv' /\ RingInv' /\ DoneInv' /\ DescInv'
  BY <1>3, <1>4, <1>5, RequestFrame, RingFrame, DoneFrame, DescFrame
     DEF IInv, RequestSame, RingSame, DoneSame, DescSame, Keeps, Idles, cache, ghost
<1> QED
  BY <1>1, <1>6, <1>7 DEF IInv

-----------------------------------------------------------------------------
(* bread() locks the buffer: it was valid, or has to be read. *)
LEMMA BreadStep ==
  ASSUME IInv, NEW p \in Proc, Bread(p)
  PROVE  IInv'
<1>inv. TypeInv /\ CacheInv /\ OwnerInv /\ DirtyInv /\ ValidInv
  BY DEF IInv
<1>t. pc \in [Proc -> Labels] /\ owner \in [Buf -> Proc \cup {Nil}]
  BY <1>inv DEF TypeInv
<1>b. /\ pc[p] = "lock" /\ cur[p] \in Buf /\ owner[cur[p]] = Nil
      /\ \A b \in Buf : valid[b] \in BOOLEAN
  BY <1>inv, Buffers DEF Bread, TypeInv
<1>c. /\ pc'[p] = IF valid[cur[p]] THEN "held" ELSE "rw"
      /\ \A q \in Proc \ {p} : pc'[q] = pc[q]
      /\ owner'[cur[p]] = p /\ \A b \in Buf \ {cur[p]} : owner'[b] = owner[b]
  BY <1>t, <1>b DEF Bread, Goto
<1>u. UNCHANGED <<free, req, bdisk, head, avail, used, inflight, platter, data, cur, wr, lru,
                  blockno, valid, refcnt, pinned, dirty, mods, last>>
  BY DEF Bread, driver, device, ghost
<1>p. pc'[p] \in {"held", "rw"}
  BY <1>c
<1>1. TypeInv'
  <2>1. pc' \in [Proc -> Labels] /\ owner' \in [Buf -> Proc \cup {Nil}]
    BY <1>t DEF Bread, Goto, Labels, Holding, Driver
  <2> QED
    BY <1>inv, <1>u, <2>1 DEF TypeInv
<1>2. /\ Keeps({"user"}) /\ Keeps({"publish"}) /\ Keeps({"rwdone"}) /\ Keeps(InIO) /\ Keeps(Requesting)
      /\ \A S : KeepsBuffer(S)
      /\ \A q \in Proc : pc'[q] = "descsleep" => pc[q] = "descsleep"
  BY <1>b, <1>c, <1>p, <1>u DEF Keeps, KeepsBuffer, InIO, Requesting
<1>3. CacheInv' /\ RefcntExact' /\ RequestInv' /\ RingInv' /\ DoneInv' /\ DescInv'
  BY <1>2, <1>u, CacheFrame, RefcntFrame, RequestFrame, RingFrame, DoneFrame, DescFrame
     DEF IInv, CacheSame, RefcntSame, RequestSame, RingSame, DoneSame, DescSame, Keeps
<1>4. OwnerInv'
  <2>1. ASSUME NEW q \in Proc PROVE ~ (cur[q] = cur[p] /\ pc[q] \in Holding)
    <3>1. owner[cur[p]] = q <=> cur[q] = cur[p] /\ pc[q] \in Holding
      BY <1>inv, <1>b DEF OwnerInv
    <3> QED
      BY <3>1, <1>b, VirtioAssumption
  <2> SUFFICES ASSUME NEW b \in Buf, NEW q \in Proc
               PROVE  owner'[b] = q <=> cur[q] = b /\ pc'[q] \in Holding
    BY <1>u DEF OwnerInv
  <2>2. CASE b = cur[p] /\ q = p
    BY <1>c, <1>p, <2>2 DEF Holding, Driver
  <2>3. CASE b = cur[p] /\ q # p
    BY <1>c, <2>1, <2>3
  <2>4. CASE b # cur[p]
    <3>1. owner[b] = q <=> cur[q] = b /\ pc[q] \in Holding
      BY <1>inv DEF OwnerInv
    <3>2. owner'[b] = owner[b] /\ (q # p => pc'[q] = pc[q])
      BY <1>c, <2>4
    <3> QED
      BY <2>4, <3>1, <3>2, <1>b DEF Holding, Driver
  <2> QED
    BY <2>2, <2>3, <2>4
<1>5. DirtyInv'
  <2>1. \A b \in Buf : owner[b] \in Proc => owner'[b] \in Proc
    BY <1>c
  <2> QED
    BY <1>inv, <1>u, <2>1 DEF DirtyInv
<1>6. ValidInv'
  <2>1. ~ wr[p]
    BY <1>inv, <1>b DEF ValidInv, Driver
  <2>2. \A q \in Proc : pc'[q] = "held" => valid[cur[q]]
    BY <1>inv, <1>c DEF ValidInv
  <2>3. \A q \in Proc : pc'[q] \in Driver => (wr[q] <=> valid[cur[q]])
    BY <1>inv, <1>c, <2>1 DEF ValidInv, Driver
  <2>4. \A q \in Proc : wr[q] => pc'[q] \in Driver /\ blockno[cur[q]] \in dirty
    BY <1>inv, <1>c, <2>1 DEF ValidInv
  <2> QED
    BY <1>inv, <1>u, <2>2, <2>3, <2>4 DEF ValidInv
<1> QED
  BY <1>1, <1>3, <1>4, <1>5, <1>6 DEF IInv

(* bwrite() of a buffer that was modified. *)
LEMMA BwriteStep ==
  ASSUME IInv, NEW p \in Proc, Bwrite(p)
  PROVE  IInv'
<1>inv. TypeInv /\ ValidInv
  BY DEF IInv
<1>t. pc \in [Proc -> Labels] /\ wr \in [Proc -> BOOLEAN]
  BY <1>inv DEF TypeInv
<1>b. pc[p] = "held" /\ valid[cur[p]] /\ blockno[cur[p]] \in dirty
  BY <1>inv DEF Bwrite, ValidInv
<1>c. /\ pc'[p] = "rw" /\ wr'[p] = TRUE
      /\ \A q \in Proc \ {p} : pc'[q] = pc[q] /\ wr'[q] = wr[q]
  BY <1>t DEF Bwrite, Goto
<1>u. UNCHANGED <<free, req, bdisk, head, avail, used, inflight, platter, data, cur, lru,
                  blockno, valid, refcnt, owner, pinned, dirty, mods, last>>
  BY DEF Bwrite, driver, device, cache, ghost
<1>1. TypeInv'
  <2>1. pc' \in [Proc -> Labels] /\ wr' \in [Proc -> BOOLEAN]
    BY <1>t DEF Bwrite, Goto, Labels, Holding, Driver
  <2> QED
    BY <1>inv, <1>u, <2>1 DEF TypeInv
<1>2. /\ Keeps({"user"}) /\ Keeps({"publish"}) /\ Keeps({"rwdone"}) /\ Keeps(InIO) /\ Keeps(Requesting)
      /\ Keeps(Holding)
      /\ KeepsBuffer(Requesting)
      /\ \A q \in Proc : pc'[q] \in Requesting \cup {"rwdone"} => wr'[q] = wr[q]
      /\ \A q \in Proc : pc'[q] = "descsleep" => pc[q] = "descsleep"
  BY <1>b, <1>c, <1>u DEF Keeps, KeepsBuffer, InIO, Requesting, Holding, Driver
<1>3. /\ CacheInv' /\ RefcntExact' /\ OwnerInv' /\ DirtyInv'
      /\ RequestInv' /\ RingInv' /\ DoneInv' /\ DescInv'
  BY <1>2, <1>u, CacheFrame, RefcntFrame, OwnerFrame, DirtyFrame, RequestFrame, RingFrame, DoneFrame, DescFrame
     DEF IInv, CacheSame, RefcntSame, OwnerSame, DirtySame, RequestSame, RingSame, DoneSame, DescSame, Keeps
<1>4. ValidInv'
  <2>1. \A q \in Proc : pc'[q] = "held" => valid[cur[q]]
    BY <1>inv, <1>c DEF ValidInv
  <2>2. \A q \in Proc : pc'[q] \in Driver => (wr'[q] <=> valid[cur[q]])
    BY <1>inv, <1>b, <1>c DEF ValidInv
  <2>3. \A q \in Proc : wr'[q] => pc'[q] \in Driver /\ blockno[cur[q]] \in dirty
    BY <1>inv, <1>b, <1>c DEF ValidInv, Driver
  <2> QED
    BY <1>inv, <1>u, <2>1, <2>2, <2>3 DEF ValidInv
<1> QED
  BY <1>1, <1>3, <1>4 DEF IInv

(* virtio_disk_rw() has returned: what was read is what the last holder left, *)
(* or what was written is on the disk.                                       *)
LEMMA RwReturnStep ==
  ASSUME IInv, NEW p \in Proc, RwReturn(p)
  PROVE  IInv'
<1>inv. TypeInv /\ DirtyInv /\ ValidInv /\ DoneInv
  BY DEF IInv
<1>t. /\ pc \in [Proc -> Labels] /\ wr \in [Proc -> BOOLEAN] /\ valid \in [Buf -> BOOLEAN]
      /\ dirty \subseteq Block
  BY <1>inv DEF TypeInv
<1>b. pc[p] = "rwdone" /\ cur[p] \in Buf /\ blockno[cur[p]] \in Block /\ Transferred(p)
  BY <1>inv, Buffers DEF RwReturn, DoneInv
<1>c. /\ pc'[p] = "held" /\ wr'[p] = FALSE /\ valid'[cur[p]] = TRUE
      /\ \A q \in Proc \ {p} : pc'[q] = pc[q] /\ wr'[q] = wr[q]
      /\ \A b \in Buf \ {cur[p]} : valid'[b] = valid[b]
  BY <1>t, <1>b DEF RwReturn, Goto
<1>d. /\ wr[p] => dirty' = dirty \ {blockno[cur[p]]}
      /\ ~ wr[p] => dirty' = dirty
  BY DEF RwReturn
<1>u. UNCHANGED <<free, req, bdisk, head, avail, used, inflight, platter, data, cur, lru,
                  blockno, refcnt, owner, pinned, mods, last>>
  BY DEF RwReturn, driver, device
<1>h. pc[p] \in Holding /\ pc[p] \in Driver
  BY <1>b DEF Holding, Driver
<1>o. \A q \in Proc \ {p} : pc[q] \in Holding =>
        cur[q] \in Buf /\ cur[q] # cur[p] /\ blockno[cur[q]] # blockno[cur[p]]
  BY <1>h, Buffers
<1>1. TypeInv'
  <2>1. /\ pc' \in [Proc -> Labels] /\ wr' \in [Proc -> BOOLEAN] /\ valid' \in [Buf -> BOOLEAN]
        /\ dirty' \subseteq Block
    BY <1>t, <1>d DEF RwReturn, Goto, Labels, Holding
  <2> QED
    BY <1>inv, <1>u, <2>1 DEF TypeInv
<1>2. /\ Keeps({"user"}) /\ Keeps({"publish"}) /\ Keeps(InIO) /\ Keeps(Requesting) /\ Keeps(Holding)
      /\ KeepsBuffer(Requesting)
      /\ \A q \in Proc : pc'[q] = "descsleep" => pc[q] = "descsleep"
      /\ \A q \in Proc : pc'[q] = "rwdone" => pc[q] = "rwdone"
      /\ \A q \in Proc : pc'[q] \in Requesting \cup {"rwdone"} => wr'[q] = wr[q]
  BY <1>b, <1>c, <1>u DEF Keeps, KeepsBuffer, InIO, Requesting, Holding, Driver
<1>3. /\ CacheInv' /\ RefcntExact' /\ OwnerInv'
      /\ RequestInv' /\ RingInv' /\ DoneInv' /\ DescInv'
  BY <1>2, <1>u, CacheFrame, RefcntFrame, OwnerFrame, RequestFrame, RingFrame, DoneFrame, DescFrame
     DEF IInv, CacheSame, RefcntSame, OwnerSame, RequestSame, RingSame, DoneSame, DescSame, Keeps
<1>4. DirtyInv'
  <2>1. dirty' \subseteq dirty /\ \A b \in Buf : valid[b] => valid'[b]
    BY <1>c, <1>d, <1>t
  <2> QED
    BY <1>inv, <1>u, <2>1 DEF DirtyInv
<1>5. ValidInv'
  <2>1. data[cur[p]] = last[blockno[cur[p]]]
    BY <1>inv, <1>b, <1>h DEF ValidInv, Transferred
  <2>2. \A b \in Buf : valid'[b] => blockno[b] # Nil /\ data[b] = last[blockno[b]]
    BY <1>inv, <1>b, <1>c, <2>1, VirtioAssumption DEF ValidInv
  <2>3. ASSUME NEW blk \in Block \ dirty' PROVE platter[blk] = last[blk]
    <3>1. CASE blk \notin dirty
      BY <1>inv, <3>1 DEF ValidInv
    <3>2. CASE blk \in dirty
      <4>1. wr[p] /\ blk = blockno[cur[p]]
        BY <1>d, <1>t, <3>2
      <4> QED
        BY <1>b, <2>1, <4>1 DEF Transferred
    <3> QED
      BY <3>1, <3>2
  <2>4. \A q \in Proc : pc'[q] = "held" => valid'[cur[q]]
    BY <1>inv, <1>c, <1>o DEF ValidInv, Holding
  <2>5. ASSUME NEW q \in Proc, pc'[q] \in Driver PROVE wr'[q] <=> valid'[cur[q]]
    <3>1. q # p
      BY <1>c, <2>5 DEF Driver
    <3>2. wr'[q] = wr[q] /\ valid'[cur[q]] = valid[cur[q]] /\ pc[q] \in Driver
      BY <1>c, <1>o, <2>5, <3>1 DEF Holding
    <3> QED
      BY <1>inv, <3>2 DEF ValidInv
  <2>6. \A q \in Proc : wr'[q] => pc'[q] \in Driver /\ blockno[cur[q]] \in dirty'
    BY <1>inv, <1>c, <1>d, <1>t, <1>o DEF ValidInv, Holding
  <2> QED
    BY <1>u, <2>2, <2>3, <2>4, <2>5, <2>6 DEF ValidInv
<1> QED
  BY <1>1, <1>3, <1>4, <1>5 DEF IInv

(* The holder changes the data: no other buffer stands for the block. *)
LEMMA ModifyStep ==
  ASSUME IInv, NEW p \in Proc, Modify(p)
  PROVE  IInv'
<1>inv. TypeInv /\ CacheInv /\ DirtyInv /\ ValidInv
  BY DEF IInv
<1>t. /\ data \in [Buf -> Nat] /\ last \in [Block -> Nat] /\ mods \in Nat /\ mods' \in Nat
      /\ dirty \subseteq Block
  <2>1. /\ data \in [Buf -> Nat] /\ last \in [Block -> Nat] /\ mods \in Nat
        /\ dirty \subseteq Block /\ mods' = mods + 1
    BY <1>inv DEF TypeInv, Modify
  <2>2. mods' \in Nat
    BY <2>1, SMTT(30)
  <2> QED
    BY <2>1, <2>2
<1> DEFINE blk == blockno[cur[p]]
<1>b. pc[p] = "held" /\ pc[p] \in Holding /\ cur[p] \in Buf /\ blk \in Block /\ owner[cur[p]] = p
  BY Buffers DEF Modify, Holding
<1>c. /\ data'[cur[p]] = last'[blk]
      /\ \A b \in Buf \ {cur[p]} : data'[b] = data[b]
      /\ \A k \in Block \ {blk} : last'[k] = last[k]
      /\ dirty' = dirty \cup {blk}
  BY <1>t, <1>b DEF Modify
<1>u. UNCHANGED <<free, req, bdisk, head, avail, used, inflight, platter, pc, cur, wr, lru,
                  blockno, valid, refcnt, owner, pinned>>
  BY DEF Modify, driver, device, cache
<1>1. TypeInv'
  <2>1. data' \in [Buf -> Nat] /\ last' \in [Block -> Nat] /\ dirty' \subseteq Block
    BY <1>t, <1>b DEF Modify
  <2> QED
    BY <1>inv, <1>u, <1>t, <2>1 DEF TypeInv
<1>2. (\A S : Keeps(S)) /\ (\A S : KeepsBuffer(S))
  BY <1>u DEF Keeps, KeepsBuffer
<1>3. CacheInv' /\ RefcntExact' /\ OwnerInv' /\ RequestInv' /\ RingInv' /\ DescInv'
  BY <1>2, <1>u, CacheFrame, RefcntFrame, OwnerFrame, RequestFrame, RingFrame, DescFrame
     DEF IInv, CacheSame, RefcntSame, OwnerSame, RequestSame, RingSame, DescSame
<1>4. DoneInv'
  <2>1. ASSUME NEW q \in Proc, pc[q] \in Requesting \cup {"rwdone"}
        PROVE  data'[cur[q]] = data[cur[q]] /\ last'[blockno[cur[q]]] = last[blockno[cur[q]]]
    <3>1. pc[q] \in Holding /\ q # p
      BY <1>b, <2>1 DEF Requesting, InIO, Holding, Driver
    <3> QED
      BY <1>b, <1>c, <3>1, Buffers
  <2> QED
    BY <1>u, <2>1, DoneFrame DEF IInv, DoneSame
<1>5. DirtyInv'
  <2>1. valid[cur[p]]
    BY <1>inv, <1>b DEF ValidInv
  <2>2. \A k \in dirty : \E b \in Buf :
          blockno[b] = k /\ valid[b] /\ (k \in pinned \/ owner[b] \in Proc)
    BY <1>inv DEF DirtyInv
  <2>3. \E b \in Buf : blockno[b] = blk /\ valid[b] /\ (blk \in pinned \/ owner[b] \in Proc)
    BY <1>b, <2>1
  <2>4. \A k \in dirty' : \E b \in Buf :
          blockno[b] = k /\ valid[b] /\ (k \in pinned \/ owner[b] \in Proc)
    BY <1>c, <2>2, <2>3
  <2> QED
    BY <1>u, <2>4 DEF DirtyInv
<1>6. ValidInv'
  <2>1. ASSUME NEW b \in Buf, valid[b]
        PROVE  blockno[b] # Nil /\ data'[b] = last'[blockno[b]]
    <3>1. blockno[b] # Nil /\ data[b] = last[blockno[b]]
      BY <1>inv, <2>1 DEF ValidInv
    <3>2. blockno[b] \in Block
      BY <1>inv, <3>1 DEF TypeInv
    <3>3. b # cur[p] => blockno[b] # blk
      BY <1>inv, <1>b, <3>1 DEF CacheInv
    <3> QED
      BY <1>c, <3>1, <3>2, <3>3
  <2>2. \A k \in Block \ dirty' : platter[k] = last'[k]
    BY <1>inv, <1>c DEF ValidInv
  <2>3. \A q \in Proc : wr[q] => pc[q] \in Driver /\ blockno[cur[q]] \in dirty'
    BY <1>inv, <1>c DEF ValidInv
  <2> QED
    BY <1>inv, <1>u, <2>1, <2>2, <2>3 DEF ValidInv
<1> QED
  BY <1>1, <1>3, <1>4, <1>5, <1>6 DEF IInv

(* brelse() unlocks a buffer that is clean or pinned. *)
LEMMA BrelseUnlockStep ==
  ASSUME IInv, NEW p \in Proc, BrelseUnlock(p)
  PROVE  IInv'
<1>inv. TypeInv /\ OwnerInv /\ DirtyInv /\ ValidInv
  BY DEF IInv
<1>t. pc \in [Proc -> Labels] /\ owner \in [Buf -> Proc \cup {Nil}]
  BY <1>inv DEF TypeInv
<1>b. /\ pc[p] = "held" /\ pc[p] \in Holding /\ cur[p] \in Buf /\ owner[cur[p]] = p
      /\ blockno[cur[p]] \in dirty => blockno[cur[p]] \in pinned
  BY Buffers DEF BrelseUnlock, Holding
<1>c. /\ pc'[p] = "brelse" /\ \A q \in Proc \ {p} : pc'[q] = pc[q]
      /\ owner'[cur[p]] = Nil /\ \A b \in Buf \ {cur[p]} : owner'[b] = owner[b]
  BY <1>t, <1>b DEF BrelseUnlock, Goto
<1>u. UNCHANGED <<free, req, bdisk, head, avail, used, inflight, platter, data, cur, wr, lru,
                  blockno, valid, refcnt, pinned, dirty, mods, last>>
  BY DEF BrelseUnlock, driver, device, ghost
<1>1. TypeInv'
  <2>1. pc' \in [Proc -> Labels] /\ owner' \in [Buf -> Proc \cup {Nil}]
    BY <1>t DEF BrelseUnlock, Goto, Labels
  <2> QED
    BY <1>inv, <1>u, <2>1 DEF TypeInv
<1>2. /\ Keeps({"user"}) /\ Keeps({"publish"}) /\ Keeps({"rwdone"}) /\ Keeps(InIO) /\ Keeps(Requesting)
      /\ \A S : KeepsBuffer(S)
      /\ \A q \in Proc : pc'[q] = "descsleep" => pc[q] = "descsleep"
  BY <1>b, <1>c, <1>u DEF Keeps, KeepsBuffer, InIO, Requesting
<1>3. CacheInv' /\ RefcntExact' /\ RequestInv' /\ RingInv' /\ DoneInv' /\ DescInv'
  BY <1>2, <1>u, CacheFrame, RefcntFrame, RequestFrame, RingFrame, DoneFrame, DescFrame
     DEF IInv, CacheSame, RefcntSame, RequestSame, RingSame, DoneSame, DescSame, Keeps
<1>4. OwnerInv'
  <2> SUFFICES ASSUME NEW b \in Buf, NEW q \in Proc
               PROVE  owner'[b] = q <=> cur[q] = b /\ pc'[q] \in Holding
    BY <1>u DEF OwnerInv
  <2>1. owner[b] = q <=> cur[q] = b /\ pc[q] \in Holding
    BY <1>inv DEF OwnerInv
  <2>2. CASE q = p
    <3>1. owner'[b] # p
      BY <1>b, <1>c, <2>1, <2>2, VirtioAssumption
    <3> QED
      BY <1>c, <2>2, <3>1 DEF Holding, Driver
  <2>3. CASE q # p /\ b = cur[p]
    <3>1. owner'[b] # q /\ owner[b] # q
      BY <1>b, <1>c, <2>3, VirtioAssumption
    <3> QED
      BY <1>c, <2>1, <2>3, <3>1
  <2>4. CASE q # p /\ b # cur[p]
    BY <1>c, <2>1, <2>4
  <2> QED
    BY <2>2, <2>3, <2>4
<1>5. DirtyInv'
  <2> SUFFICES ASSUME NEW blk \in dirty
               PROVE  \E b \in Buf : blockno[b] = blk /\ valid[b] /\ (blk \in pinned \/ owner'[b] \in Proc)
    BY <1>u DEF DirtyInv
  <2>1. PICK b \in Buf : blockno[b] = blk /\ valid[b] /\ (blk \in pinned \/ owner[b] \in Proc)
    BY <1>inv DEF DirtyInv
  <2>2. blk \in pinned \/ owner'[b] \in Proc
    BY <1>b, <1>c, <2>1
  <2> QED
    BY <2>1, <2>2
<1>6. ValidInv'
  <2>1. ~ wr[p]
    BY <1>inv, <1>b DEF ValidInv, Driver
  <2>2. \A q \in Proc : pc'[q] = "held" => valid[cur[q]]
    BY <1>inv, <1>c DEF ValidInv
  <2>3. \A q \in Proc : pc'[q] \in Driver => (wr[q] <=> valid[cur[q]])
    <3>1. pc'[p] \notin Driver
      BY <1>c DEF Driver
    <3> QED
      BY <1>inv, <1>c, <3>1 DEF ValidInv
  <2>4. \A q \in Proc : wr[q] => pc'[q] \in Driver /\ blockno[cur[q]] \in dirty
    BY <1>inv, <1>c, <2>1 DEF ValidInv
  <2> QED
    BY <1>inv, <1>u, <2>2, <2>3, <2>4 DEF ValidInv
<1> QED
  BY <1>1, <1>3, <1>4, <1>5, <1>6 DEF IInv

(* bpin() and bunpin() by the holder of the only buffer of the block. *)
LEMMA PinStep ==
  ASSUME IInv, NEW p \in Proc, Bpin(p) \/ Bunpin(p)
  PROVE  IInv'
<1>inv. TypeInv /\ CacheInv /\ RefcntExact /\ DirtyInv
  BY DEF IInv
<1> DEFINE b == cur[p]
           blk == blockno[b]
           Refs(c) == Cardinality({q \in Proc : cur[q] = c})
<1>t. /\ refcnt \in [Buf -> Nat] /\ pinned \subseteq Block /\ IsFiniteSet(pinned)
      /\ Cardinality(pinned) <= MaxPin
  BY <1>inv DEF TypeInv
<1>b. pc[p] = "held" /\ b \in Buf /\ blk \in Block /\ owner[b] = p
  BY Buffers DEF Bpin, Bunpin, Holding
<1>f. \A c \in Buf : Refs(c) \in Nat
  <2> SUFFICES ASSUME NEW c \in Buf PROVE Refs(c) \in Nat
    OBVIOUS
  <2>1. {q \in Proc : cur[q] = c} \in SUBSET Proc
    OBVIOUS
  <2> QED
    BY <2>1, VirtioAssumption, FS_Subset, FS_CardinalityType
<1>r. \A c \in Buf : refcnt[c] = Refs(c) + (IF blockno[c] \in pinned THEN 1 ELSE 0)
  BY <1>inv DEF RefcntExact
<1>o. \A c \in Buf \ {b} : blockno[c] # blk
  BY <1>inv, <1>b, VirtioAssumption DEF CacheInv
<1>c. /\ refcnt'[b] = refcnt[b] + (IF Bpin(p) THEN 1 ELSE 0 - 1)
      /\ \A c \in Buf \ {b} : refcnt'[c] = refcnt[c]
  BY <1>t, <1>b, SMTT(30) DEF Bpin, Bunpin
<1>d. /\ Bpin(p) => blk \notin pinned /\ pinned' = pinned \cup {blk} /\ Cardinality(pinned) < MaxPin
      /\ ~ Bpin(p) => blk \in pinned /\ pinned' = pinned \ {blk} /\ blk \notin dirty
  BY DEF Bpin, Bunpin
<1>u. UNCHANGED <<free, req, bdisk, head, avail, used, inflight, platter, data, pc, cur, wr, lru,
                  blockno, valid, owner, dirty, mods, last>>
  BY DEF Bpin, Bunpin, driver, device
<1>1. RefcntExact'
  <2>1. refcnt'[b] = Refs(b) + (IF blk \in pinned' THEN 1 ELSE 0)
    <3>1. refcnt[b] = Refs(b) + (IF Bpin(p) THEN 0 ELSE 1)
      BY <1>b, <1>r, <1>d
    <3>2. blk \in pinned' <=> Bpin(p)
      BY <1>d
    <3> HIDE DEF b, blk, Refs
    <3> QED
      BY <1>b, <1>c, <1>f, <3>1, <3>2, SMTT(30)
  <2>2. \A c \in Buf \ {b} : refcnt'[c] = Refs(c) + (IF blockno[c] \in pinned' THEN 1 ELSE 0)
    <3>1. \A c \in Buf \ {b} : blockno[c] \in pinned' <=> blockno[c] \in pinned
      BY <1>d, <1>o
    <3> QED
      BY <1>c, <1>r, <3>1
  <2>3. \A c \in Buf : refcnt'[c] = Refs(c) + (IF blockno[c] \in pinned' THEN 1 ELSE 0)
    BY <2>1, <2>2
  <2> QED
    BY <1>u, <2>3 DEF RefcntExact
<1>2. TypeInv'
  <2>1. DOMAIN refcnt' = Buf /\ refcnt' = [c \in Buf |-> refcnt'[c]]
    BY <1>t DEF Bpin, Bunpin
  <2>2. refcnt'[b] \in Nat
    <3>1. refcnt'[b] = Refs(b) + (IF blk \in pinned' THEN 1 ELSE 0)
      BY <1>1, <1>u, <1>b DEF RefcntExact
    <3> HIDE DEF b, blk, Refs
    <3> QED
      BY <1>b, <1>f, <3>1, SMTT(30)
  <2>3. refcnt' \in [Buf -> Nat]
    BY <1>c, <1>t, <2>1, <2>2
  <2>4. pinned' \subseteq Block /\ IsFiniteSet(pinned') /\ Cardinality(pinned') <= MaxPin
    <3>1. CASE Bpin(p)
      <4>1. IsFiniteSet(pinned') /\ Cardinality(pinned') = Cardinality(pinned) + 1
        BY <1>d, <1>t, <3>1, FS_AddElement
      <4>2. Cardinality(pinned) \in Nat
        BY <1>t, FS_CardinalityType
      <4>3. Cardinality(pinned') <= MaxPin
        BY <1>d, <3>1, <4>1, <4>2, BcacheAssumption, SMTT(30)
      <4> QED
        BY <1>b, <1>d, <1>t, <3>1, <4>1, <4>3
    <3>2. CASE ~ Bpin(p)
      <4>1. IsFiniteSet(pinned') /\ Cardinality(pinned') = Cardinality(pinned) - 1
        BY <1>d, <1>t, <3>2, FS_RemoveElement
      <4>2. Cardinality(pinned) \in Nat
        BY <1>t, FS_CardinalityType
      <4>3. Cardinality(pinned') <= MaxPin
        BY <1>t, <4>1, <4>2, BcacheAssumption, SMTT(30)
      <4> QED
        BY <1>d, <1>t, <3>2, <4>1, <4>3
    <3> QED
      BY <3>1, <3>2
  <2> QED
    BY <1>inv, <1>u, <2>3, <2>4 DEF TypeInv
<1>3. CacheInv'
  <2>1. \A k \in pinned' : \E c \in Buf : blockno[c] = k
    <3>1. \A k \in pinned : \E c \in Buf : blockno[c] = k
      BY <1>inv DEF CacheInv
    <3>2. \E c \in Buf : blockno[c] = blk
      BY <1>b
    <3>3. pinned' \subseteq pinned \cup {blk}
      BY <1>d
    <3> QED
      BY <3>1, <3>2, <3>3
  <2> QED
    BY <1>inv, <1>u, <2>1 DEF CacheInv
<1>4. DirtyInv'
  <2>1. \A k \in dirty : k \in pinned => k \in pinned'
    BY <1>d
  <2> QED
    BY <1>inv, <1>u, <2>1 DEF DirtyInv
<1>5. (\A S : Keeps(S)) /\ (\A S : KeepsBuffer(S))
  BY <1>u DEF Keeps, KeepsBuffer
<1>6. OwnerInv' /\ ValidInv' /\ RequestInv' /\ RingInv' /\ DoneInv' /\ DescInv'
  BY <1>5, <1>u, OwnerFrame, ValidFrame, RequestFrame, RingFrame, DoneFrame, DescFrame
     DEF IInv, OwnerSame, ValidSame, RequestSame, RingSame, DoneSame, DescSame
<1> QED
  BY <1>1, <1>2, <1>3, <1>4, <1>6 DEF IInv

(* The references of processes to a buffer are counted by a natural number. *)
LEMMA RefsFinite ==
  ASSUME NEW c
  PROVE  /\ IsFiniteSet({q \in Proc : cur[q] = c})
         /\ Cardinality({q \in Proc : cur[q] = c}) \in Nat
<1>1. {q \in Proc : cur[q] = c} \in SUBSET Proc
  OBVIOUS
<1> QED
  BY <1>1, VirtioAssumption, FS_Subset, FS_CardinalityType

(* bget() finds the block in the cache. *)
LEMMA BgetHitStep ==
  ASSUME IInv, NEW p \in Proc, NEW blk \in Block, BgetHit(p, blk)
  PROVE  IInv'
<1>inv. TypeInv /\ CacheInv /\ RefcntExact /\ OwnerInv
  BY DEF IInv
<1>t. pc \in [Proc -> Labels] /\ cur \in [Proc -> Buf \cup {Nil}] /\ refcnt \in [Buf -> Nat]
  BY <1>inv DEF TypeInv
<1>b. PICK b \in Cached(blk) :
        cur' = [cur EXCEPT ![p] = b] /\ refcnt' = [refcnt EXCEPT ![b] = @ + 1]
  BY DEF BgetHit
<1>d. b \in Buf /\ blockno[b] = blk
  BY DEF Cached
<1>e. pc[p] = "user" /\ cur[p] = Nil
  BY <1>inv DEF BgetHit, CacheInv
<1>c. /\ pc'[p] = "lock" /\ cur'[p] = b
      /\ \A q \in Proc \ {p} : pc'[q] = pc[q] /\ cur'[q] = cur[q]
      /\ refcnt'[b] = refcnt[b] + 1
      /\ \A c \in Buf \ {b} : refcnt'[c] = refcnt[c]
  BY <1>t, <1>b, <1>d DEF BgetHit, Goto
<1>n. Nil \notin Buf
  BY VirtioAssumption, SMTT(30) DEF Buf
<1>u. UNCHANGED <<free, req, bdisk, head, avail, used, inflight, platter, data, wr, lru, blockno,
                  valid, owner, pinned, dirty, mods, last>>
  BY DEF BgetHit, driver, device, ghost
<1>1. TypeInv'
  <2>1. pc' \in [Proc -> Labels] /\ cur' \in [Proc -> Buf \cup {Nil}]
    BY <1>t, <1>b, <1>d DEF BgetHit, Goto, Labels
  <2>2. refcnt' \in [Buf -> Nat]
    <3>1. refcnt[b] + 1 \in Nat
      BY <1>t, <1>d, SMTT(30)
    <3> QED
      BY <1>t, <1>b, <3>1
  <2> QED
    BY <1>inv, <1>u, <2>1, <2>2 DEF TypeInv
<1>2. CacheInv'
  <2>a. \A q \in Proc : pc[q] = "user" <=> cur[q] = Nil
    BY <1>inv DEF CacheInv
  <2>1. \A q \in Proc : pc'[q] = "user" <=> cur'[q] = Nil
    BY <1>c, <1>d, <1>n, <2>a
  <2>2. \A q \in Proc : cur'[q] # Nil => blockno[cur'[q]] # Nil
    <3>1. blockno[b] # Nil
      BY <1>d, VirtioAssumption
    <3> QED
      BY <1>inv, <1>c, <3>1 DEF CacheInv
  <2> QED
    BY <1>inv, <1>u, <2>1, <2>2 DEF CacheInv
<1>3. RefcntExact'
  <2> DEFINE R(c) == {q \in Proc : cur[q] = c}
             R1(c) == {q \in Proc : cur'[q] = c}
             Pin(c) == IF blockno[c] \in pinned THEN 1 ELSE 0
  <2>1. R1(b) = R(b) \cup {p} /\ p \notin R(b)
    BY <1>c, <1>d, <1>e, <1>n
  <2>2. \A c \in Buf \ {b} : R1(c) = R(c)
    BY <1>c, <1>e, <1>n
  <2>3. Cardinality(R1(b)) = Cardinality(R(b)) + 1 /\ Cardinality(R(b)) \in Nat
    <3>1. IsFiniteSet(R(b)) /\ Cardinality(R(b)) \in Nat
      BY RefsFinite
    <3> HIDE DEF R, R1
    <3> QED
      BY <2>1, <3>1, FS_AddElement
  <2>4. \A c \in Buf : refcnt[c] = Cardinality(R(c)) + Pin(c)
    BY <1>inv DEF RefcntExact
  <2>5. \A c \in Buf : refcnt'[c] = Cardinality(R1(c)) + Pin(c)
    <3>1. refcnt'[b] = Cardinality(R1(b)) + Pin(b)
      <4>1. Pin(b) \in Nat
        BY SMTT(30)
      <4>2. refcnt'[b] = Cardinality(R(b)) + Pin(b) + 1
        BY <1>c, <1>d, <2>4
      <4> HIDE DEF Pin, R, R1
      <4> QED
        BY <2>3, <4>1, <4>2, SMTT(30)
    <3>2. \A c \in Buf \ {b} : refcnt'[c] = Cardinality(R1(c)) + Pin(c)
      BY <1>c, <2>2, <2>4
    <3> QED
      BY <3>1, <3>2
  <2> QED
    BY <1>u, <2>5 DEF RefcntExact
<1>4. /\ Keeps({"publish"}) /\ Keeps({"rwdone"}) /\ Keeps({"held"}) /\ Keeps(InIO) /\ Keeps(Requesting)
      /\ Keeps(Holding) /\ Keeps(Driver) /\ KeepsBuffer(Requesting) /\ KeepsBuffer(Holding)
      /\ \A q \in Proc : pc'[q] = "descsleep" => pc[q] = "descsleep"
      /\ \A q \in Proc : pc'[q] \in Requesting \cup Holding => cur'[q] = cur[q]
      /\ \A q \in Proc : pc[q] \in Requesting \cup Holding => cur'[q] = cur[q]
  BY <1>c, <1>e, <1>u DEF Keeps, KeepsBuffer, InIO, Requesting, Holding, Driver
<1>5. OwnerInv' /\ DirtyInv' /\ ValidInv' /\ RequestInv' /\ RingInv' /\ DescInv'
  BY <1>4, <1>u, OwnerFrame, DirtyFrame, ValidFrame, RequestFrame, RingFrame, DescFrame
     DEF IInv, OwnerSame, DirtySame, ValidSame, RequestSame, RingSame, DescSame
<1>6. DoneInv'
  <2>1. \A q \in Proc : pc'[q] \in Requesting \cup {"rwdone"} => cur'[q] = cur[q]
    BY <1>4 DEF Holding, Driver
  <2> QED
    BY <1>4, <1>u, <2>1, DoneFrame DEF IInv, DoneSame, Keeps
<1> QED
  BY <1>1, <1>2, <1>3, <1>5, <1>6 DEF IInv

(* A buffer that bget() recycles has no users. *)
LEMMA Unreferenced ==
  ASSUME IInv, NEW b \in Buf, refcnt[b] = 0
  PROVE  (\A q \in Proc : cur[q] # b) /\ blockno[b] \notin pinned /\ owner[b] \notin Proc
<1> DEFINE R == {q \in Proc : cur[q] = b}
<1>1. IsFiniteSet(R) /\ Cardinality(R) \in Nat
  BY RefsFinite
<1>2. 0 = Cardinality(R) + (IF blockno[b] \in pinned THEN 1 ELSE 0)
  BY DEF IInv, RefcntExact
<1>3. Cardinality(R) = 0 /\ blockno[b] \notin pinned
  <2> HIDE DEF R
  <2> QED
    BY <1>1, <1>2, SMTT(30)
<1>4. R = {}
  <2> HIDE DEF R
  <2> QED
    BY <1>1, <1>3, FS_EmptySet
<1>5. owner[b] \notin Proc
  BY <1>4 DEF IInv, OwnerInv
<1> QED
  BY <1>3, <1>4, <1>5

(* bget() recycles a buffer. *)
LEMMA BgetMissStep ==
  ASSUME IInv, NEW p \in Proc, NEW blk \in Block, BgetMiss(p, blk)
  PROVE  IInv'
<1>inv. TypeInv /\ CacheInv /\ RefcntExact /\ OwnerInv /\ DirtyInv /\ ValidInv
  BY DEF IInv
<1>t. /\ pc \in [Proc -> Labels] /\ cur \in [Proc -> Buf \cup {Nil}] /\ refcnt \in [Buf -> Nat]
      /\ blockno \in [Buf -> Block \cup {Nil}] /\ valid \in [Buf -> BOOLEAN]
  BY <1>inv DEF TypeInv
<1>k1. \A q \in Proc : pc[q] = "user" <=> cur[q] = Nil
  BY <1>inv DEF CacheInv
<1>k2. \A q \in Proc : cur[q] # Nil => blockno[cur[q]] # Nil
  BY <1>inv DEF CacheInv
<1>k3. \A c, d \in Buf : blockno[c] = blockno[d] /\ blockno[c] # Nil => c = d
  BY <1>inv DEF CacheInv
<1> DEFINE V == {i \in 1 .. NBUF : lru[i] \in Victims}
           b == lru[Max(V)]
<1>v. b \in Buf /\ refcnt[b] = 0
  <2>1. V # {}
    <3>1. PICK c \in Buf : c \in Victims
      BY DEF BgetMiss, Victims
    <3>2. PICK i \in 1 .. NBUF : lru[i] = c
      BY <1>inv DEF CacheInv
    <3> QED
      BY <3>1, <3>2
  <2>2. V \in SUBSET (1 .. NBUF) /\ NBUF \in Nat
    BY VirtioAssumption
  <2>3. Max(V) \in V
    <3> HIDE DEF V
    <3> QED
      BY <2>1, <2>2, MaxIn
  <2> QED
    BY <2>3 DEF Victims
<1>a. /\ blockno' = [blockno EXCEPT ![b] = blk] /\ valid' = [valid EXCEPT ![b] = FALSE]
      /\ refcnt' = [refcnt EXCEPT ![b] = 1] /\ cur' = [cur EXCEPT ![p] = b]
      /\ pc' = [pc EXCEPT ![p] = "lock"] /\ pc[p] = "user"
      /\ \A c \in Buf : blockno[c] # blk
  BY DEF BgetMiss, Goto, Cached
<1> HIDE DEF b
<1>e. cur[p] = Nil
  BY <1>k1, <1>a
<1>c. /\ pc'[p] = "lock" /\ cur'[p] = b
      /\ \A q \in Proc \ {p} : pc'[q] = pc[q] /\ cur'[q] = cur[q]
  BY <1>t, <1>a, <1>v
<1>d. /\ refcnt'[b] = 1 /\ blockno'[b] = blk /\ valid'[b] = FALSE
      /\ \A c \in Buf \ {b} : refcnt'[c] = refcnt[c] /\ blockno'[c] = blockno[c] /\ valid'[c] = valid[c]
  BY <1>t, <1>a, <1>v
<1>n. Nil \notin Buf /\ Nil \notin Block
  BY VirtioAssumption, SMTT(30) DEF Buf
<1>f. (\A q \in Proc : cur[q] # b) /\ blockno[b] \notin pinned /\ owner[b] \notin Proc
  BY <1>v, Unreferenced
<1>u. UNCHANGED <<free, req, bdisk, head, avail, used, inflight, platter, data, wr, lru,
                  owner, pinned, dirty, mods, last>>
  BY DEF BgetMiss, driver, device, ghost
<1>1. TypeInv'
  <2>1. pc' \in [Proc -> Labels] /\ cur' \in [Proc -> Buf \cup {Nil}]
    BY <1>t, <1>a, <1>v DEF Labels
  <2>2. /\ refcnt' \in [Buf -> Nat] /\ blockno' \in [Buf -> Block \cup {Nil}]
        /\ valid' \in [Buf -> BOOLEAN]
    <3>1. 1 \in Nat
      BY SMTT(30)
    <3> QED
      BY <1>t, <1>a, <1>v, <3>1
  <2> QED
    BY <1>inv, <1>u, <2>1, <2>2 DEF TypeInv
<1>2. CacheInv'
  <2>1. \A q \in Proc : pc'[q] = "user" <=> cur'[q] = Nil
    BY <1>k1, <1>c, <1>v, <1>n
  <2>2. ASSUME NEW q \in Proc, cur'[q] # Nil PROVE blockno'[cur'[q]] # Nil
    <3>1. CASE q = p
      BY <1>c, <1>d, <1>n, <3>1
    <3>2. CASE q # p
      <4>1. cur'[q] = cur[q]
        BY <1>c, <3>2
      <4>2. cur[q] \in Buf \cup {Nil}
        BY <1>t
      <4>3. cur[q] \in Buf \ {b}
        BY <1>f, <2>2, <4>1, <4>2
      <4> QED
        BY <1>k2, <1>d, <2>2, <4>1, <4>3
    <3> QED
      BY <3>1, <3>2
  <2>3. ASSUME NEW c \in Buf, NEW d \in Buf, blockno'[c] = blockno'[d], blockno'[c] # Nil
        PROVE  c = d
    <3>1. CASE c = b \/ d = b
      BY <1>a, <1>d, <2>3, <3>1
    <3>2. CASE c # b /\ d # b
      <4>1. blockno'[c] = blockno[c] /\ blockno'[d] = blockno[d]
        BY <1>d, <3>2
      <4> QED
        BY <1>k3, <2>3, <4>1
    <3> QED
      BY <3>1, <3>2
  <2>4. ASSUME NEW k \in pinned PROVE \E c \in Buf : blockno'[c] = k
    <3>1. PICK c \in Buf : blockno[c] = k
      BY <1>inv DEF CacheInv
    <3> QED
      BY <1>d, <1>f, <3>1
  <2> QED
    BY <1>inv, <1>u, <2>1, <2>2, <2>3, <2>4 DEF CacheInv
<1>3. RefcntExact'
  <2> DEFINE R(c) == {q \in Proc : cur[q] = c}
             R1(c) == {q \in Proc : cur'[q] = c}
  <2>1. R1(b) = {p}
    BY <1>c, <1>f
  <2>2. \A c \in Buf \ {b} : R1(c) = R(c)
    BY <1>c, <1>e, <1>n
  <2>3. blk \notin pinned
    BY <1>inv, <1>a DEF CacheInv
  <2>4. refcnt'[b] = Cardinality(R1(b)) + (IF blockno'[b] \in pinned THEN 1 ELSE 0)
    <3>1. Cardinality(R1(b)) = 1
      BY <2>1, FS_Singleton
    <3>2. (IF blockno'[b] \in pinned THEN 1 ELSE 0) = 0
      BY <1>d, <2>3
    <3> HIDE DEF R1
    <3> QED
      BY <1>d, <3>1, <3>2, SMTT(30)
  <2>5. \A c \in Buf : refcnt[c] = Cardinality(R(c)) + (IF blockno[c] \in pinned THEN 1 ELSE 0)
    BY <1>inv DEF RefcntExact
  <2>6. \A c \in Buf \ {b} :
          refcnt'[c] = Cardinality(R1(c)) + (IF blockno'[c] \in pinned THEN 1 ELSE 0)
    BY <1>d, <2>2, <2>5
  <2>7. \A c \in Buf :
          refcnt'[c] = Cardinality(R1(c)) + (IF blockno'[c] \in pinned THEN 1 ELSE 0)
    BY <2>4, <2>6
  <2> QED
    BY <1>u, <2>7 DEF RefcntExact
<1>4. ASSUME NEW q \in Proc, pc'[q] \in Requesting \cup Holding \/ pc[q] \in Requesting \cup Holding
      PROVE  pc'[q] = pc[q] /\ cur'[q] = cur[q] /\ cur[q] \in Buf \ {b} /\
             blockno'[cur[q]] = blockno[cur[q]] /\ valid'[cur[q]] = valid[cur[q]]
  <2>1. q # p
    BY <1>a, <1>c, <1>4 DEF Requesting, InIO, Holding, Driver
  <2>2. pc'[q] = pc[q] /\ cur'[q] = cur[q] /\ pc[q] # "user"
    BY <1>c, <1>4, <2>1 DEF Requesting, InIO, Holding, Driver
  <2>3. cur[q] \in Buf \ {b}
    BY <1>f, <2>2, Buffers
  <2> QED
    BY <1>d, <2>2, <2>3
<1>5. /\ Keeps({"publish"}) /\ Keeps({"rwdone"}) /\ Keeps({"held"}) /\ Keeps(InIO) /\ Keeps(Requesting)
      /\ Keeps(Holding) /\ Keeps(Driver)
      /\ \A q \in Proc : pc'[q] = "descsleep" => pc[q] = "descsleep"
  BY <1>c, <1>a DEF Keeps, InIO, Requesting, Holding, Driver
<1>6. KeepsBuffer(Requesting)
  BY <1>4, <1>u DEF KeepsBuffer
<1>7. OwnerInv' /\ RequestInv' /\ RingInv' /\ DescInv'
  BY <1>4, <1>5, <1>6, <1>u, OwnerFrame, RequestFrame, RingFrame, DescFrame
     DEF IInv, OwnerSame, RequestSame, RingSame, DescSame
<1>8. DoneInv'
  <2>1. \A q \in Proc : pc'[q] \in Requesting \cup {"rwdone"} => pc'[q] \in Requesting \cup Holding
    BY DEF Holding, Driver
  <2> QED
    BY <1>4, <1>5, <1>u, <2>1, DoneFrame DEF IInv, DoneSame, Keeps
<1>9. DirtyInv'
  <2> SUFFICES ASSUME NEW k \in dirty
               PROVE  \E c \in Buf : blockno'[c] = k /\ valid'[c] /\ (k \in pinned \/ owner[c] \in Proc)
    BY <1>u DEF DirtyInv
  <2>1. PICK c \in Buf : blockno[c] = k /\ valid[c] /\ (k \in pinned \/ owner[c] \in Proc)
    BY <1>inv DEF DirtyInv
  <2>2. c # b
    BY <1>f, <2>1
  <2> QED
    BY <1>d, <2>1, <2>2
<1>10. ValidInv'
  <2>a. \A c \in Buf : valid[c] => blockno[c] # Nil /\ data[c] = last[blockno[c]]
    BY <1>inv DEF ValidInv
  <2>1. ASSUME NEW c \in Buf, valid'[c] PROVE blockno'[c] # Nil /\ data[c] = last[blockno'[c]]
    <3>1. c # b
      BY <1>d, <2>1
    <3> QED
      BY <1>d, <2>a, <2>1, <3>1
  <2>2. \A q \in Proc : pc'[q] = "held" => valid'[cur'[q]]
    BY <1>inv, <1>4 DEF ValidInv, Holding
  <2>3. ASSUME NEW q \in Proc, pc'[q] \in Driver PROVE wr[q] <=> valid'[cur'[q]]
    <3>1. pc[q] \in Driver /\ cur'[q] = cur[q] /\ valid'[cur[q]] = valid[cur[q]]
      BY <1>4, <2>3 DEF Holding
    <3> QED
      BY <1>inv, <3>1 DEF ValidInv
  <2>4. ASSUME NEW q \in Proc, wr[q] PROVE pc'[q] \in Driver /\ blockno'[cur'[q]] \in dirty
    <3>1. pc[q] \in Driver /\ blockno[cur[q]] \in dirty
      BY <1>inv, <2>4 DEF ValidInv
    <3>2. pc[q] \in Requesting \cup Holding
      BY <3>1 DEF Holding
    <3> QED
      BY <1>4, <3>1, <3>2
  <2> QED
    BY <1>inv, <1>u, <2>1, <2>2, <2>3, <2>4 DEF ValidInv
<1> QED
  BY <1>1, <1>2, <1>3, <1>7, <1>8, <1>9, <1>10 DEF IInv

(* Moving a buffer to the front leaves all buffers in the list. *)
LEMMA MovedToFrontAll ==
  ASSUME IInv, NEW b \in Buf
  PROVE  /\ MovedToFront(b) \in [1 .. NBUF -> Buf]
         /\ \A c \in Buf : \E i \in 1 .. NBUF : MovedToFront(b)[i] = c
<1>t. /\ NBUF \in Nat /\ NBUF # 0 /\ lru \in [1 .. NBUF -> Buf]
      /\ \A c \in Buf : \E i \in 1 .. NBUF : lru[i] = c
  BY VirtioAssumption DEF IInv, TypeInv, CacheInv
<1> DEFINE k == CHOOSE i \in 1 .. NBUF : lru[i] = b
           F(i) == IF i = 1 THEN b ELSE IF i <= k THEN lru[i - 1] ELSE lru[i]
<1>1. k \in 1 .. NBUF /\ lru[k] = b
  BY <1>t
<1>2. MovedToFront(b) = [i \in 1 .. NBUF |-> F(i)]
  BY DEF MovedToFront
<1> HIDE DEF k
<1>3. \A i \in 1 .. NBUF : F(i) \in Buf
  BY <1>t, <1>1, SMTT(30)
<1>4. ASSUME NEW c \in Buf PROVE \E i \in 1 .. NBUF : F(i) = c
  <2>1. PICK j \in 1 .. NBUF : lru[j] = c
    BY <1>t
  <2>2. CASE c = b
    <3>1. 1 \in 1 .. NBUF /\ F(1) = b
      BY <1>t, SMTT(30)
    <3> QED
      BY <2>2, <3>1
  <2>3. CASE c # b /\ j < k
    <3>1. j + 1 \in 1 .. NBUF /\ j + 1 # 1 /\ j + 1 <= k /\ (j + 1) - 1 = j
      BY <1>t, <1>1, <2>3, SMTT(30)
    <3>2. F(j + 1) = c
      BY <2>1, <3>1
    <3> QED
      BY <3>1, <3>2
  <2>4. CASE c # b /\ ~ (j < k)
    <3>1. j # k
      BY <1>1, <2>1, <2>4
    <3>2. j # 1 /\ ~ (j <= k)
      BY <1>t, <1>1, <2>4, <3>1, SMTT(30)
    <3>3. F(j) = c
      BY <2>1, <3>2
    <3> QED
      BY <3>3
  <2> QED
    BY <2>2, <2>3, <2>4
<1> HIDE DEF F
<1> QED
  BY <1>2, <1>3, <1>4

(* brelse() gives the reference back. *)
LEMMA BrelsePutStep ==
  ASSUME IInv, NEW p \in Proc, BrelsePut(p)
  PROVE  IInv'
<1>inv. TypeInv /\ CacheInv /\ RefcntExact
  BY DEF IInv
<1>t. /\ pc \in [Proc -> Labels] /\ cur \in [Proc -> Buf \cup {Nil}] /\ refcnt \in [Buf -> Nat]
      /\ lru \in [1 .. NBUF -> Buf]
  BY <1>inv DEF TypeInv
<1> DEFINE b == cur[p]
<1>b. pc[p] = "brelse" /\ b \in Buf
  BY Buffers DEF BrelsePut
<1>a. /\ refcnt' = [refcnt EXCEPT ![b] = refcnt[b] - 1] /\ cur' = [cur EXCEPT ![p] = Nil]
      /\ pc' = [pc EXCEPT ![p] = "user"] /\ (lru' = MovedToFront(b) \/ lru' = lru)
  BY DEF BrelsePut, Goto
<1>u. UNCHANGED <<free, req, bdisk, head, avail, used, inflight, platter, data, wr, blockno,
                  valid, owner, pinned, dirty, mods, last>>
  BY DEF BrelsePut, driver, device, ghost
<1>r. b = cur[p]
  OBVIOUS
<1> HIDE DEF b
<1>c. /\ pc'[p] = "user" /\ cur'[p] = Nil
      /\ \A q \in Proc \ {p} : pc'[q] = pc[q] /\ cur'[q] = cur[q]
      /\ refcnt'[b] = refcnt[b] - 1
      /\ \A c \in Buf \ {b} : refcnt'[c] = refcnt[c]
  BY <1>t, <1>a, <1>b
<1>n. Nil \notin Buf
  BY VirtioAssumption, SMTT(30) DEF Buf
<1>1. RefcntExact'
  <2> DEFINE R(c) == {q \in Proc : cur[q] = c}
             R1(c) == {q \in Proc : cur'[q] = c}
             Pin(c) == IF blockno[c] \in pinned THEN 1 ELSE 0
  <2>1. R1(b) = R(b) \ {p} /\ p \in R(b)
    BY <1>b, <1>c, <1>n, <1>r
  <2>2. \A c \in Buf \ {b} : R1(c) = R(c)
    BY <1>c, <1>n, <1>r
  <2>3. Cardinality(R1(b)) = Cardinality(R(b)) - 1 /\ Cardinality(R(b)) \in Nat
    <3>1. IsFiniteSet(R(b)) /\ Cardinality(R(b)) \in Nat
      BY RefsFinite
    <3> HIDE DEF R, R1
    <3> QED
      BY <2>1, <3>1, FS_RemoveElement
  <2>4. \A c \in Buf : refcnt[c] = Cardinality(R(c)) + Pin(c)
    BY <1>inv DEF RefcntExact
  <2>5. refcnt'[b] = Cardinality(R1(b)) + Pin(b)
    <3>1. Pin(b) \in Nat
      BY SMTT(30)
    <3>2. refcnt[b] = Cardinality(R(b)) + Pin(b) /\ refcnt'[b] = refcnt[b] - 1
      BY <1>b, <1>c, <2>4
    <3> HIDE DEF Pin, R, R1
    <3> QED
      BY <2>3, <3>1, <3>2, SMTT(30)
  <2>6. \A c \in Buf \ {b} : refcnt'[c] = Cardinality(R1(c)) + Pin(c)
    BY <1>c, <2>2, <2>4
  <2>7. \A c \in Buf : refcnt'[c] = Cardinality(R1(c)) + Pin(c)
    BY <2>5, <2>6
  <2> QED
    BY <1>u, <2>7 DEF RefcntExact
<1>2. TypeInv'
  <2>1. pc' \in [Proc -> Labels] /\ cur' \in [Proc -> Buf \cup {Nil}]
    BY <1>t, <1>a DEF Labels
  <2>2. refcnt'[b] \in Nat
    <3>1. refcnt[b] # 0
      BY <1>b, <1>r, Unreferenced
    <3>2. refcnt[b] \in Nat
      BY <1>b, <1>t
    <3> QED
      BY <1>c, <3>1, <3>2, SMTT(30)
  <2>3. refcnt' \in [Buf -> Nat]
    BY <1>t, <1>a, <1>b, <1>c, <2>2
  <2>4. lru' \in [1 .. NBUF -> Buf]
    BY <1>t, <1>a, <1>b, MovedToFrontAll
  <2> QED
    BY <1>inv, <1>u, <2>1, <2>3, <2>4 DEF TypeInv
<1>3. CacheInv'
  <2>1. \A c \in Buf : \E i \in 1 .. NBUF : lru'[i] = c
    <3>1. \A c \in Buf : \E i \in 1 .. NBUF : lru[i] = c
      BY <1>inv DEF CacheInv
    <3>2. \A c \in Buf : \E i \in 1 .. NBUF : MovedToFront(b)[i] = c
      BY <1>b, MovedToFrontAll
    <3>3. CASE lru' = lru
      BY <3>1, <3>3
    <3>4. CASE lru' = MovedToFront(b)
      BY <3>2, <3>4
    <3> QED
      BY <1>a, <3>3, <3>4
  <2>2. \A q \in Proc : pc'[q] = "user" <=> cur'[q] = Nil
    <3>1. \A q \in Proc : pc[q] = "user" <=> cur[q] = Nil
      BY <1>inv DEF CacheInv
    <3> QED
      BY <1>c, <3>1
  <2>3. \A q \in Proc : cur'[q] # Nil => blockno[cur'[q]] # Nil
    <3>1. \A q \in Proc : cur[q] # Nil => blockno[cur[q]] # Nil
      BY <1>inv DEF CacheInv
    <3> QED
      BY <1>c, <3>1
  <2> QED
    BY <1>inv, <1>u, <2>1, <2>2, <2>3 DEF CacheInv
<1>4. /\ Keeps({"publish"}) /\ Keeps({"rwdone"}) /\ Keeps({"held"}) /\ Keeps(InIO) /\ Keeps(Requesting)
      /\ Keeps(Holding) /\ Keeps(Driver) /\ KeepsBuffer(Requesting) /\ KeepsBuffer(Holding)
      /\ \A q \in Proc : pc'[q] = "descsleep" => pc[q] = "descsleep"
      /\ \A q \in Proc : pc'[q] \in Requesting \cup {"rwdone"} => cur'[q] = cur[q]
      /\ \A q \in Proc : pc[q] \in Holding => cur'[q] = cur[q]
  BY <1>b, <1>c, <1>u DEF Keeps, KeepsBuffer, InIO, Requesting, Holding, Driver
<1>5. OwnerInv' /\ DirtyInv' /\ ValidInv' /\ RequestInv' /\ RingInv' /\ DescInv'
  BY <1>4, <1>u, OwnerFrame, DirtyFrame, ValidFrame, RequestFrame, RingFrame, DescFrame
     DEF IInv, OwnerSame, DirtySame, ValidSame, RequestSame, RingSame, DescSame
<1>6. DoneInv'
  BY <1>4, <1>u, DoneFrame DEF IInv, DoneSame, Keeps
<1> QED
  BY <1>1, <1>2, <1>3, <1>5, <1>6 DEF IInv

-----------------------------------------------------------------------------
(* A request that is published goes into the avail ring. *)
LEMMA RwPublishStep ==
  ASSUME IInv, NEW p \in Proc, RwPublish(p), UNCHANGED <<cache, ghost>>
  PROVE  IInv'
<1>inv. TypeInv /\ RequestInv /\ RingInv
  BY DEF IInv
<1>t. pc \in [Proc -> Labels] /\ avail \in Seq(Desc)
  BY <1>inv DEF TypeInv
<1>b. pc[p] = "publish" /\ head[p] \in Desc /\ bdisk[cur[p]] /\ req[head[p]].status = "ff"
  BY <1>inv, Requests DEF RwPublish, RingInv, Requesting
<1>c. /\ pc'[p] = "iosleep" /\ \A q \in Proc \ {p} : pc'[q] = pc[q]
      /\ avail' = Append(avail, head[p])
  BY <1>t DEF RwPublish
<1>u. UNCHANGED <<free, req, bdisk, head, used, inflight, platter, data, cur, wr, lru,
                  blockno, valid, refcnt, owner, pinned, dirty, mods, last>>
  BY DEF RwPublish, cache, ghost
<1>i. \A q \in Proc : head[q] = head[p] => q = p
  <2>1. pc[p] \in Requesting
    BY <1>b DEF Requesting
  <2>2. head[p] # Nil
    BY <1>inv, <2>1 DEF RequestInv
  <2> QED
    BY <1>inv, <2>2 DEF RequestInv
<1>n. head[p] \notin Elems(avail) \cup inflight \cup Elems(used)
  <2> SUFFICES ASSUME head[p] \in Elems(avail) \cup inflight \cup Elems(used) PROVE FALSE
    OBVIOUS
  <2>1. PICK q \in Proc : head[q] = head[p] /\ pc[q] \in InIO
    BY <1>inv DEF RingInv
  <2> QED
    BY <1>b, <1>i, <2>1 DEF InIO
<1>e. /\ avail' \in Seq(Desc) /\ Elems(avail') = Elems(avail) \cup {head[p]} /\ Distinct(avail')
  <2>1. Distinct(avail)
    BY <1>inv DEF RingInv
  <2>2. head[p] \notin Elems(avail)
    BY <1>n
  <2>3. /\ Append(avail, head[p]) \in Seq(Desc)
        /\ Elems(Append(avail, head[p])) = Elems(avail) \cup {head[p]}
        /\ Distinct(Append(avail, head[p]))
    BY <1>t, <1>b, <2>1, <2>2, Appended, SMTT(30)
  <2> QED
    BY <1>c, <2>3
<1>1. TypeInv'
  <2>1. pc' \in [Proc -> Labels]
    BY <1>t DEF RwPublish, Labels, Holding, Driver
  <2> QED
    BY <1>inv, <1>u, <1>e, <2>1 DEF TypeInv
<1>2. /\ Keeps({"user"}) /\ Keeps({"held"}) /\ Keeps({"rwdone"}) /\ Keeps(Requesting) /\ Keeps(Holding)
      /\ Keeps(Driver) /\ (\A S : KeepsBuffer(S))
      /\ \A q \in Proc : pc'[q] = "descsleep" => pc[q] = "descsleep"
  BY <1>b, <1>c, <1>u DEF Keeps, KeepsBuffer, InIO, Requesting, Holding, Driver
<1>3. CacheInv' /\ RefcntExact' /\ OwnerInv' /\ DirtyInv' /\ ValidInv'
  BY <1>2, <1>u, CacheFrame, RefcntFrame, OwnerFrame, DirtyFrame, ValidFrame
     DEF IInv, CacheSame, RefcntSame, OwnerSame, DirtySame, ValidSame
<1>4. RequestInv' /\ DoneInv' /\ DescInv'
  BY <1>2, <1>u, RequestFrame, DoneFrame, DescFrame
     DEF IInv, RequestSame, DoneSame, DescSame, Keeps
<1>5. RingInv'
  <2>1. UNCHANGED <<Elems(used), Distinct(used)>>
    BY <1>u
  <2>2. /\ Distinct(avail') /\ Distinct(used)
        /\ Elems(avail') \cap inflight = {} /\ Elems(avail') \cap Elems(used) = {}
        /\ inflight \cap Elems(used) = {}
    <3>1. /\ Distinct(used)
          /\ Elems(avail) \cap inflight = {} /\ Elems(avail) \cap Elems(used) = {}
          /\ inflight \cap Elems(used) = {}
      BY <1>inv DEF RingInv
    <3>2. Elems(avail') \cap inflight = {}
      BY <1>e, <1>n, <3>1
    <3>3. Elems(avail') \cap Elems(used) = {}
      BY <1>e, <1>n, <3>1
    <3> QED
      BY <1>e, <3>1, <3>2, <3>3
  <2>3. ASSUME NEW h \in Elems(avail') \cup inflight \cup Elems(used)
        PROVE  \E q \in Proc : head[q] = h /\ pc'[q] \in InIO
    <3>1. CASE h = head[p]
      BY <1>c, <3>1 DEF InIO
    <3>2. CASE h # head[p]
      <4>1. PICK q \in Proc : head[q] = h /\ pc[q] \in InIO
        BY <1>inv, <1>e, <3>2 DEF RingInv
      <4> QED
        BY <1>c, <3>2, <4>1
    <3> QED
      BY <3>1, <3>2
  <2>4. \A q \in Proc : pc'[q] = "publish" => bdisk[cur[q]] /\ req[head[q]].status = "ff"
    BY <1>inv, <1>c DEF RingInv
  <2>5. ASSUME NEW q \in Proc, pc'[q] \in InIO
        PROVE  /\ req[head[q]].status = "ff" <=> head[q] \in Elems(avail') \cup inflight
               /\ bdisk[cur[q]] <=> head[q] \in Elems(avail') \cup inflight \cup Elems(used)
    <3>1. CASE q = p
      BY <1>b, <1>e, <3>1
    <3>2. CASE q # p
      <4>1. pc[q] \in InIO /\ head[q] # head[p]
        BY <1>c, <1>i, <2>5, <3>2
      <4>2. /\ req[head[q]].status = "ff" <=> head[q] \in Elems(avail) \cup inflight
            /\ bdisk[cur[q]] <=> head[q] \in Elems(avail) \cup inflight \cup Elems(used)
        BY <1>inv, <4>1 DEF RingInv
      <4> QED
        BY <1>e, <4>1, <4>2
    <3> QED
      BY <3>1, <3>2
  <2>6. \A b \in Buf : bdisk[b] => \E q \in Proc : cur[q] = b /\ pc'[q] \in Requesting
    <3>1. \A b \in Buf : bdisk[b] => \E q \in Proc : cur[q] = b /\ pc[q] \in Requesting
      BY <1>inv DEF RingInv
    <3> QED
      BY <1>2, <3>1 DEF Keeps
  <2> QED
    BY <1>u, <2>1, <2>2, <2>3, <2>4, <2>5, <2>6 DEF RingInv
<1> QED
  BY <1>1, <1>3, <1>4, <1>5 DEF IInv

(* The device takes a request from the avail ring. *)
LEMMA DevFetchStep ==
  ASSUME IInv, DevFetch, UNCHANGED <<cache, ghost>>
  PROVE  IInv'
<1>inv. TypeInv /\ RingInv
  BY DEF IInv
<1>t. avail \in Seq(Desc) /\ avail # <<>> /\ inflight \subseteq Desc
  BY <1>inv DEF TypeInv, DevFetch
<1>r. /\ Distinct(avail) /\ Distinct(used)
      /\ Elems(avail) \cap inflight = {} /\ Elems(avail) \cap Elems(used) = {}
      /\ inflight \cap Elems(used) = {}
  BY <1>inv DEF RingInv
<1>h. /\ Head(avail) \in Elems(avail) /\ Head(avail) \in Desc /\ Tail(avail) \in Seq(Desc)
      /\ Distinct(Tail(avail)) /\ Elems(Tail(avail)) = Elems(avail) \ {Head(avail)}
  BY <1>t, <1>r, Tailed, SMTT(30)
<1>c. avail' = Tail(avail) /\ inflight' = inflight \cup {Head(avail)}
  BY DEF DevFetch
<1>e. /\ avail' \in Seq(Desc) /\ Distinct(avail') /\ Elems(avail') = Elems(avail) \ {Head(avail)}
      /\ inflight' = inflight \cup {Head(avail)}
  BY <1>h, <1>c
<1>u. UNCHANGED <<free, req, bdisk, head, used, platter, data, pc, cur, wr, lru,
                  blockno, valid, refcnt, owner, pinned, dirty, mods, last>>
  BY DEF DevFetch, driver, cache, ghost
<1>1. TypeInv'
  <2>1. inflight' \subseteq Desc
    BY <1>t, <1>h, <1>e
  <2> QED
    BY <1>inv, <1>u, <1>e, <2>1 DEF TypeInv
<1>2. (\A S : Keeps(S)) /\ (\A S : KeepsBuffer(S))
  BY <1>u DEF Keeps, KeepsBuffer
<1>3. CacheInv' /\ RefcntExact' /\ OwnerInv' /\ DirtyInv' /\ ValidInv'
  BY <1>2, <1>u, CacheFrame, RefcntFrame, OwnerFrame, DirtyFrame, ValidFrame
     DEF IInv, CacheSame, RefcntSame, OwnerSame, DirtySame, ValidSame
<1>4. RequestInv' /\ DoneInv' /\ DescInv'
  BY <1>2, <1>u, RequestFrame, DoneFrame, DescFrame
     DEF IInv, RequestSame, DoneSame, DescSame
<1>5. RingInv'
  <2>1. UNCHANGED <<Elems(used), Distinct(used)>>
    BY <1>u
  <2>2. Elems(avail') \cap inflight' = {} /\ Elems(avail') \cap Elems(used) = {}
    BY <1>r, <1>e
  <2>3. inflight' \cap Elems(used) = {}
    BY <1>r, <1>e, <1>h
  <2>4. Elems(avail') \cup inflight' = Elems(avail) \cup inflight
    BY <1>e, <1>h
  <2>5. Elems(avail') \cup inflight' \cup Elems(used) = Elems(avail) \cup inflight \cup Elems(used)
    BY <2>4
  <2> QED
    BY <1>inv, <1>r, <1>e, <1>u, <2>1, <2>2, <2>3, <2>4, <2>5 DEF RingInv
<1> QED
  BY <1>1, <1>3, <1>4, <1>5 DEF IInv

(* The handler gives the buffer of a finished request back and wakes its     *)
(* process.                                                                  *)
LEMMA IntrEntryStep ==
  ASSUME IInv, IntrEntry, UNCHANGED <<cache, ghost>>
  PROVE  IInv'
<1>inv. TypeInv /\ CacheInv /\ RequestInv /\ RingInv
  BY DEF IInv
<1> DEFINE h == Head(used)
           b == req[h].b
<1>t. used \in Seq(Desc) /\ used # <<>> /\ pc \in [Proc -> Labels] /\ bdisk \in [Buf -> BOOLEAN]
  BY <1>inv DEF TypeInv, IntrEntry
<1>r. /\ Distinct(avail) /\ Distinct(used)
      /\ Elems(avail) \cap inflight = {} /\ Elems(avail) \cap Elems(used) = {}
      /\ inflight \cap Elems(used) = {}
  BY <1>inv DEF RingInv
<1>h. /\ Head(used) \in Elems(used) /\ Tail(used) \in Seq(Desc)
      /\ Distinct(Tail(used)) /\ Elems(Tail(used)) = Elems(used) \ {Head(used)}
  BY <1>t, <1>r, Tailed, SMTT(30)
<1>c. /\ used' = Tail(used) /\ bdisk' = [bdisk EXCEPT ![b] = FALSE]
      /\ pc' = [q \in Proc |-> IF cur[q] = b /\ pc[q] = "iosleep" THEN "iowoken" ELSE pc[q]]
  BY DEF IntrEntry, Woken
<1>u. UNCHANGED <<free, req, head, avail, inflight, platter, data, cur, wr, lru,
                  blockno, valid, refcnt, owner, pinned, dirty, mods, last>>
  BY DEF IntrEntry, cache, ghost
<1>p. PICK p \in Proc : head[p] = h /\ pc[p] \in InIO
  BY <1>inv, <1>h DEF RingInv
<1>e. used' \in Seq(Desc) /\ Distinct(used') /\ Elems(used') = Elems(used) \ {h} /\ h \in Elems(used)
  BY <1>h, <1>c
<1>b. b = cur[p] /\ b \in Buf
  <2>1. pc[p] \in Requesting /\ pc[p] # "user"
    BY <1>p DEF Requesting, InIO
  <2>2. req[head[p]].b = cur[p]
    BY <1>inv, <2>1 DEF RequestInv
  <2>3. cur[p] \in Buf
    BY <2>1, Buffers
  <2> QED
    BY <1>p, <2>2, <2>3
<1> HIDE DEF b, h
<1>d. /\ bdisk'[b] = FALSE /\ \A c \in Buf \ {b} : bdisk'[c] = bdisk[c]
      /\ \A q \in Proc : pc'[q] = pc[q] \/ (pc[q] = "iosleep" /\ pc'[q] = "iowoken")
  BY <1>t, <1>c, <1>b
<1>1. TypeInv'
  <2>1. pc' \in [Proc -> Labels] /\ bdisk' \in [Buf -> BOOLEAN]
    BY <1>t, <1>c DEF Labels, Holding, Driver
  <2> QED
    BY <1>inv, <1>u, <1>e, <2>1 DEF TypeInv
<1>2. /\ Keeps({"user"}) /\ Keeps({"held"}) /\ Keeps({"rwdone"}) /\ Keeps({"publish"}) /\ Keeps(InIO)
      /\ Keeps(Requesting) /\ Keeps(Holding) /\ Keeps(Driver) /\ (\A S : KeepsBuffer(S))
      /\ \A q \in Proc : pc'[q] = "descsleep" => pc[q] = "descsleep"
  BY <1>d, <1>u DEF Keeps, KeepsBuffer, InIO, Requesting, Holding, Driver
<1>3. CacheInv' /\ RefcntExact' /\ OwnerInv' /\ DirtyInv' /\ ValidInv'
  BY <1>2, <1>u, CacheFrame, RefcntFrame, OwnerFrame, DirtyFrame, ValidFrame
     DEF IInv, CacheSame, RefcntSame, OwnerSame, DirtySame, ValidSame
<1>4. RequestInv' /\ DoneInv' /\ DescInv'
  BY <1>2, <1>u, RequestFrame, DoneFrame, DescFrame
     DEF IInv, RequestSame, DoneSame, DescSame, Keeps
<1>5. RingInv'
  <2>1. UNCHANGED <<Elems(avail), Distinct(avail)>>
    BY <1>u
  <2>2. Elems(avail) \cap Elems(used') = {} /\ inflight \cap Elems(used') = {}
    BY <1>r, <1>e
  <2>3. \A g \in Elems(avail) \cup inflight \cup Elems(used') :
          \E q \in Proc : head[q] = g /\ pc'[q] \in InIO
    <3>1. \A g \in Elems(avail) \cup inflight \cup Elems(used) :
            \E q \in Proc : head[q] = g /\ pc[q] \in InIO
      BY <1>inv DEF RingInv
    <3>2. \A q \in Proc : pc[q] \in InIO => pc'[q] \in InIO
      BY <1>2 DEF Keeps
    <3> QED
      BY <1>e, <3>1, <3>2
  <2>4. \A q \in Proc : pc[q] \in Requesting /\ q # p => cur[q] \in Buf \ {b} /\ head[q] # h
    <3>1. pc[p] \in Holding /\ pc[p] \in Requesting
      BY <1>p DEF InIO, Holding, Driver, Requesting
    <3>2. \A q \in Proc : pc[q] \in Requesting => pc[q] \in Holding
      BY DEF InIO, Holding, Driver, Requesting
    <3>3. \A q \in Proc : pc[q] \in Requesting /\ q # p => cur[q] \in Buf \ {b}
      BY <1>b, <3>1, <3>2, Buffers
    <3>4. \A q \in Proc : pc[q] \in Requesting /\ q # p => head[q] # h
      BY <1>inv, <1>p, <3>1 DEF RequestInv
    <3> QED
      BY <3>3, <3>4
  <2>5. \A q \in Proc : pc'[q] = "publish" => bdisk'[cur[q]] /\ req[head[q]].status = "ff"
    <3> SUFFICES ASSUME NEW q \in Proc, pc'[q] = "publish"
                 PROVE  bdisk'[cur[q]] /\ req[head[q]].status = "ff"
      OBVIOUS
    <3>1. pc[q] = "publish" /\ pc[q] \in Requesting /\ q # p
      BY <1>d, <1>p DEF InIO, Requesting
    <3>2. bdisk[cur[q]] /\ req[head[q]].status = "ff"
      BY <1>inv, <3>1 DEF RingInv
    <3> QED
      BY <1>d, <2>4, <3>1, <3>2
  <2>6. ASSUME NEW q \in Proc, pc'[q] \in InIO
        PROVE  /\ req[head[q]].status = "ff" <=> head[q] \in Elems(avail) \cup inflight
               /\ bdisk'[cur[q]] <=> head[q] \in Elems(avail) \cup inflight \cup Elems(used')
    <3>1. pc[q] \in InIO /\ pc[q] \in Requesting
      BY <1>2, <2>6 DEF Keeps, Requesting
    <3>2. /\ req[head[q]].status = "ff" <=> head[q] \in Elems(avail) \cup inflight
          /\ bdisk[cur[q]] <=> head[q] \in Elems(avail) \cup inflight \cup Elems(used)
      BY <1>inv, <3>1 DEF RingInv
    <3>3. CASE q = p
      <4>1. ~ bdisk'[cur[q]]
        BY <1>b, <1>d, <3>3
      <4>2. h \notin Elems(avail) \cup inflight \cup Elems(used')
        BY <1>e, <1>r
      <4> QED
        BY <1>p, <3>2, <3>3, <4>1, <4>2
    <3>4. CASE q # p
      <4>1. bdisk'[cur[q]] = bdisk[cur[q]] /\ head[q] # h
        BY <1>d, <2>4, <3>1, <3>4
      <4> QED
        BY <1>e, <3>2, <4>1
    <3> QED
      BY <3>3, <3>4
  <2>7. \A c \in Buf : bdisk'[c] => \E q \in Proc : cur[q] = c /\ pc'[q] \in Requesting
    <3>1. \A c \in Buf : bdisk[c] => \E q \in Proc : cur[q] = c /\ pc[q] \in Requesting
      BY <1>inv DEF RingInv
    <3>2. \A c \in Buf : bdisk'[c] => bdisk[c]
      BY <1>d
    <3> QED
      BY <1>2, <3>1, <3>2 DEF Keeps
  <2> QED
    BY <1>r, <1>e, <1>u, <2>1, <2>2, <2>3, <2>5, <2>6, <2>7 DEF RingInv
<1> QED
  BY <1>1, <1>3, <1>4, <1>5 DEF IInv

(* alloc3_desc() takes three free descriptors. *)
LEMMA Allocated ==
  ASSUME IInv, Cardinality(free) >= 3
  PROVE  LET i0 == Min(free)
             i1 == Min(free \ {i0})
             i2 == Min(free \ {i0, i1})
         IN  i0 \in free /\ i1 \in free /\ i2 \in free
<1> DEFINE i0 == Min(free)
           i1 == Min(free \ {i0})
           i2 == Min(free \ {i0, i1})
<1>1. free \subseteq Nat /\ IsFiniteSet(free)
  <2>1. Desc \subseteq Nat /\ IsFiniteSet(Desc)
    BY VirtioAssumption, FS_Interval, SMTT(30) DEF Desc
  <2>2. free \in SUBSET Desc
    BY DEF IInv, TypeInv
  <2> QED
    BY <2>1, <2>2, FS_Subset
<1>2. Cardinality(free) \in Nat
  BY <1>1, FS_CardinalityType
<1>3. free # {}
  BY <1>2, FS_EmptySet, SMTT(30)
<1>4. i0 \in free
  BY <1>1, <1>3, MinIn
<1> HIDE DEF i0
<1>5. IsFiniteSet(free \ {i0}) /\ Cardinality(free \ {i0}) = Cardinality(free) - 1
  BY <1>1, <1>4, FS_RemoveElement
<1>6. free \ {i0} # {}
  BY <1>2, <1>5, FS_EmptySet, SMTT(30)
<1>7. i1 \in free \ {i0}
  <2>1. free \ {i0} \in SUBSET Nat
    BY <1>1
  <2> QED
    BY <1>6, <2>1, MinIn
<1> HIDE DEF i1
<1>8. free \ {i0, i1} = (free \ {i0}) \ {i1}
  OBVIOUS
<1>9. Cardinality(free \ {i0, i1}) = Cardinality(free) - 1 - 1
  BY <1>5, <1>7, <1>8, FS_RemoveElement
<1>10. free \ {i0, i1} # {}
  BY <1>2, <1>9, FS_EmptySet, SMTT(30)
<1>11. i2 \in free \ {i0, i1}
  <2>1. free \ {i0, i1} \in SUBSET Nat
    BY <1>1
  <2> QED
    BY <1>10, <2>1, MinIn
<1> QED
  BY <1>4, <1>7, <1>11 DEF i0, i1

(* virtio_disk_rw() makes a request of three descriptors that were free. *)
LEMMA RwStartStep ==
  ASSUME IInv, NEW p \in Proc, RwStart(p, blockno[cur[p]]), UNCHANGED <<cache, ghost>>
  PROVE  IInv'
<1>inv. TypeInv /\ CacheInv /\ RequestInv /\ RingInv /\ DoneInv /\ DescInv
  BY DEF IInv
<1>t. /\ free \subseteq Desc /\ req \in [Desc -> Request \cup {Nil}] /\ head \in [Proc -> Desc \cup {Nil}]
      /\ bdisk \in [Buf -> BOOLEAN] /\ pc \in [Proc -> Labels] /\ wr \in [Proc -> BOOLEAN]
  BY <1>inv DEF TypeInv
<1> DEFINE i == Min(free)
           ch == {i, Min(free \ {i}), Min(free \ {i, Min(free \ {i})})}
           r == [chain |-> ch, write |-> wr[p], blockno |-> blockno[cur[p]], b |-> cur[p],
                 status |-> "ff"]
<1>a. /\ pc[p] = "rw" /\ Cardinality(free) >= 3
      /\ free' = free \ ch /\ req' = [req EXCEPT ![i] = r] /\ head' = [head EXCEPT ![p] = i]
      /\ bdisk' = [bdisk EXCEPT ![cur[p]] = TRUE] /\ pc' = [pc EXCEPT ![p] = "publish"]
  BY DEF RwStart
<1>u. UNCHANGED <<avail, used, inflight, platter, data, cur, wr, lru, blockno, valid, refcnt,
                  owner, pinned, dirty, mods, last>>
  BY DEF RwStart, device, cache, ghost
<1>b. cur[p] \in Buf /\ blockno[cur[p]] \in Block
  BY <1>a, Buffers
<1>m. i \in ch /\ ch \subseteq free
  <2>1. i \in free /\ Min(free \ {i}) \in free /\ Min(free \ {i, Min(free \ {i})}) \in free
    BY <1>a, Allocated
  <2> QED
    BY <2>1
<1> HIDE DEF i, ch
<1>f. /\ r.chain = ch /\ r.write = wr[p] /\ r.blockno = blockno[cur[p]] /\ r.b = cur[p]
      /\ r.status = "ff"
  OBVIOUS
<1>g. r \in Request /\ r # Nil /\ i \in Desc
  <2>1. ch \in SUBSET Desc /\ wr[p] \in BOOLEAN
    BY <1>m, <1>t
  <2>2. r \in Request
    BY <1>b, <2>1 DEF Request
  <2> QED
    BY <1>m, <1>t, <2>2, RequestAssumption
<1> HIDE DEF r
<1>c. /\ pc'[p] = "publish" /\ head'[p] = i /\ bdisk'[cur[p]] = TRUE /\ req'[i] = r
      /\ \A q \in Proc \ {p} : pc'[q] = pc[q] /\ head'[q] = head[q]
      /\ \A b \in Buf \ {cur[p]} : bdisk'[b] = bdisk[b]
      /\ \A h \in Desc \ {i} : req'[h] = req[h]
  BY <1>t, <1>a, <1>b, <1>g
<1>i. req[i] = Nil /\ \A q \in Proc : head[q] # i
  <2>1. req[i] = Nil
    BY <1>inv, <1>m, <1>g DEF DescInv
  <2>2. ASSUME NEW q \in Proc, head[q] = i PROVE FALSE
    <3>1. i # Nil
      BY <1>g, VirtioAssumption, SMTT(30) DEF Desc
    <3>2. pc[q] \in Requesting
      BY <1>inv, <2>2, <3>1 DEF RequestInv
    <3>3. req[head[q]] # Nil
      BY <1>inv, <3>2 DEF RequestInv
    <3> QED
      BY <2>1, <2>2, <3>3
  <2> QED
    BY <2>1, <2>2
<1>n. Nil \notin Desc
  BY VirtioAssumption, SMTT(30) DEF Desc
<1>q. \A q \in Proc \ {p} : pc[q] \in Requesting =>
        head[q] \in Desc \ {i} /\ req'[head[q]] = req[head[q]] /\ cur[q] \in Buf \ {cur[p]}
  <2>1. pc[p] \in Holding
    BY <1>a DEF Holding, Driver
  <2> SUFFICES ASSUME NEW q \in Proc \ {p}, pc[q] \in Requesting
               PROVE  head[q] \in Desc \ {i} /\ req'[head[q]] = req[head[q]] /\ cur[q] \in Buf \ {cur[p]}
    OBVIOUS
  <2>2. pc[q] \in Holding /\ head[q] \in Desc
    BY Requests
  <2>3. cur[q] \in Buf \ {cur[p]}
    BY <2>1, <2>2, Buffers
  <2> QED
    BY <1>c, <1>i, <2>2, <2>3
<1>1. TypeInv'
  <2>1. /\ free' \subseteq Desc /\ req' \in [Desc -> Request \cup {Nil}] /\ pc' \in [Proc -> Labels]
        /\ head' \in [Proc -> Desc \cup {Nil}] /\ bdisk' \in [Buf -> BOOLEAN]
    BY <1>t, <1>a, <1>g DEF Labels, Holding, Driver
  <2> QED
    BY <1>inv, <1>u, <2>1 DEF TypeInv
<1>2. /\ Keeps({"user"}) /\ Keeps({"held"}) /\ Keeps(Holding) /\ Keeps(Driver)
      /\ \A S : KeepsBuffer(S)
  BY <1>a, <1>c, <1>u DEF Keeps, KeepsBuffer, Holding, Driver
<1>3. CacheInv' /\ RefcntExact' /\ OwnerInv' /\ DirtyInv' /\ ValidInv'
  BY <1>2, <1>u, CacheFrame, RefcntFrame, OwnerFrame, DirtyFrame, ValidFrame
     DEF IInv, CacheSame, RefcntSame, OwnerSame, DirtySame, ValidSame
<1>4. RequestInv'
  <2>1. ASSUME NEW q \in Proc
        PROVE  pc'[q] \in Requesting <=> head'[q] # Nil
    <3>1. CASE q = p
      BY <1>c, <1>g, <1>n, <3>1 DEF Requesting
    <3>2. CASE q # p
      <4>1. pc'[q] = pc[q] /\ head'[q] = head[q]
        BY <1>c, <3>2
      <4>2. pc[q] \in Requesting <=> head[q] # Nil
        BY <1>inv DEF RequestInv
      <4> QED
        BY <4>1, <4>2
    <3> QED
      BY <3>1, <3>2
  <2>2. ASSUME NEW q \in Proc, pc'[q] \in Requesting
        PROVE  /\ req'[head'[q]] # Nil /\ req'[head'[q]].b = cur[q]
               /\ req'[head'[q]].blockno = blockno[cur[q]] /\ req'[head'[q]].write = wr[q]
    <3>1. CASE q = p
      <4>1. req'[head'[q]] = r
        BY <1>c, <3>1
      <4> QED
        BY <1>f, <1>g, <3>1, <4>1
    <3>2. CASE q # p
      <4>1. pc[q] \in Requesting /\ head'[q] = head[q] /\ req'[head[q]] = req[head[q]]
        BY <1>c, <1>q, <2>2, <3>2
      <4>2. /\ req[head[q]] # Nil /\ req[head[q]].b = cur[q]
            /\ req[head[q]].blockno = blockno[cur[q]] /\ req[head[q]].write = wr[q]
        BY <1>inv, <4>1 DEF RequestInv
      <4> QED
        BY <4>1, <4>2
    <3> QED
      BY <3>1, <3>2
  <2>3. ASSUME NEW q \in Proc, NEW o \in Proc, head'[q] = head'[o], head'[q] # Nil PROVE q = o
    <3>1. CASE q = p \/ o = p
      BY <1>c, <1>i, <2>3, <3>1
    <3>2. CASE q # p /\ o # p
      <4>1. head'[q] = head[q] /\ head'[o] = head[o]
        BY <1>c, <3>2
      <4>2. head[q] = head[o] /\ head[q] # Nil
        BY <2>3, <4>1
      <4> QED
        BY <1>inv, <4>2 DEF RequestInv
    <3> QED
      BY <3>1, <3>2
  <2>4. ASSUME NEW h \in Desc, req'[h] # Nil PROVE \E q \in Proc : head'[q] = h
    <3>1. CASE h = i
      BY <1>c, <3>1
    <3>2. CASE h # i
      <4>1. req[h] # Nil
        BY <1>c, <2>4, <3>2
      <4>2. PICK q \in Proc : head[q] = h /\ pc[q] \in Requesting
        BY <4>1, Requests
      <4>3. q # p
        BY <1>a, <4>2 DEF Requesting, InIO
      <4> QED
        BY <1>c, <4>2, <4>3
    <3> QED
      BY <3>1, <3>2
  <2> QED
    BY <1>u, <2>1, <2>2, <2>3, <2>4 DEF RequestInv
<1>5. RingInv'
  <2>1. UNCHANGED <<Elems(avail), Distinct(avail), Elems(used), Distinct(used)>>
    BY <1>u
  <2>2. ASSUME NEW h \in Elems(avail) \cup inflight \cup Elems(used)
        PROVE  \E q \in Proc : head'[q] = h /\ pc'[q] \in InIO
    <3>1. PICK q \in Proc : head[q] = h /\ pc[q] \in InIO
      BY <1>inv DEF RingInv
    <3>2. q # p
      BY <1>a, <3>1 DEF InIO
    <3> QED
      BY <1>c, <3>1, <3>2
  <2>3. ASSUME NEW q \in Proc, pc'[q] = "publish"
        PROVE  bdisk'[cur[q]] /\ req'[head'[q]].status = "ff"
    <3>1. CASE q = p
      BY <1>c, <1>f, <3>1
    <3>2. CASE q # p
      <4>1. pc[q] = "publish" /\ pc[q] \in Requesting
        BY <1>c, <2>3, <3>2 DEF Requesting
      <4>2. bdisk[cur[q]] /\ req[head[q]].status = "ff"
        BY <1>inv, <4>1 DEF RingInv
      <4>3. req'[head'[q]] = req[head[q]] /\ bdisk'[cur[q]] = bdisk[cur[q]]
        BY <1>c, <1>q, <3>2, <4>1
      <4> QED
        BY <4>2, <4>3
    <3> QED
      BY <3>1, <3>2
  <2>4. ASSUME NEW q \in Proc, pc'[q] \in InIO
        PROVE  /\ req'[head'[q]].status = "ff" <=> head'[q] \in Elems(avail) \cup inflight
               /\ bdisk'[cur[q]] <=> head'[q] \in Elems(avail) \cup inflight \cup Elems(used)
    <3>1. q # p /\ pc[q] \in InIO /\ pc[q] \in Requesting
      BY <1>c, <2>4 DEF InIO, Requesting
    <3>2. req'[head'[q]] = req[head[q]] /\ head'[q] = head[q] /\ bdisk'[cur[q]] = bdisk[cur[q]]
      BY <1>c, <1>q, <3>1
    <3>3. /\ req[head[q]].status = "ff" <=> head[q] \in Elems(avail) \cup inflight
          /\ bdisk[cur[q]] <=> head[q] \in Elems(avail) \cup inflight \cup Elems(used)
      BY <1>inv, <3>1 DEF RingInv
    <3> QED
      BY <3>2, <3>3
  <2>5. ASSUME NEW b \in Buf, bdisk'[b] PROVE \E q \in Proc : cur[q] = b /\ pc'[q] \in Requesting
    <3>1. CASE b = cur[p]
      BY <1>c, <3>1 DEF Requesting
    <3>2. CASE b # cur[p]
      <4>1. bdisk[b]
        BY <1>c, <2>5, <3>2
      <4>2. PICK q \in Proc : cur[q] = b /\ pc[q] \in Requesting
        BY <1>inv, <4>1 DEF RingInv
      <4> QED
        BY <1>c, <3>2, <4>2
    <3> QED
      BY <3>1, <3>2
  <2> QED
    BY <1>inv, <1>u, <2>1, <2>2, <2>3, <2>4, <2>5 DEF RingInv
<1>6. DoneInv'
  <2> SUFFICES ASSUME NEW q \in Proc,
                      pc'[q] = "rwdone" \/ (pc'[q] \in Requesting /\ req'[head'[q]].status = "0")
               PROVE  Transferred(q)'
    BY DEF DoneInv
  <2>1. q # p
    BY <1>c, <1>f
  <2>2. pc[q] = "rwdone" \/ (pc[q] \in Requesting /\ req[head[q]].status = "0")
    <3>1. pc'[q] = pc[q] /\ head'[q] = head[q]
      BY <1>c, <2>1
    <3>2. pc[q] \in Requesting => req'[head[q]] = req[head[q]]
      BY <1>q, <2>1
    <3> QED
      BY <3>1, <3>2
  <2>3. Transferred(q)
    BY <1>inv, <2>2 DEF DoneInv
  <2> QED
    BY <1>u, <2>3 DEF Transferred
<1>7. DescInv'
  <2>1. ASSUME NEW h \in Desc, req'[h] # Nil PROVE h \in req'[h].chain /\ req'[h].chain \cap free' = {}
    <3>1. CASE h = i
      BY <1>a, <1>c, <1>f, <1>m, <3>1
    <3>2. CASE h # i
      <4>1. req'[h] = req[h]
        BY <1>c, <3>2
      <4>2. h \in req[h].chain /\ req[h].chain \cap free = {}
        BY <1>inv, <2>1, <4>1 DEF DescInv
      <4> QED
        BY <1>a, <4>1, <4>2
    <3> QED
      BY <3>1, <3>2
  <2>2. ASSUME NEW h \in Desc \ {i}, req[h] # Nil PROVE req[h].chain \cap ch = {}
    <3>1. req[h].chain \cap free = {}
      BY <1>inv, <2>2 DEF DescInv
    <3> QED
      BY <1>m, <3>1
  <2>3. ASSUME NEW h \in Desc, NEW g \in Desc, req'[h] # Nil, req'[g] # Nil, h # g
        PROVE  req'[h].chain \cap req'[g].chain = {}
    <3>1. CASE h = i
      <4>1. req'[h].chain = ch /\ req'[g] = req[g] /\ req[g].chain \cap ch = {}
        BY <1>c, <1>f, <2>2, <2>3, <3>1
      <4> QED
        BY <4>1
    <3>2. CASE g = i
      <4>1. req'[g].chain = ch /\ req'[h] = req[h] /\ req[h].chain \cap ch = {}
        BY <1>c, <1>f, <2>2, <2>3, <3>2
      <4> QED
        BY <4>1
    <3>3. CASE h # i /\ g # i
      <4>1. req'[h] = req[h] /\ req'[g] = req[g]
        BY <1>c, <3>3
      <4> QED
        BY <1>inv, <2>3, <4>1 DEF DescInv
    <3> QED
      BY <3>1, <3>2, <3>3
  <2>4. ASSUME NEW d \in Desc \ free' PROVE \E h \in Desc : req'[h] # Nil /\ d \in req'[h].chain
    <3>1. CASE d \in ch
      BY <1>c, <1>f, <1>g, <3>1
    <3>2. CASE d \notin ch
      <4>1. d \in Desc \ free
        BY <1>a, <3>2
      <4>2. PICK h \in Desc : req[h] # Nil /\ d \in req[h].chain
        BY <1>inv, <4>1 DEF DescInv
      <4> QED
        BY <1>c, <1>i, <4>2
    <3> QED
      BY <3>1, <3>2
  <2>5. \A q \in Proc : pc'[q] # "descsleep"
    <3>1. \A q \in Proc : pc[q] = "descsleep" => Cardinality(free) < 3
      BY <1>inv DEF DescInv
    <3>2. ~ (Cardinality(free) < 3)
      <4>1. Cardinality(free) \in Nat
        <5>1. IsFiniteSet(Desc)
          BY VirtioAssumption, FS_Interval, SMTT(30) DEF Desc
        <5> QED
          BY <1>t, <5>1, FS_Subset, FS_CardinalityType
      <4> QED
        BY <1>a, <4>1, SMTT(30)
    <3> QED
      BY <1>c, <3>1, <3>2
  <2> QED
    BY <2>1, <2>3, <2>4, <2>5 DEF DescInv
<1> QED
  BY <1>1, <1>3, <1>4, <1>5, <1>6, <1>7 DEF IInv

(* The request is done: its descriptors are free again, and everybody who    *)
(* waits for some is woken.                                                  *)
LEMMA RwFinishStep ==
  ASSUME IInv, NEW p \in Proc, RwFinish(p), UNCHANGED <<cache, ghost>>
  PROVE  IInv'
<1>inv. TypeInv /\ CacheInv /\ RequestInv /\ RingInv /\ DoneInv /\ DescInv
  BY DEF IInv
<1>t. /\ free \subseteq Desc /\ req \in [Desc -> Request \cup {Nil}] /\ head \in [Proc -> Desc \cup {Nil}]
      /\ pc \in [Proc -> Labels]
  BY <1>inv DEF TypeInv
<1> DEFINE i == head[p]
           ch == req[i].chain
<1>a. /\ pc[p] = "iowoken" /\ ~ bdisk[cur[p]]
      /\ free' = free \cup ch /\ req' = [req EXCEPT ![i] = Nil] /\ head' = [head EXCEPT ![p] = Nil]
      /\ pc' = [q \in Proc |-> IF q = p THEN "rwdone" ELSE IF pc[q] = "descsleep" THEN "rw" ELSE pc[q]]
  BY DEF RwFinish, Woken, Chain
<1>u. UNCHANGED <<bdisk, avail, used, inflight, platter, data, cur, wr, lru, blockno, valid, refcnt,
                  owner, pinned, dirty, mods, last>>
  BY DEF RwFinish, device, cache, ghost
<1>b. pc[p] \in InIO /\ pc[p] \in Requesting /\ pc[p] \in Holding
  BY <1>a DEF InIO, Requesting, Holding, Driver
<1>g. i \in Desc /\ req[i] \in Request /\ req[i] # Nil /\ i # Nil
  <2>1. i \in Desc /\ req[i] \in Request
    BY <1>b, Requests
  <2>2. i # Nil
    BY <2>1, VirtioAssumption, SMTT(30) DEF Desc
  <2> QED
    BY <2>1, <2>2, RequestAssumption
<1>f. ch \subseteq Desc
  BY <1>g DEF Request
<1>h. i = head[p] /\ ch = req[i].chain
  OBVIOUS
<1> HIDE DEF i, ch
<1>c. /\ pc'[p] = "rwdone" /\ head'[p] = Nil /\ req'[i] = Nil
      /\ \A q \in Proc \ {p} : head'[q] = head[q]
      /\ \A q \in Proc \ {p} : pc'[q] = pc[q] \/ (pc[q] = "descsleep" /\ pc'[q] = "rw")
      /\ \A q \in Proc : pc'[q] # "descsleep"
      /\ \A h \in Desc \ {i} : req'[h] = req[h]
  BY <1>t, <1>a, <1>g
<1>n. i \notin Elems(avail) \cup inflight \cup Elems(used)
  BY <1>inv, <1>a, <1>b, <1>h DEF RingInv
<1>s. req[i].status = "0"
  <2>1. req[i].status # "ff"
    BY <1>inv, <1>b, <1>h, <1>n DEF RingInv
  <2> QED
    BY <1>g, <2>1 DEF Request
<1>i. \A q \in Proc \ {p} : head[q] # i
  BY <1>inv, <1>g, <1>h DEF RequestInv
<1>q. \A q \in Proc \ {p} : pc'[q] \in Requesting \/ pc[q] \in Requesting =>
        /\ pc'[q] = pc[q] /\ head'[q] = head[q] /\ head[q] \in Desc \ {i}
        /\ req'[head[q]] = req[head[q]]
  <2> SUFFICES ASSUME NEW q \in Proc \ {p}, pc'[q] \in Requesting \/ pc[q] \in Requesting
               PROVE  /\ pc'[q] = pc[q] /\ head'[q] = head[q] /\ head[q] \in Desc \ {i}
                      /\ req'[head[q]] = req[head[q]]
    OBVIOUS
  <2>1. pc'[q] = pc[q]
    BY <1>c DEF Requesting, InIO
  <2>2. head[q] \in Desc \ {i}
    BY <1>i, <2>1, Requests
  <2> QED
    BY <1>c, <2>1, <2>2
<1>1. TypeInv'
  <2>1. /\ free' \subseteq Desc /\ req' \in [Desc -> Request \cup {Nil}] /\ pc' \in [Proc -> Labels]
        /\ head' \in [Proc -> Desc \cup {Nil}]
    BY <1>t, <1>a, <1>f, <1>g DEF Labels, Holding, Driver
  <2> QED
    BY <1>inv, <1>u, <2>1 DEF TypeInv
<1>2. /\ Keeps({"user"}) /\ Keeps({"held"}) /\ Keeps({"publish"}) /\ Keeps(Holding) /\ Keeps(Driver)
      /\ \A S : KeepsBuffer(S)
  BY <1>a, <1>c, <1>u DEF Keeps, KeepsBuffer, Holding, Driver
<1>3. CacheInv' /\ RefcntExact' /\ OwnerInv' /\ DirtyInv' /\ ValidInv'
  BY <1>2, <1>u, CacheFrame, RefcntFrame, OwnerFrame, DirtyFrame, ValidFrame
     DEF IInv, CacheSame, RefcntSame, OwnerSame, DirtySame, ValidSame
<1>4. RequestInv'
  <2>1. ASSUME NEW q \in Proc
        PROVE  pc'[q] \in Requesting <=> head'[q] # Nil
    <3>1. CASE q = p
      BY <1>c, <3>1 DEF Requesting, InIO
    <3>2. CASE q # p
      <4>1. head'[q] = head[q] /\ (pc'[q] \in Requesting <=> pc[q] \in Requesting)
        BY <1>c, <1>q, <3>2
      <4>2. pc[q] \in Requesting <=> head[q] # Nil
        BY <1>inv DEF RequestInv
      <4> QED
        BY <4>1, <4>2
    <3> QED
      BY <3>1, <3>2
  <2>2. ASSUME NEW q \in Proc, pc'[q] \in Requesting
        PROVE  /\ req'[head'[q]] # Nil /\ req'[head'[q]].b = cur[q]
               /\ req'[head'[q]].blockno = blockno[cur[q]] /\ req'[head'[q]].write = wr[q]
    <3>1. q # p
      BY <1>c, <2>2 DEF Requesting, InIO
    <3>2. pc[q] \in Requesting /\ head'[q] = head[q] /\ req'[head[q]] = req[head[q]]
      BY <1>q, <2>2, <3>1
    <3>3. /\ req[head[q]] # Nil /\ req[head[q]].b = cur[q]
          /\ req[head[q]].blockno = blockno[cur[q]] /\ req[head[q]].write = wr[q]
      BY <1>inv, <3>2 DEF RequestInv
    <3> QED
      BY <3>2, <3>3
  <2>3. ASSUME NEW q \in Proc, NEW o \in Proc, head'[q] = head'[o], head'[q] # Nil PROVE q = o
    <3>1. q # p /\ o # p
      BY <1>c, <2>3
    <3>2. head[q] = head[o] /\ head[q] # Nil
      BY <1>c, <2>3, <3>1
    <3> QED
      BY <1>inv, <3>2 DEF RequestInv
  <2>4. ASSUME NEW h \in Desc, req'[h] # Nil PROVE \E q \in Proc : head'[q] = h
    <3>1. h # i
      BY <1>c, <2>4
    <3>2. req[h] # Nil
      BY <1>c, <2>4, <3>1
    <3>3. PICK q \in Proc : head[q] = h /\ pc[q] \in Requesting
      BY <3>2, Requests
    <3> QED
      BY <1>c, <1>h, <3>1, <3>3
  <2> QED
    BY <1>u, <2>1, <2>2, <2>3, <2>4 DEF RequestInv
<1>5. RingInv'
  <2>1. UNCHANGED <<Elems(avail), Distinct(avail), Elems(used), Distinct(used)>>
    BY <1>u
  <2>2. ASSUME NEW h \in Elems(avail) \cup inflight \cup Elems(used)
        PROVE  \E q \in Proc : head'[q] = h /\ pc'[q] \in InIO
    <3>1. PICK q \in Proc : head[q] = h /\ pc[q] \in InIO
      BY <1>inv DEF RingInv
    <3>2. q # p /\ pc[q] \in Requesting
      BY <1>h, <1>n, <3>1 DEF Requesting
    <3> QED
      BY <1>q, <3>1, <3>2
  <2>3. ASSUME NEW q \in Proc, pc'[q] = "publish"
        PROVE  bdisk[cur[q]] /\ req'[head'[q]].status = "ff"
    <3>1. q # p /\ pc'[q] \in Requesting
      BY <1>c, <2>3 DEF Requesting
    <3>2. pc[q] = "publish" /\ req'[head'[q]] = req[head[q]]
      BY <1>q, <2>3, <3>1
    <3> QED
      BY <1>inv, <3>2 DEF RingInv
  <2>4. ASSUME NEW q \in Proc, pc'[q] \in InIO
        PROVE  /\ req'[head'[q]].status = "ff" <=> head'[q] \in Elems(avail) \cup inflight
               /\ bdisk[cur[q]] <=> head'[q] \in Elems(avail) \cup inflight \cup Elems(used)
    <3>1. q # p /\ pc'[q] \in Requesting
      BY <1>c, <2>4 DEF InIO, Requesting
    <3>2. req'[head'[q]] = req[head[q]] /\ head'[q] = head[q] /\ pc[q] \in InIO
      BY <1>q, <2>4, <3>1
    <3>3. /\ req[head[q]].status = "ff" <=> head[q] \in Elems(avail) \cup inflight
          /\ bdisk[cur[q]] <=> head[q] \in Elems(avail) \cup inflight \cup Elems(used)
      BY <1>inv, <3>2 DEF RingInv
    <3> QED
      BY <3>2, <3>3
  <2>5. ASSUME NEW b \in Buf, bdisk[b] PROVE \E q \in Proc : cur[q] = b /\ pc'[q] \in Requesting
    <3>1. PICK q \in Proc : cur[q] = b /\ pc[q] \in Requesting
      BY <1>inv, <2>5 DEF RingInv
    <3>2. q # p
      BY <1>a, <2>5, <3>1
    <3> QED
      BY <1>q, <3>1, <3>2
  <2> QED
    BY <1>inv, <1>u, <2>1, <2>2, <2>3, <2>4, <2>5 DEF RingInv
<1>6. DoneInv'
  <2> SUFFICES ASSUME NEW q \in Proc,
                      pc'[q] = "rwdone" \/ (pc'[q] \in Requesting /\ req'[head'[q]].status = "0")
               PROVE  Transferred(q)'
    BY DEF DoneInv
  <2>1. pc[q] = "rwdone" \/ (pc[q] \in Requesting /\ req[head[q]].status = "0")
    <3>1. CASE q = p
      BY <1>b, <1>h, <1>s, <3>1
    <3>2. CASE q # p /\ pc'[q] = "rwdone"
      BY <1>c, <3>2
    <3>3. CASE q # p /\ pc'[q] # "rwdone"
      BY <1>q, <3>3
    <3> QED
      BY <3>1, <3>2, <3>3
  <2>2. Transferred(q)
    BY <1>inv, <2>1 DEF DoneInv
  <2> QED
    BY <1>u, <2>2 DEF Transferred
<1>7. DescInv'
  <2>1. ASSUME NEW h \in Desc, req'[h] # Nil
        PROVE  /\ h # i /\ req'[h] = req[h] /\ h \in req[h].chain
               /\ req[h].chain \cap free = {} /\ req[h].chain \cap ch = {}
    <3>1. h # i /\ req'[h] = req[h]
      BY <1>c, <2>1
    <3>2. h \in req[h].chain /\ req[h].chain \cap free = {}
      BY <1>inv, <2>1, <3>1 DEF DescInv
    <3>3. req[h].chain \cap ch = {}
      BY <1>inv, <1>g, <1>h, <2>1, <3>1 DEF DescInv
    <3> QED
      BY <3>1, <3>2, <3>3
  <2>2. ASSUME NEW h \in Desc, req'[h] # Nil PROVE h \in req'[h].chain /\ req'[h].chain \cap free' = {}
    <3>1. req[h].chain \cap (free \cup ch) = {}
      BY <2>1, <2>2
    <3> QED
      BY <1>a, <2>1, <2>2, <3>1
  <2>3. ASSUME NEW h \in Desc, NEW g \in Desc, req'[h] # Nil, req'[g] # Nil, h # g
        PROVE  req'[h].chain \cap req'[g].chain = {}
    <3>1. req'[h] = req[h] /\ req'[g] = req[g]
      BY <2>1, <2>3
    <3> QED
      BY <1>inv, <2>3, <3>1 DEF DescInv
  <2>4. ASSUME NEW d \in Desc \ free' PROVE \E h \in Desc : req'[h] # Nil /\ d \in req'[h].chain
    <3>1. d \in Desc \ free /\ d \notin ch
      BY <1>a
    <3>2. PICK h \in Desc : req[h] # Nil /\ d \in req[h].chain
      BY <1>inv, <3>1 DEF DescInv
    <3>3. h # i
      BY <1>h, <3>1, <3>2
    <3> QED
      BY <1>c, <3>2, <3>3
  <2> QED
    BY <1>c, <2>2, <2>3, <2>4 DEF DescInv
<1> QED
  BY <1>1, <1>3, <1>4, <1>5, <1>6, <1>7 DEF IInv

(* The device finishes a request: a write of a dirty block, or a read of a   *)
(* block that is not dirty into a buffer that is not valid.                  *)
LEMMA DevFinishStep ==
  ASSUME IInv, NEW h \in inflight, DevFinish(h), UNCHANGED <<cache, ghost>>
  PROVE  IInv'
<1>inv. TypeInv /\ CacheInv /\ DirtyInv /\ ValidInv /\ RequestInv /\ RingInv /\ DoneInv /\ DescInv
  BY DEF IInv
<1>t. /\ req \in [Desc -> Request \cup {Nil}] /\ used \in Seq(Desc) /\ inflight \subseteq Desc
      /\ platter \in [Block -> Nat] /\ data \in [Buf -> Nat]
  BY <1>inv DEF TypeInv
<1>p. PICK p \in Proc : head[p] = h /\ pc[p] \in InIO
  BY <1>inv DEF RingInv
<1>l. pc[p] \in Requesting /\ pc[p] \in Holding /\ pc[p] \in Driver /\ pc[p] # "user"
  BY <1>p DEF InIO, Requesting, Holding, Driver
<1> DEFINE b == cur[p]
           blk == blockno[b]
           r == [req[h] EXCEPT !.status = "0"]
<1>b. b \in Buf /\ blk \in Block /\ h \in Desc
  BY <1>l, <1>t, Buffers
<1>r. /\ req[h] \in Request /\ req[h].b = b /\ req[h].blockno = blk /\ req[h].write = wr[p]
      /\ req[h].status = "ff" /\ req[h] # Nil
  <2>1. req[h] \in Request
    BY <1>p, <1>l, Requests
  <2>2. /\ req[h].b = b /\ req[h].blockno = blk /\ req[h].write = wr[p] /\ req[h] # Nil
    BY <1>inv, <1>p, <1>l DEF RequestInv
  <2>3. req[h].status = "ff"
    BY <1>inv, <1>p DEF RingInv
  <2> QED
    BY <2>1, <2>2, <2>3
<1>s. /\ r \in Request /\ r # Nil /\ r.status = "0" /\ r.chain = req[h].chain
      /\ r.b = req[h].b /\ r.blockno = req[h].blockno /\ r.write = req[h].write
  <2>1. /\ r \in Request /\ r.status = "0" /\ r.chain = req[h].chain
        /\ r.b = req[h].b /\ r.blockno = req[h].blockno /\ r.write = req[h].write
    BY <1>r DEF Request
  <2> QED
    BY <2>1, RequestAssumption
<1>a. /\ req' = [req EXCEPT ![h] = r] /\ used' = Append(used, h) /\ inflight' = inflight \ {h}
      /\ wr[p] => platter' = [platter EXCEPT ![blk] = data[b]] /\ data' = data
      /\ ~ wr[p] => data' = [data EXCEPT ![b] = platter[blk]] /\ platter' = platter
  BY <1>r DEF DevFinish
<1>u. UNCHANGED <<free, avail, bdisk, head, pc, cur, wr, lru, blockno, valid, refcnt,
                  owner, pinned, dirty, mods, last>>
  BY DEF DevFinish, cache, ghost
<1>x. b = cur[p] /\ blk = blockno[b]
  OBVIOUS
<1> HIDE DEF b, blk, r
<1>c. req'[h] = r /\ \A g \in Desc \ {h} : req'[g] = req[g]
  BY <1>t, <1>a, <1>b
<1>d. /\ wr[p] => platter'[blk] = data[b]
      /\ ~ wr[p] => data'[b] = platter[blk]
      /\ \A k \in Block \ {blk} : platter'[k] = platter[k]
      /\ \A e \in Buf \ {b} : data'[e] = data[e]
  BY <1>t, <1>a, <1>b
<1>e. wr[p] => platter' \in [Block -> Nat] /\ data' = data
  BY <1>t, <1>a, <1>b
<1>f. ~ wr[p] => data' \in [Buf -> Nat] /\ platter' = platter
  BY <1>t, <1>a, <1>b
<1>v. (wr[p] => blk \in dirty) /\ (~ wr[p] => ~ valid[b])
  BY <1>inv, <1>l, <1>x DEF ValidInv
<1>h. \A q \in Proc : q # p => head[q] # h
  <2>1. head[p] # Nil
    BY <1>inv, <1>l DEF RequestInv
  <2> QED
    BY <1>inv, <1>p, <2>1 DEF RequestInv
<1>o. \A q \in Proc : q # p /\ pc[q] \in Holding =>
        cur[q] \in Buf \ {b} /\ blockno[cur[q]] \in Block \ {blk}
  BY <1>l, <1>x, Buffers
<1>g. \A q \in Proc : pc[q] \in Requesting =>
        head[q] \in Desc /\ (q # p => req'[head[q]] = req[head[q]])
  BY <1>c, <1>h, Requests
<1>k. /\ Distinct(avail) /\ Distinct(used)
      /\ Elems(avail) \cap inflight = {} /\ Elems(avail) \cap Elems(used) = {}
      /\ inflight \cap Elems(used) = {}
  BY <1>inv DEF RingInv
<1>w. used' \in Seq(Desc) /\ Elems(used') = Elems(used) \cup {h} /\ Distinct(used')
  <2>1. h \notin Elems(used)
    BY <1>k
  <2>2. /\ Append(used, h) \in Seq(Desc) /\ Elems(Append(used, h)) = Elems(used) \cup {h}
        /\ Distinct(Append(used, h))
    BY <1>t, <1>b, <1>k, <2>1, Appended, SMTT(30)
  <2> QED
    BY <1>a, <2>2
<1>1. TypeInv'
  <2>1. req' \in [Desc -> Request \cup {Nil}] /\ inflight' \subseteq Desc
    BY <1>t, <1>a, <1>s
  <2>2. platter' \in [Block -> Nat] /\ data' \in [Buf -> Nat]
    BY <1>t, <1>e, <1>f
  <2> QED
    BY <1>inv, <1>u, <1>w, <2>1, <2>2 DEF TypeInv
<1>2. (\A S : Keeps(S)) /\ (\A S : KeepsBuffer(S))
  BY <1>u DEF Keeps, KeepsBuffer
<1>3. CacheInv' /\ RefcntExact' /\ OwnerInv' /\ DirtyInv'
  BY <1>2, <1>u, CacheFrame, RefcntFrame, OwnerFrame, DirtyFrame
     DEF IInv, CacheSame, RefcntSame, OwnerSame, DirtySame
<1>4. ValidInv'
  <2>1. ASSUME NEW e \in Buf, valid[e] PROVE blockno[e] # Nil /\ data'[e] = last[blockno[e]]
    <3>1. blockno[e] # Nil /\ data[e] = last[blockno[e]]
      BY <1>inv, <2>1 DEF ValidInv
    <3>2. data'[e] = data[e]
      BY <1>d, <1>e, <1>v, <2>1
    <3> QED
      BY <3>1, <3>2
  <2>2. ASSUME NEW k \in Block \ dirty PROVE platter'[k] = last[k]
    <3>1. platter'[k] = platter[k]
      BY <1>d, <1>f, <1>v
    <3> QED
      BY <1>inv, <3>1 DEF ValidInv
  <2> QED
    BY <1>inv, <1>u, <2>1, <2>2 DEF ValidInv
<1>5. RequestInv'
  <2>1. ASSUME NEW q \in Proc, pc[q] \in Requesting
        PROVE  /\ req'[head[q]] # Nil /\ req'[head[q]].b = cur[q]
               /\ req'[head[q]].blockno = blockno[cur[q]] /\ req'[head[q]].write = wr[q]
    <3>1. CASE q = p
      <4>1. req'[head[q]] = r
        BY <1>c, <1>p, <3>1
      <4> QED
        BY <1>r, <1>s, <1>x, <3>1, <4>1
    <3>2. CASE q # p
      <4>1. req'[head[q]] = req[head[q]]
        BY <1>g, <2>1, <3>2
      <4> QED
        BY <1>inv, <2>1, <4>1 DEF RequestInv
    <3> QED
      BY <3>1, <3>2
  <2>2. \A g \in Desc : req'[g] # Nil => \E q \in Proc : head[q] = g
    <3>1. \A g \in Desc : req[g] # Nil => \E q \in Proc : head[q] = g
      BY <1>inv DEF RequestInv
    <3> QED
      BY <1>c, <1>p, <3>1
  <2> QED
    BY <1>inv, <1>u, <2>1, <2>2 DEF RequestInv
<1>6. RingInv'
  <2>1. UNCHANGED <<Elems(avail), Distinct(avail)>>
    BY <1>u
  <2>2. Elems(avail) \cap inflight' = {} /\ inflight' \cap Elems(used') = {}
    BY <1>k, <1>a, <1>w
  <2>3. Elems(avail) \cap Elems(used') = {}
    BY <1>k, <1>w
  <2>4. Elems(avail) \cup inflight' \cup Elems(used') = Elems(avail) \cup inflight \cup Elems(used)
    BY <1>a, <1>w
  <2>5. \A q \in Proc : pc[q] = "publish" => bdisk[cur[q]] /\ req'[head[q]].status = "ff"
    <3> SUFFICES ASSUME NEW q \in Proc, pc[q] = "publish"
                 PROVE  bdisk[cur[q]] /\ req'[head[q]].status = "ff"
      OBVIOUS
    <3>1. q # p /\ pc[q] \in Requesting
      BY <1>p DEF InIO, Requesting
    <3>2. req'[head[q]] = req[head[q]]
      BY <1>g, <3>1
    <3> QED
      BY <1>inv, <3>2 DEF RingInv
  <2>6. ASSUME NEW q \in Proc, pc[q] \in InIO
        PROVE  req'[head[q]].status = "ff" <=> head[q] \in Elems(avail) \cup inflight'
    <3>1. req[head[q]].status = "ff" <=> head[q] \in Elems(avail) \cup inflight
      BY <1>inv, <2>6 DEF RingInv
    <3>2. CASE q = p
      <4>1. req'[head[q]].status = "0"
        BY <1>c, <1>p, <1>s, <3>2
      <4>2. h \notin Elems(avail) \cup inflight'
        BY <1>a, <1>k
      <4> QED
        BY <1>p, <3>2, <4>1, <4>2
    <3>3. CASE q # p
      <4>1. req'[head[q]] = req[head[q]] /\ head[q] # h
        BY <1>g, <1>h, <2>6, <3>3 DEF Requesting
      <4> QED
        BY <1>a, <3>1, <4>1
    <3> QED
      BY <3>2, <3>3
  <2> QED
    BY <1>inv, <1>k, <1>w, <1>u, <2>1, <2>2, <2>3, <2>4, <2>5, <2>6 DEF RingInv
<1>7. DoneInv'
  <2> SUFFICES ASSUME NEW q \in Proc,
                      pc[q] = "rwdone" \/ (pc[q] \in Requesting /\ req'[head[q]].status = "0")
               PROVE  Transferred(q)'
    BY <1>u DEF DoneInv
  <2>1. CASE q = p /\ wr[p]
    BY <1>d, <1>e, <1>u, <1>x, <2>1 DEF Transferred
  <2>2. CASE q = p /\ ~ wr[p]
    <3>1. blk \notin dirty
      <4> SUFFICES ASSUME blk \in dirty PROVE FALSE
        OBVIOUS
      <4>1. PICK e \in Buf : blockno[e] = blk /\ valid[e]
        BY <1>inv DEF DirtyInv
      <4>2. blk # Nil
        BY <1>b, VirtioAssumption
      <4>3. \A c, d \in Buf : blockno[c] = blockno[d] /\ blockno[c] # Nil => c = d
        BY <1>inv DEF CacheInv
      <4>4. e = b
        BY <1>b, <1>x, <4>1, <4>2, <4>3
      <4> QED
        BY <1>v, <2>2, <4>1, <4>4
    <3>2. platter[blk] = last[blk]
      BY <1>inv, <1>b, <3>1 DEF ValidInv
    <3> QED
      BY <1>d, <1>u, <1>x, <2>2, <3>2 DEF Transferred
  <2>3. CASE q # p
    <3>1. pc[q] \in Holding
      BY DEF Requesting, InIO, Holding, Driver
    <3>2. data'[cur[q]] = data[cur[q]] /\ platter'[blockno[cur[q]]] = platter[blockno[cur[q]]]
      BY <1>d, <1>o, <2>3, <3>1
    <3>3. pc[q] = "rwdone" \/ (pc[q] \in Requesting /\ req[head[q]].status = "0")
      BY <1>g, <2>3
    <3>4. Transferred(q)
      BY <1>inv, <3>3 DEF DoneInv
    <3> QED
      BY <1>u, <3>2, <3>4 DEF Transferred
  <2> QED
    BY <2>1, <2>2, <2>3
<1>8. DescInv'
  <2>1. \A g \in Desc : (req'[g] # Nil <=> req[g] # Nil) /\ (req[g] # Nil => req'[g].chain = req[g].chain)
    BY <1>c, <1>r, <1>s
  <2> QED
    BY <1>inv, <1>u, <2>1 DEF DescInv
<1> QED
  BY <1>1, <1>3, <1>4, <1>5, <1>6, <1>7, <1>8 DEF IInv

-----------------------------------------------------------------------------
(* binit() and virtio_disk_init() leave an empty cache over idle rings. *)
LEMMA IInvInit == Init => IInv
<1> SUFFICES ASSUME Init PROVE IInv
  OBVIOUS
<1>i. /\ free = Desc /\ req = [h \in Desc |-> Nil] /\ avail = <<>> /\ used = <<>> /\ inflight = {}
      /\ platter = [k \in Block |-> 0] /\ data = [b \in Buf |-> 0] /\ bdisk = [b \in Buf |-> FALSE]
      /\ pc = [p \in Proc |-> "user"] /\ cur = [p \in Proc |-> Nil]
      /\ wr = [p \in Proc |-> FALSE] /\ head = [p \in Proc |-> Nil]
      /\ lru = [i \in 1 .. NBUF |-> NBUF - i] /\ blockno = [b \in Buf |-> Nil]
      /\ valid = [b \in Buf |-> FALSE] /\ refcnt = [b \in Buf |-> 0] /\ owner = [b \in Buf |-> Nil]
      /\ pinned = {} /\ dirty = {} /\ mods = 0 /\ last = platter
  BY DEF Init, VirtioInit
<1>z. 0 \in Nat
  BY SMTT(30)
<1>e. avail \in Seq(Desc) /\ used \in Seq(Desc) /\ Elems(<<>>) = {} /\ Distinct(<<>>)
  BY <1>i, SMTT(30) DEF Elems, Distinct
<1>n. Nil \notin Buf
  BY VirtioAssumption, SMTT(30) DEF Buf
<1>r. lru \in [1 .. NBUF -> Buf] /\ \A b \in Buf : \E i \in 1 .. NBUF : lru[i] = b
  <2>1. \A i \in 1 .. NBUF : NBUF - i \in Buf
    BY VirtioAssumption, SMTT(30) DEF Buf
  <2>2. \A b \in Buf : NBUF - b \in 1 .. NBUF /\ NBUF - (NBUF - b) = b
    BY VirtioAssumption, SMTT(30) DEF Buf
  <2> QED
    BY <1>i, <2>1, <2>2
<1>1. TypeInv
  <2>1. IsFiniteSet(pinned) /\ Cardinality(pinned) <= MaxPin
    BY <1>i, FS_EmptySet, BcacheAssumption, SMTT(30)
  <2>2. /\ free \subseteq Desc /\ req \in [Desc -> Request \cup {Nil}] /\ inflight \subseteq Desc
        /\ pinned \subseteq Block /\ dirty \subseteq Block /\ mods \in Nat
    BY <1>i, <1>z
  <2>3. /\ platter \in [Block -> Nat] /\ data \in [Buf -> Nat] /\ bdisk \in [Buf -> BOOLEAN]
        /\ last \in [Block -> Nat]
    BY <1>i, <1>z
  <2>4. /\ pc \in [Proc -> Labels] /\ cur \in [Proc -> Buf \cup {Nil}] /\ wr \in [Proc -> BOOLEAN]
        /\ head \in [Proc -> Desc \cup {Nil}]
    BY <1>i DEF Labels
  <2>5. /\ blockno \in [Buf -> Block \cup {Nil}] /\ valid \in [Buf -> BOOLEAN]
        /\ refcnt \in [Buf -> Nat] /\ owner \in [Buf -> Proc \cup {Nil}]
    BY <1>i, <1>z
  <2> QED
    BY <1>e, <1>r, <2>1, <2>2, <2>3, <2>4, <2>5 DEF TypeInv
<1>2. CacheInv
  BY <1>i, <1>r DEF CacheInv
<1>3. RefcntExact
  <2> SUFFICES ASSUME NEW b \in Buf
               PROVE  0 = Cardinality({p \in Proc : cur[p] = b}) + (IF blockno[b] \in pinned THEN 1 ELSE 0)
    BY <1>i DEF RefcntExact
  <2>1. {p \in Proc : cur[p] = b} = {}
    BY <1>i, <1>n
  <2>2. Cardinality({p \in Proc : cur[p] = b}) = 0
    BY <2>1, FS_EmptySet
  <2>3. (IF blockno[b] \in pinned THEN 1 ELSE 0) = 0
    BY <1>i
  <2> QED
    BY <2>2, <2>3, SMTT(30)
<1>4. OwnerInv
  BY <1>i, VirtioAssumption DEF OwnerInv, Holding, Driver
<1>5. DirtyInv /\ ValidInv
  BY <1>i DEF DirtyInv, ValidInv, Driver
<1>6. RequestInv
  BY <1>i DEF RequestInv, Requesting, InIO
<1>7. RingInv
  BY <1>i, <1>e DEF RingInv, InIO
<1>8. DoneInv
  BY <1>i DEF DoneInv, Requesting, InIO
<1>9. DescInv
  BY <1>i DEF DescInv
<1> QED
  BY <1>1, <1>2, <1>3, <1>4, <1>5, <1>6, <1>7, <1>8, <1>9 DEF IInv

(* Every step of the processes, the device and the handler keeps the         *)
(* invariant.                                                                *)
LEMMA IInvNext == IInv /\ [Next]_vars => IInv'
<1> SUFFICES ASSUME IInv, [Next]_vars PROVE IInv'
  OBVIOUS
<1>1. CASE Next
  <2>1. Step
    BY <1>1, StepCases
  <2> QED
    BY <2>1, IdlesStep, BgetHitStep, BgetMissStep, BreadStep, BwriteStep, RwReturnStep, ModifyStep,
       PinStep, BrelseUnlockStep, BrelsePutStep, RwStartStep, RwPublishStep, RwFinishStep,
       DevFetchStep, DevFinishStep, IntrEntryStep
       DEF Step
<1>2. CASE UNCHANGED vars
  <2>t. pc \in [Proc -> Labels]
    BY DEF IInv, TypeInv
  <2>1. Idles
    BY <1>2, <2>t DEF vars, Idles, driver, device
  <2> QED
    BY <2>1, IdlesStep
<1> QED
  BY <1>1, <1>2

(* The invariant of the buffer cache, the driver and the device. *)
THEOREM BcacheInvariant == Spec => []IInv
  BY IInvInit, IInvNext, PTL DEF Spec

(* Whoever holds the buffer of a block sees what the last holder left in it, *)
(* whatever bget() recycled and the device reordered meanwhile.              *)
THEOREM BcacheHolderSeesLastWrite == Spec => []HolderSeesLastWrite
<1>1. IInv => HolderSeesLastWrite
  <2> SUFFICES ASSUME IInv, NEW p \in Proc, pc[p] = "held"
               PROVE  data[cur[p]] = last[blockno[cur[p]]]
    BY DEF HolderSeesLastWrite
  <2>1. cur[p] \in Buf
    BY Buffers
  <2> QED
    BY <2>1 DEF IInv, ValidInv
<1> QED
  BY <1>1, BcacheInvariant, PTL

(* While b->disk is set the buffer is held by the process whose request the  *)
(* device works on, and stands for the block in the request.                 *)
THEOREM BcacheDeviceOwnsBuffer == Spec => []DeviceOwnsBuffer
<1>1. IInv => DeviceOwnsBuffer
  <2> SUFFICES ASSUME IInv, NEW b \in Buf, bdisk[b]
               PROVE  \E p \in Proc : /\ cur[p] = b /\ owner[b] = p
                                      /\ pc[p] \in {"publish", "iosleep", "iowoken"}
                                      /\ req[head[p]].b = b
                                      /\ req[head[p]].blockno = blockno[b]
    BY DEF DeviceOwnsBuffer
  <2>1. PICK p \in Proc : cur[p] = b /\ pc[p] \in Requesting
    BY DEF IInv, RingInv
  <2>2. owner[b] = p
    BY <2>1, Requests, Buffers
  <2>3. req[head[p]].b = cur[p] /\ req[head[p]].blockno = blockno[cur[p]]
    BY <2>1 DEF IInv, RequestInv
  <2> QED
    BY <2>1, <2>2, <2>3 DEF Requesting, InIO
<1> QED
  BY <1>1, BcacheInvariant, PTL

(* b->refcnt is the number of processes between bget() and brelse() that     *)
(* have b, and one for the log's pin.                                        *)
THEOREM BcacheRefcntExact == Spec => []RefcntExact
<1>1. IInv => RefcntExact
  BY DEF IInv
<1> QED
  BY <1>1, BcacheInvariant, PTL

(* Who sleeps for descriptors sleeps while a request holds some. *)
THEOREM BcacheDescWaiterHasWaker == Spec => []DescWaiterHasWaker
<1>1. IInv => DescWaiterHasWaker
  <2> SUFFICES ASSUME IInv, NEW p \in Proc, pc[p] = "descsleep"
               PROVE  /\ Cardinality(free) < 3
                      /\ \E q \in Proc : pc[q] \in {"publish", "iosleep", "iowoken"}
    BY DEF DescWaiterHasWaker
  <2>1. Cardinality(free) < 3
    BY DEF IInv, DescInv
  <2>2. free # Desc
    <3>1. Cardinality(Desc) = NUM /\ NUM >= 3 /\ NUM \in Nat
      BY VirtioAssumption, FS_Interval, SMTT(30) DEF Desc
    <3> QED
      BY <2>1, <3>1, SMTT(30)
  <2>3. PICK d \in Desc : d \notin free
    BY <2>2 DEF IInv, TypeInv
  <2>4. PICK h \in Desc : req[h] # Nil
    BY <2>3 DEF IInv, DescInv
  <2> QED
    BY <2>1, <2>4, Requests DEF Requesting, InIO
<1> QED
  BY <1>1, BcacheInvariant, PTL

(* No panic of the driver is reached, with any number of buffers: it never   *)
(* frees a descriptor twice, finds every head in a ring with a request, and  *)
(* every used one with status 0.                                             *)
THEOREM BcacheNoPanic == Spec => []NoPanic
<1>1. ASSUME IInv PROVE NoPanic
  <2>inv. TypeInv /\ RequestInv /\ RingInv /\ DescInv
    BY <1>1 DEF IInv
  <2>r. Range(avail) = Elems(avail) /\ Range(used) = Elems(used)
    <3>1. DOMAIN avail = 1 .. Len(avail) /\ DOMAIN used = 1 .. Len(used)
      BY <2>inv, SMTT(30) DEF TypeInv
    <3> QED
      BY <3>1 DEF Range, Elems
  <2>1. ASSUME NEW p \in Proc, pc[p] = "iowoken" PROVE Chain(head[p]) \cap free = {}
    <3>1. pc[p] \in Requesting
      BY <2>1 DEF Requesting, InIO
    <3>2. head[p] \in Desc /\ req[head[p]] # Nil
      BY <1>1, <2>inv, <3>1, Requests DEF RequestInv
    <3> QED
      BY <2>inv, <3>2 DEF DescInv, Chain
  <2>2. ASSUME NEW h \in Elems(avail) \cup inflight \cup Elems(used)
        PROVE  req[h] # Nil /\ (h \in Elems(used) => req[h].status = "0")
    <3>1. PICK p \in Proc : head[p] = h /\ pc[p] \in InIO
      BY <2>inv DEF RingInv
    <3>2. pc[p] \in Requesting
      BY <3>1 DEF Requesting
    <3>3. req[h] # Nil /\ req[h] \in Request
      BY <1>1, <2>inv, <3>1, <3>2, Requests DEF RequestInv
    <3>4. ASSUME h \in Elems(used) PROVE req[h].status = "0"
      <4>1. h \notin Elems(avail) \cup inflight
        BY <2>inv, <3>4 DEF RingInv
      <4>2. req[h].status # "ff"
        BY <2>inv, <3>1, <4>1 DEF RingInv
      <4> QED
        BY <3>3, <4>2 DEF Request
    <3> QED
      BY <3>3, <3>4
  <2> QED
    BY <2>r, <2>1, <2>2 DEF NoPanic
<1> QED
  BY <1>1, BcacheInvariant, PTL

(* Without a victim the buffers are all taken: each one by the block that is *)
(* pinned in it, or else by a process that has it from bget().               *)
LEMMA AllTaken ==
  ASSUME IInv, Victims = {}
  PROVE  NBUF <= Cardinality({p \in Proc : cur[p] # Nil}) + Cardinality(pinned)
<1> DEFINE T == {p \in Proc : cur[p] # Nil}
           W == {b \in Buf : blockno[b] \in pinned}
           U == Buf \ W
           Q == {q \in Proc : cur[q] \in U}
           f == [q \in Q |-> cur[q]]
           g == [b \in W |-> blockno[b]]
<1>n. Nil \notin Buf
  BY VirtioAssumption, SMTT(30) DEF Buf
<1>1. \A b \in U : \E q \in Q : cur[q] = b
  <2> SUFFICES ASSUME NEW b \in U PROVE \E q \in Proc : cur[q] = b
    OBVIOUS
  <2>1. refcnt[b] # 0
    BY DEF Victims
  <2>2. refcnt[b] = Cardinality({q \in Proc : cur[q] = b}) + 0
    BY DEF IInv, RefcntExact
  <2>3. {q \in Proc : cur[q] = b} # {}
    <3> SUFFICES ASSUME {q \in Proc : cur[q] = b} = {} PROVE FALSE
      OBVIOUS
    <3>1. Cardinality({q \in Proc : cur[q] = b}) = 0
      BY FS_EmptySet
    <3>2. refcnt[b] = 0 + 0
      BY <2>2, <3>1
    <3> QED
      BY <2>1, <3>2, SMTT(30)
  <2> QED
    BY <2>3
<1>2. f \in Surjection(Q, U)
  BY <1>1 DEF Surjection
<1>3. Q \in SUBSET T
  BY <1>n
<1>4. IsFiniteSet(T) /\ Cardinality(T) \in Nat
  BY VirtioAssumption, FS_Subset, FS_CardinalityType
<1>5. g \in Injection(W, pinned)
  <2>1. g \in [W -> pinned]
    OBVIOUS
  <2>2. \A b, c \in Buf : blockno[b] = blockno[c] /\ blockno[b] # Nil => b = c
    BY DEF IInv, CacheInv
  <2>3. Nil \notin pinned
    BY VirtioAssumption DEF IInv, TypeInv
  <2>4. \A b, c \in W : g[b] = g[c] => b = c
    BY <2>2, <2>3
  <2> QED
    BY <2>1, <2>4 DEF Injection, IsInjective
<1>6. IsFiniteSet(pinned)
  BY DEF IInv, TypeInv
<1>7. Buf = U \cup W /\ U \cap W = {}
  OBVIOUS
<1> HIDE DEF T, U, W, Q, f, g
<1>8. IsFiniteSet(Q) /\ Cardinality(Q) <= Cardinality(T) /\ Cardinality(Q) \in Nat
  BY <1>3, <1>4, FS_Subset, FS_CardinalityType
<1>9. IsFiniteSet(U) /\ Cardinality(U) <= Cardinality(Q)
  BY <1>2, <1>8, FS_Surjection
<1>10. IsFiniteSet(W) /\ Cardinality(W) <= Cardinality(pinned)
  BY <1>5, <1>6, FS_Injection
<1>11. Cardinality(Buf) = Cardinality(U) + Cardinality(W) - 0
  <2>1. Cardinality(U \cup W) = Cardinality(U) + Cardinality(W) - Cardinality(U \cap W)
    BY <1>9, <1>10, FS_Union
  <2>2. Cardinality(U \cap W) = 0
    BY <1>7, FS_EmptySet
  <2> QED
    BY <1>7, <2>1, <2>2
<1>12. Cardinality(Buf) = NBUF
  BY VirtioAssumption, FS_Interval, SMTT(30) DEF Buf
<1>13. Cardinality(U) \in Nat /\ Cardinality(W) \in Nat /\ Cardinality(pinned) \in Nat
  BY <1>6, <1>9, <1>10, FS_CardinalityType
<1>14. NBUF <= Cardinality(T) + Cardinality(pinned)
  BY <1>4, <1>8, <1>9, <1>10, <1>11, <1>12, <1>13, VirtioAssumption, SMTT(30)
<1> QED
  BY <1>14 DEF T

(* bget() panics with "no buffers" only when all NBUF buffers are taken by   *)
(* processes and pinned blocks: no count leaks, no buffer is lost.           *)
THEOREM BcacheNoBuffersOnlyWhenFull == Spec => []NoBuffersOnlyWhenFull
<1>1. IInv => NoBuffersOnlyWhenFull
  BY AllTaken DEF NoBuffersOnlyWhenFull
<1> QED
  BY <1>1, BcacheInvariant, PTL

=============================================================================
