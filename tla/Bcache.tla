-------------------------------- MODULE Bcache --------------------------------
(***************************************************************************)
(* The buffer cache, kernel/bio.c, over the disk driver of Virtio.         *)
(*                                                                         *)
(* bcache.lock and the buffers' sleep locks: a section under bcache.lock   *)
(* is one step, and holding a sleep lock is owner[b] = p (SleepLock shows  *)
(* that the sleep lock is one).  The clients behave as the file system and *)
(* the log do: a buffer that was modified and not written is pinned before *)
(* it is released (log_write), and written before it is unpinned           *)
(* (install_trans).                                                        *)
(***************************************************************************)
EXTENDS Virtio

CONSTANTS
  MaxPin,     \* at most this many buffers are pinned
  MaxMod      \* the clients change a block at most this often

ASSUME BcacheAssumption == MaxPin \in Nat /\ MaxMod \in Nat

VARIABLES
  lru,        \* the list bcache.head.next ... bcache.head.prev
  blockno, valid, refcnt,   \* b->blockno, b->valid, b->refcnt
  owner,      \* the process that holds b->lock
  pinned,     \* blocks the log has pinned
  dirty,      \* blocks modified since they were last written
  mods,       \* changes so far; a change stores its number
  last        \* what the last holder of a block's buffer left in it

cache == <<lru, blockno, valid, refcnt, owner>>
ghost == <<pinned, dirty, mods, last>>
vars == <<driver, device, irq, data, pc, cur, wr, cache, ghost>>

Goto(p, l) == pc' = [pc EXCEPT ![p] = l]

(* binit() puts every buffer at the front of the list in turn. *)
Init ==
  /\ VirtioInit
  /\ lru = [i \in 1 .. NBUF |-> NBUF - i]
  /\ blockno = [b \in Buf |-> Nil]
  /\ valid = [b \in Buf |-> FALSE]
  /\ refcnt = [b \in Buf |-> 0]
  /\ owner = [b \in Buf |-> Nil]
  /\ pinned = {} /\ dirty = {} /\ mods = 0
  /\ last = platter

-----------------------------------------------------------------------------
Cached(blk) == {b \in Buf : blockno[b] = blk}

(* Mutation: a hit does not count the new reference. *)
BgetHitUncounted(p, blk) ==
  /\ pc[p] = "user"
  /\ \E b \in Cached(blk) : cur' = [cur EXCEPT ![p] = b]
  /\ Goto(p, "lock")
  /\ UNCHANGED <<driver, device, irq, data, wr, cache, ghost>>

(* bget(): the block is cached. *)
BgetHit(p, blk) ==
  /\ pc[p] = "user"
  /\ \E b \in Cached(blk) :
       /\ cur' = [cur EXCEPT ![p] = b]
       /\ refcnt' = [refcnt EXCEPT ![b] = @ + 1]
  /\ Goto(p, "lock")
  /\ UNCHANGED <<driver, device, irq, data, wr, lru, blockno, valid, owner, ghost>>

(* The buffers bget() may recycle. *)
Victims == {b \in Buf : refcnt[b] = 0}

(* Mutation: a recycled buffer stays valid. *)
BgetMissValid(p, blk) ==
  /\ pc[p] = "user"
  /\ Cached(blk) = {} /\ Victims # {}
  /\ LET b == lru[Max({i \in 1 .. NBUF : lru[i] \in Victims})]
     IN /\ blockno' = [blockno EXCEPT ![b] = blk]
        /\ refcnt' = [refcnt EXCEPT ![b] = 1]
        /\ cur' = [cur EXCEPT ![p] = b]
  /\ Goto(p, "lock")
  /\ UNCHANGED <<driver, device, irq, data, wr, lru, valid, owner, ghost>>

(* bget(): recycle the least recently used buffer with refcnt 0.  Without    *)
(* one, bget() panics: see NoBuffersOnlyWhenFull.                            *)
BgetMiss(p, blk) ==
  /\ pc[p] = "user"
  /\ Cached(blk) = {} /\ Victims # {}
  /\ LET b == lru[Max({i \in 1 .. NBUF : lru[i] \in Victims})]
     IN /\ blockno' = [blockno EXCEPT ![b] = blk]
        /\ valid' = [valid EXCEPT ![b] = FALSE]
        /\ refcnt' = [refcnt EXCEPT ![b] = 1]
        /\ cur' = [cur EXCEPT ![p] = b]
  /\ Goto(p, "lock")
  /\ UNCHANGED <<driver, device, irq, data, wr, lru, owner, ghost>>

(* acquiresleep() at the end of bget(), and bread()'s test of b->valid. *)
Bread(p) ==
  /\ pc[p] = "lock" /\ owner[cur[p]] = Nil
  /\ owner' = [owner EXCEPT ![cur[p]] = p]
  /\ Goto(p, IF valid[cur[p]] THEN "held" ELSE "rw")
  /\ UNCHANGED <<driver, device, irq, data, cur, wr, lru, blockno, valid, refcnt, ghost>>

(* bwrite(): the caller holds the buffer. *)
Bwrite(p) ==
  /\ pc[p] = "held" /\ blockno[cur[p]] \in dirty
  /\ wr' = [wr EXCEPT ![p] = TRUE]
  /\ Goto(p, "rw")
  /\ UNCHANGED <<driver, device, irq, data, cur, cache, ghost>>

(* virtio_disk_rw() returned: bread() sets b->valid. *)
RwReturn(p) ==
  /\ pc[p] = "rwdone"
  /\ valid' = [valid EXCEPT ![cur[p]] = TRUE]
  /\ dirty' = IF wr[p] THEN dirty \ {blockno[cur[p]]} ELSE dirty
  /\ wr' = [wr EXCEPT ![p] = FALSE]
  /\ Goto(p, "held")
  /\ UNCHANGED <<driver, device, irq, data, cur, lru, blockno, refcnt, owner, pinned, mods,
                 last>>

(* The holder changes the data. *)
Modify(p) ==
  /\ pc[p] = "held" /\ mods < MaxMod
  /\ mods' = mods + 1
  /\ data' = [data EXCEPT ![cur[p]] = mods']
  /\ last' = [last EXCEPT ![blockno[cur[p]]] = mods']
  /\ dirty' = dirty \cup {blockno[cur[p]]}
  /\ UNCHANGED <<driver, device, irq, pc, cur, wr, cache, pinned>>

(* bpin() and bunpin(). *)
Bpin(p) ==
  LET blk == blockno[cur[p]] IN
  /\ pc[p] = "held" /\ blk \in dirty \ pinned
  /\ Cardinality(pinned) < MaxPin
  /\ refcnt' = [refcnt EXCEPT ![cur[p]] = @ + 1]
  /\ pinned' = pinned \cup {blk}
  /\ UNCHANGED <<driver, device, irq, data, pc, cur, wr, lru, blockno, valid, owner, dirty,
                 mods, last>>

Bunpin(p) ==
  LET blk == blockno[cur[p]] IN
  /\ pc[p] = "held" /\ blk \in pinned \ dirty
  /\ refcnt' = [refcnt EXCEPT ![cur[p]] = @ - 1]
  /\ pinned' = pinned \ {blk}
  /\ UNCHANGED <<driver, device, irq, data, pc, cur, wr, lru, blockno, valid, owner, dirty,
                 mods, last>>

(* brelse(): releasesleep() ... *)
BrelseUnlock(p) ==
  /\ pc[p] = "held" /\ (blockno[cur[p]] \in dirty => blockno[cur[p]] \in pinned)
  /\ owner' = [owner EXCEPT ![cur[p]] = Nil]
  /\ Goto(p, "brelse")
  /\ UNCHANGED <<driver, device, irq, data, cur, wr, lru, blockno, valid, refcnt, ghost>>

(* The list with b taken out and put back behind the head. *)
MovedToFront(b) ==
  LET k == CHOOSE i \in 1 .. NBUF : lru[i] = b
  IN  [i \in 1 .. NBUF |-> IF i = 1 THEN b ELSE IF i <= k THEN lru[i - 1] ELSE lru[i]]

(* ... then, under bcache.lock, refcnt-- and to the front of the list if     *)
(* nobody waits for the buffer.                                              *)
BrelsePut(p) ==
  LET b == cur[p] IN
  /\ pc[p] = "brelse"
  /\ refcnt' = [refcnt EXCEPT ![b] = @ - 1]
  /\ lru' = IF refcnt[b] = 1 THEN MovedToFront(b) ELSE lru
  /\ cur' = [cur EXCEPT ![p] = Nil]
  /\ Goto(p, "user")
  /\ UNCHANGED <<driver, device, irq, data, wr, blockno, valid, owner, ghost>>

Rw(p) ==
  /\ \/ RwStart(p, blockno[cur[p]]) \/ RwNoDesc(p) \/ RwPublish(p) \/ RwFinish(p) \/ RwAgain(p)
  /\ UNCHANGED <<cache, ghost>>

Next ==
  \/ \E p \in Proc, blk \in Block : BgetHit(p, blk) \/ BgetMiss(p, blk)
  \/ \E p \in Proc : \/ Bread(p) \/ Bwrite(p) \/ RwReturn(p) \/ Modify(p)
                     \/ Bpin(p) \/ Bunpin(p)
                     \/ BrelseUnlock(p) \/ BrelsePut(p) \/ Rw(p)
  \/ (Device \/ Interrupt \/ \E p \in Proc : Kill(p)) /\ UNCHANGED <<cache, ghost>>

(* The device fetches and finishes every request (in any order, but it does  *)
(* not put one off for ever); the handler runs, and so does a process that   *)
(* has been woken.  acquire(&vdisk_lock) spins until it gets the lock: among *)
(* CPUs that take it again and again, each of them gets it at last (SF).     *)
Fairness ==
  LET InDriver(A) == A /\ UNCHANGED <<cache, ghost>>
  IN  /\ WF_vars(InDriver(DevFetch))
      /\ \A h \in Desc : WF_vars(InDriver(DevFinish(h)))
      /\ WF_vars(InDriver(PlicClaim \/ IntrEntry \/ IntrDone))
      /\ SF_vars(InDriver(IntrAck))
      /\ \A p \in Proc : /\ WF_vars(InDriver(RwPublish(p)))
                         /\ SF_vars(InDriver(RwFinish(p) \/ RwAgain(p)))

Spec == Init /\ [][Next]_vars /\ Fairness

-----------------------------------------------------------------------------
(* Whoever holds a block's buffer sees what its last holder left there, even *)
(* if the buffer was recycled for other blocks since, written, read again by *)
(* the device out of order, or pinned: bget()'s recycling never loses or     *)
(* confuses data.                                                            *)
HolderSeesLastWrite ==
  \A p \in Proc : pc[p] = "held" => data[cur[p]] = last[blockno[cur[p]]]

(* While the device owns a buffer (b->disk) the buffer stays as the driver   *)
(* described it: its lock is held, it still stands for the block in the      *)
(* request, and the process in virtio_disk_rw() is the one the head names.   *)
DeviceOwnsBuffer ==
  \A b \in Buf : bdisk[b] =>
    \E p \in Proc : /\ cur[p] = b /\ owner[b] = p
                    /\ pc[p] \in {"publish", "iosleep", "iowoken"}
                    /\ req[head[p]].b = b
                    /\ req[head[p]].blockno = blockno[b]

(* The reference counts are exact: one for every process between bget() and  *)
(* brelse(), one for the log's pin.  So bget() panics with "no buffers" only *)
(* if every buffer is in use.                                                *)
RefcntExact ==
  \A b \in Buf :
    refcnt[b] = Cardinality({p \in Proc : cur[p] = b})
                + (IF blockno[b] \in pinned THEN 1 ELSE 0)

(* None of the panics of the driver happens, even when a kill() wakes a      *)
(* process before its I/O is done: free_desc() never meets a free            *)
(* descriptor, and the device and the handler find the request under its     *)
(* head, with status 0 and a buffer in the used ring.                        *)
NoPanic ==
  /\ \A p \in Proc : pc[p] = "iowoken" /\ ~ bdisk[cur[p]] => Chain(head[p]) \cap free = {}
  /\ \A h \in Range(avail) \cup inflight \cup Range(used) : req[h] # Nil
  /\ \A h \in Range(used) : req[h].status = "0"

(* bget() has no buffer to recycle, and panics with "no buffers" for a block *)
(* that is not cached, only when every one of the NBUF buffers is taken: by  *)
(* a process between its bget() and its brelse(), or by the log's pin.  With *)
(* the sizes of param.h (30 buffers, 64 processes, 30 log blocks) that can   *)
(* happen.                                                                   *)
NoBuffersOnlyWhenFull ==
  Victims = {} => NBUF <= Cardinality({p \in Proc : cur[p] # Nil}) + Cardinality(pinned)

(* A process asleep for descriptors sleeps only while another one is inside  *)
(* virtio_disk_rw() with a chain, whose free_chain() will wake it.           *)
DescWaiterHasWaker ==
  (\E p \in Proc : pc[p] = "descsleep") =>
    Cardinality(free) < 3 /\ \E q \in Proc : pc[q] \in {"publish", "iosleep", "iowoken"}

(* Every request that is published returns: the device's interrupt is not    *)
(* lost, whatever requests, interrupts and kill()s come in between, and also *)
(* when the device finishes another request between the handler's            *)
(* acknowledgement and its look at the ring.  (For a process that still      *)
(* waits for descriptors there is no such promise: later callers can take    *)
(* them first, for ever.)                                                    *)
RequestReturns == \A p \in Proc : pc[p] = "iosleep" ~> pc[p] = "rwdone"

==============================================================================
