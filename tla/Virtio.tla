-------------------------------- MODULE Virtio --------------------------------
(***************************************************************************)
(* The disk driver, kernel/virtio_disk.c, the device behind its rings and  *)
(* the interrupt that connects them (kernel/plic.c, devintr() in trap.c).  *)
(*                                                                         *)
(* A section under vdisk_lock is one step, except that making a request    *)
(* known (avail->idx += 1) is a step of its own, and so is every turn of   *)
(* the interrupt handler's loop: the device works concurrently with both.  *)
(* A ring is the sequence of its entries that the reader has not taken yet *)
(* (its uint16 index counts modulo a multiple of NUM, and at most NUM / 3  *)
(* requests are under way).                                                *)
(***************************************************************************)
EXTENDS Integers, Sequences, FiniteSets, FiniteSetsExt

CONSTANTS
  Proc,       \* processes that do disk I/O
  Block,      \* disk blocks
  NBUF,       \* number of buffers (kernel/param.h)
  NUM,        \* number of descriptors (kernel/virtio.h)
  Nil         \* a null pointer, a free lock

ASSUME VirtioAssumption ==
  /\ NUM \in Nat /\ NUM >= 3
  /\ NBUF \in Nat \ {0}
  /\ IsFiniteSet(Proc)
  /\ Nil \notin Block \cup Proc \cup 0 .. NUM + NBUF

Buf == 0 .. NBUF - 1
Desc == 0 .. NUM - 1

(* A request: its chain of descriptors, disk.ops (write, blockno), disk.info *)
(* (b, status).                                                              *)
Request == [chain : SUBSET Desc, write : BOOLEAN, blockno : Block, b : Buf, status : {"ff", "0"}]

ASSUME RequestAssumption == Nil \notin Request

VARIABLES
  free,       \* the i with disk.free[i]
  req,        \* the request with this head, Nil if none
  avail,      \* the avail ring: heads the device has not taken
  used,       \* the used ring: heads the driver has not looked at
  inflight,   \* heads of the requests the device works on
  isr,        \* the device's interrupt status, the level of its line
  irq,        \* the handler: "idle", "claimed", "loop"
  vlock,      \* holder of vdisk_lock: a process, "intr" or Nil
  platter,    \* contents of the disk: a number per block, 0 at boot
  data,       \* b->data
  bdisk,      \* b->disk: the device owns the buffer
  pc,         \* where p is
  cur,        \* p's buffer
  wr,         \* p's argument write
  head        \* p's idx[0]

driver == <<free, req, vlock, bdisk, head>>
device == <<avail, used, inflight, isr, platter>>

VirtioInit ==
  /\ free = Desc
  /\ req = [i \in Desc |-> Nil]
  /\ avail = <<>> /\ used = <<>>
  /\ inflight = {} /\ isr = FALSE /\ irq = "idle" /\ vlock = Nil
  /\ platter = [k \in Block |-> 0]
  /\ data = [b \in Buf |-> 0]
  /\ bdisk = [b \in Buf |-> FALSE]
  /\ pc = [p \in Proc |-> "user"]
  /\ cur = [p \in Proc |-> Nil]
  /\ wr = [p \in Proc |-> FALSE]
  /\ head = [p \in Proc |-> Nil]

(* wakeup(): the processes asleep at label s continue at label t. *)
Woken(s, t, S) == [q \in Proc |-> IF q \in S /\ pc[q] = s THEN t ELSE pc[q]]

-----------------------------------------------------------------------------
(* virtio_disk_rw(): alloc3_desc() takes the three lowest free descriptors;  *)
(* they are formatted and chained, the buffer is handed to the device.       *)
RwStart(p, blk) ==
  /\ pc[p] = "rw" /\ vlock = Nil
  /\ Cardinality(free) >= 3
  /\ LET i0 == Min(free)
         i1 == Min(free \ {i0})
         i2 == Min(free \ {i0, i1})
     IN /\ free' = free \ {i0, i1, i2}
        /\ req' = [req EXCEPT ![i0] = [chain |-> {i0, i1, i2}, write |-> wr[p],
                                       blockno |-> blk, b |-> cur[p], status |-> "ff"]]
        /\ head' = [head EXCEPT ![p] = i0]
  /\ bdisk' = [bdisk EXCEPT ![cur[p]] = TRUE]
  /\ vlock' = p
  /\ pc' = [pc EXCEPT ![p] = "publish"]
  /\ UNCHANGED <<device, irq, data, cur, wr>>

(* Not enough descriptors: those taken are freed again, with a wakeup each,  *)
(* and p sleeps on &disk.free[0].                                            *)
RwNoDesc(p) ==
  /\ pc[p] = "rw" /\ vlock = Nil
  /\ Cardinality(free) < 3
  /\ pc' = [Woken("descsleep", "rw", IF free = {} THEN {} ELSE Proc)
              EXCEPT ![p] = "descsleep"]
  /\ UNCHANGED <<driver, device, irq, data, cur, wr>>

(* Mutation: virtio_disk_rw() does not wait for the device. *)
RwPublishNoWait(p) ==
  /\ pc[p] = "publish"
  /\ avail' = Append(avail, head[p])
  /\ vlock' = Nil
  /\ pc' = [pc EXCEPT ![p] = "rwdone"]
  /\ UNCHANGED <<free, req, bdisk, head, used, inflight, isr, platter, irq, data, cur, wr>>

(* The head in the avail ring, avail->idx += 1, notify, and                  *)
(* sleep(b, &vdisk_lock).                                                    *)
RwPublish(p) ==
  /\ pc[p] = "publish"
  /\ avail' = Append(avail, head[p])
  /\ vlock' = Nil
  /\ pc' = [pc EXCEPT ![p] = "iosleep"]
  /\ UNCHANGED <<free, req, bdisk, head, used, inflight, isr, platter, irq, data, cur, wr>>

(* free_chain(): the descriptors linked from the head. *)
Chain(h) == req[h].chain

(* Mutation: free_desc() does not call wakeup(). *)
RwFinishSilent(p) ==
  /\ pc[p] = "iowoken" /\ vlock = Nil
  /\ ~ bdisk[cur[p]]
  /\ free' = free \cup Chain(head[p])
  /\ req' = [req EXCEPT ![head[p]] = Nil]
  /\ head' = [head EXCEPT ![p] = Nil]
  /\ pc' = [pc EXCEPT ![p] = "rwdone"]
  /\ UNCHANGED <<device, irq, vlock, bdisk, data, cur, wr>>

(* Mutation: virtio_disk_rw() sleeps in an if, not in a while loop. *)
RwFinishWoken(p) ==
  /\ pc[p] = "iowoken" /\ vlock = Nil
  /\ free' = free \cup Chain(head[p])
  /\ req' = [req EXCEPT ![head[p]] = Nil]
  /\ head' = [head EXCEPT ![p] = Nil]
  /\ pc' = [Woken("descsleep", "rw", Proc) EXCEPT ![p] = "rwdone"]
  /\ UNCHANGED <<device, irq, vlock, bdisk, data, cur, wr>>

(* Woken, and b->disk is 0: disk.info[].b = 0 and free_chain(), which wakes  *)
(* the processes waiting for descriptors, and return.                        *)
RwFinish(p) ==
  /\ pc[p] = "iowoken" /\ vlock = Nil
  /\ ~ bdisk[cur[p]]
  /\ free' = free \cup Chain(head[p])
  /\ req' = [req EXCEPT ![head[p]] = Nil]
  /\ head' = [head EXCEPT ![p] = Nil]
  /\ pc' = [Woken("descsleep", "rw", Proc) EXCEPT ![p] = "rwdone"]
  /\ UNCHANGED <<device, irq, vlock, bdisk, data, cur, wr>>

(* Woken by a kill() while b->disk is 1: back to sleep. *)
RwAgain(p) ==
  /\ pc[p] = "iowoken" /\ vlock = Nil
  /\ bdisk[cur[p]]
  /\ pc' = [pc EXCEPT ![p] = "iosleep"]
  /\ UNCHANGED <<driver, device, irq, data, cur, wr>>

(* kill() makes a sleeping process runnable, whatever it sleeps for. *)
Kill(p) ==
  /\ pc[p] \in {"iosleep", "descsleep"}
  /\ pc' = [pc EXCEPT ![p] = IF @ = "iosleep" THEN "iowoken" ELSE "rw"]
  /\ UNCHANGED <<driver, device, irq, data, cur, wr>>

-----------------------------------------------------------------------------
(* devintr(): plic_claim().  The PLIC passes on the level of the device's    *)
(* line, and no second interrupt before plic_complete().                     *)
PlicClaim ==
  /\ irq = "idle" /\ isr
  /\ irq' = "claimed"
  /\ UNCHANGED <<driver, device, data, pc, cur, wr>>

(* virtio_disk_intr(): acquire, and acknowledge before looking at the ring. *)
IntrAck ==
  /\ irq = "claimed" /\ vlock = Nil
  /\ vlock' = "intr"
  /\ isr' = FALSE
  /\ irq' = "loop"
  /\ UNCHANGED <<free, req, bdisk, head, avail, used, inflight, platter, data, pc, cur, wr>>

(* Mutation: the handler does not call wakeup(). *)
IntrEntrySilent ==
  /\ irq = "loop" /\ used # <<>>
  /\ bdisk' = [bdisk EXCEPT ![req[Head(used)].b] = FALSE]
  /\ used' = Tail(used)
  /\ UNCHANGED <<free, req, vlock, head, avail, inflight, isr, platter, irq, data, pc, cur, wr>>

(* One turn of its loop: the buffer of the finished request is given back    *)
(* and wakeup(b) is called.                                                  *)
IntrEntry ==
  /\ irq = "loop" /\ used # <<>>
  /\ LET b == req[Head(used)].b
     IN /\ bdisk' = [bdisk EXCEPT ![b] = FALSE]
        /\ pc' = Woken("iosleep", "iowoken", {q \in Proc : cur[q] = b})
  /\ used' = Tail(used)
  /\ UNCHANGED <<free, req, vlock, head, avail, inflight, isr, platter, irq, data, cur, wr>>

(* The ring is empty: release, and plic_complete(). *)
IntrDone ==
  /\ irq = "loop" /\ used = <<>>
  /\ vlock' = Nil
  /\ irq' = "idle"
  /\ UNCHANGED <<free, req, bdisk, head, device, data, pc, cur, wr>>

-----------------------------------------------------------------------------
(* The device takes a chain from the avail ring ... *)
DevFetch ==
  /\ avail # <<>>
  /\ inflight' = inflight \cup {Head(avail)}
  /\ avail' = Tail(avail)
  /\ UNCHANGED <<driver, used, isr, platter, irq, data, pc, cur, wr>>

(* ... and finishes the ones it has in any order: it moves the data, sets    *)
(* status to 0, adds the head to the used ring and raises its interrupt.     *)
DevFinish(h) ==
  /\ h \in inflight
  /\ LET r == req[h]
     IN IF r.write
          THEN platter' = [platter EXCEPT ![r.blockno] = data[r.b]] /\ UNCHANGED data
          ELSE data' = [data EXCEPT ![r.b] = platter[r.blockno]] /\ UNCHANGED platter
  /\ req' = [req EXCEPT ![h].status = "0"]
  /\ used' = Append(used, h)
  /\ inflight' = inflight \ {h}
  /\ isr' = TRUE
  /\ UNCHANGED <<free, avail, vlock, bdisk, head, irq, pc, cur, wr>>

Device == DevFetch \/ \E h \in inflight : DevFinish(h)

Interrupt == PlicClaim \/ IntrAck \/ IntrEntry \/ IntrDone

==============================================================================
