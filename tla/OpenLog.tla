------------------------------- MODULE OpenLog -------------------------------
(***************************************************************************)
(* sys_open() (kernel/sysfile.c) and sys_chmod() on one existing file, as  *)
(* calls of the logging layer.  In terms of Log a call is what happens     *)
(* between BeginEnter and EndOp; this module adds how sys_open() leaves    *)
(* it.  The power stays on.                                                *)
(***************************************************************************)
EXTENDS Log

VARIABLE mode     \* S_IWUSR is set in ip->mode

openVars == <<disk, dlog, dhead, cache, pins, lh, outstanding, committing, tail,
              boot, pc, buf, wrote, mode>>

OpenInit == Init /\ mode = TRUE

(* sys_chmod(), the end of its transaction's work: ip->mode = mode;          *)
(* iupdate(ip), which registers the inode's block with log_write().         *)
Chmod(p, m) ==
  /\ LogWrite(p)
  /\ mode' = m

(* sys_open(path, O_WRONLY) of a file without write permission:             *)
(* iunlockput(ip); return -1.                                               *)
OpenDenied(p) ==
  /\ pc[p] = "op"
  /\ ~ mode
  /\ Goto(p, "idle")
  /\ UNCHANGED <<disk, dlog, dhead, cache, pins, lh, outstanding, committing, tail,
                 boot, buf, wrote, mode>>

(* The other returns of sys_open(), on success or failure, call end_op(). *)
OpenNext ==
  \/ Running /\ UNCHANGED mode
  \/ \E p \in Proc : OpenDenied(p) \/ \E m \in BOOLEAN : Chmod(p, m)

OpenSpec == OpenInit /\ [][OpenNext]_openVars

==============================================================================
