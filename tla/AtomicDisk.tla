------------------------------ MODULE AtomicDisk ------------------------------
(***************************************************************************)
(* What the logging layer (kernel/log.c) promises to the file system: a    *)
(* disk on which the writes of a system call become durable all together   *)
(* or not at all.  System calls run between Begin and End and write to the *)
(* current contents; Commit makes the current contents durable and never   *)
(* happens while a system call is under way; a crash falls back to the     *)
(* durable contents, so it never exposes part of a system call.            *)
(***************************************************************************)
CONSTANTS Proc, Block, Val, InitVal

VARIABLES
  durable,    \* what a machine that crashed now would come back with
  current,    \* what reads see
  active      \* the processes inside a file-system call

AInit ==
  /\ durable = [b \in Block |-> InitVal]
  /\ current = durable
  /\ active = {}

Begin(p) ==
  /\ p \notin active
  /\ active' = active \cup {p}
  /\ UNCHANGED <<durable, current>>

Write(p, b, v) ==
  /\ p \in active
  /\ current' = [current EXCEPT ![b] = v]
  /\ UNCHANGED <<durable, active>>

End(p) ==
  /\ p \in active
  /\ active' = active \ {p}
  /\ UNCHANGED <<durable, current>>

Commit ==
  /\ active = {}
  /\ durable' = current
  /\ UNCHANGED <<current, active>>

CrashRestart ==
  /\ current' = durable
  /\ active' = {}
  /\ UNCHANGED durable

ANext ==
  \/ \E p \in Proc : Begin(p) \/ End(p)
  \/ \E p \in Proc, b \in Block, v \in Val : Write(p, b, v)
  \/ Commit
  \/ CrashRestart

ASpec == AInit /\ [][ANext]_<<durable, current, active>>

==============================================================================
