--------------------------------- MODULE Tasks ---------------------------------
(***************************************************************************)
(* Processes over File and Pipe: user mode, fork(), exit(), wait() and     *)
(* kill() as to what they do to descriptors and to the process tree (Proc  *)
(* models them in full).  prog[p] is what p still has to do in user mode;  *)
(* the constant Compute says how programs go on, so that what is shown     *)
(* here holds for all programs.  Shell gives it a value.                   *)
(***************************************************************************)
EXTENDS File

CONSTANTS
  Job,        \* what the first process can be started with
  Killable,   \* the ones during which a kill() comes
  Boot(_),    \* the first process's program
  Compute(_, _, _, _)   \* what a program does up to its next system call, from
                        \* the last one's result and buffer and the array
                        \* p[2]: [call |-> the call, rest |-> the program after it]

(* syscall(): the calls of the table that are modelled. *)
UserCall(c) == FileCall(c) \/ c \in [op : {"fork", "exit", "wait"}]

ASSUME TasksAssumption ==
  /\ Proc \in SUBSET Nat /\ IsFiniteSet(Proc) /\ Proc # {}
  /\ NOFILE >= 3 /\ NFILE >= 1
  /\ ~ UserCall(Nil)

VARIABLES
  job,        \* what the first process was started with
  prog,       \* what p does next
  state,      \* "unused", "run" or "zombie"
  parent,
  kills,      \* kill() calls so far, at most one
  bad         \* a fork(), pipe() or open() failed, or there was a kill()

treeVars == <<state, parent, prog>>
vars == <<pipeVars, procVars, fileVars, job, treeVars, kills, bad>>

Sh == Least(Proc)

(* The first process has console open as 0, 1 and 2. *)
Init ==
  /\ job \in Job
  /\ pipe = [pi \in Pipes |-> Nil] /\ plock = [pi \in Pipes |-> Nil]
  /\ chan = [p \in Proc |-> Nil] /\ killed = [p \in Proc |-> FALSE]
  /\ sys = [p \in Proc |-> Nil] /\ ret = [p \in Proc |-> 0] /\ buf = [p \in Proc |-> <<>>]
  /\ file = [f \in Ftable |-> IF f = 1 THEN [ClosedFile EXCEPT !.ref = 3, !.type = "device", !.ip = Console,
                                              !.readable = TRUE, !.writable = TRUE]
                              ELSE ClosedFile]
  /\ ofile = [p \in Proc |-> [fd \in Fd |-> IF p = Sh /\ fd < 3 THEN 1 ELSE Nil]]
  /\ pfd = [p \in Proc |-> <<Nil, Nil>>]
  /\ content = [f \in Name |-> <<>>] /\ out = <<>>
  /\ prog = [p \in Proc |-> IF p = Sh THEN Boot(job) ELSE <<>>]
  /\ state = [p \in Proc |-> IF p = Sh THEN "run" ELSE "unused"]
  /\ parent = [p \in Proc |-> Nil]
  /\ kills = 0 /\ bad = FALSE

(* From user mode into the next system call; a killed process exits instead  *)
(* (usertrap()).                                                             *)
UserStep(p) ==
  /\ state[p] = "run" /\ sys[p] = Nil
  /\ \E next \in {IF killed[p] THEN [call |-> [op |-> "exit"], rest |-> <<>>]
                               ELSE Compute(prog[p], ret[p], buf[p], pfd[p])} :
       /\ UserCall(next.call)
       /\ sys' = [sys EXCEPT ![p] = next.call]
       /\ prog' = [prog EXCEPT ![p] = next.rest]
  /\ UNCHANGED <<pipeVars, killed, ret, buf, fileVars, job, state, parent, kills, bad>>

(* fork(): the child has the parent's memory and descriptors, and gets 0. *)
SysFork(p) ==
  /\ InSys(p, "fork")
  /\ LET slots == {q \in Proc : state[q] = "unused"}
         q == Least(slots)
         Copies(f) == Cardinality({fd \in Fd : ofile[p][fd] = f})
     IN IF slots = {}
        THEN /\ Return(p, -1)
             /\ bad' = TRUE
             /\ UNCHANGED <<killed, buf, file, ofile, pfd, treeVars>>
        ELSE /\ state' = [state EXCEPT ![q] = "run"]
             /\ parent' = [parent EXCEPT ![q] = p]
             /\ prog' = [prog EXCEPT ![q] = prog[p]]
             /\ killed' = [killed EXCEPT ![q] = FALSE]
             /\ ofile' = [ofile EXCEPT ![q] = ofile[p]]
             /\ pfd' = [pfd EXCEPT ![q] = pfd[p]]
             /\ buf' = [buf EXCEPT ![q] = buf[p]]
             /\ file' = [f \in Ftable |-> [file[f] EXCEPT !.ref = @ + Copies(f)]]
             /\ sys' = [sys EXCEPT ![p] = Nil]
             /\ ret' = [ret EXCEPT ![p] = q, ![q] = 0]
             /\ UNCHANGED bad
  /\ UNCHANGED <<pipeVars, content, out, job, kills>>

(* exit(): one descriptor after the other is closed ... *)
ExitClose(p) ==
  /\ InSys(p, "exit")
  /\ \E fd \in Fd :
       /\ ofile[p][fd] # Nil /\ \A g \in Fd : g < fd => ofile[p][g] = Nil
       /\ Close(p, fd, [op |-> "exit"])
  /\ UNCHANGED <<pipeVars, killed, ret, buf, pfd, content, out, job, treeVars, kills, bad>>

(* ... then the children go to init, which reaps them, and p is a zombie     *)
(* until its parent reaps it.                                                *)
ExitDone(p) ==
  /\ InSys(p, "exit") /\ \A fd \in Fd : ofile[p][fd] = Nil
  /\ state' = [q \in Proc |-> CASE q = p -> IF parent[p] = Nil THEN "unused" ELSE "zombie"
                                [] parent[q] = p /\ state[q] = "zombie" -> "unused"
                                [] OTHER -> state[q]]
  /\ parent' = [q \in Proc |-> IF parent[q] = p THEN Nil ELSE parent[q]]
  /\ sys' = [sys EXCEPT ![p] = Nil]
  /\ prog' = [prog EXCEPT ![p] = <<>>]
  /\ ret' = [ret EXCEPT ![p] = 0] /\ buf' = [buf EXCEPT ![p] = <<>>]
  /\ pfd' = [pfd EXCEPT ![p] = <<Nil, Nil>>]
  /\ UNCHANGED <<pipeVars, killed, file, ofile, content, out, job, kills, bad>>

(* wait(): a zombie child, or no child, or killed. *)
SysWait(p) ==
  /\ InSys(p, "wait")
  /\ LET kids == {q \in Proc : parent[q] = p /\ state[q] # "unused"}
         dead == {q \in kids : state[q] = "zombie"}
     IN \/ \E q \in dead : /\ q = Least(dead)
                           /\ state' = [state EXCEPT ![q] = "unused"]
                           /\ parent' = [parent EXCEPT ![q] = Nil]
                           /\ Return(p, q)
        \/ dead = {} /\ (kids = {} \/ killed[p]) /\ Return(p, -1) /\ UNCHANGED <<state, parent>>
  /\ UNCHANGED <<pipeVars, killed, buf, fileVars, job, prog, kills, bad>>

(* kill() from another terminal. *)
Kill(p) ==
  /\ kills = 0 /\ job \in Killable /\ state[p] = "run" /\ p # Sh
  /\ killed' = [killed EXCEPT ![p] = TRUE]
  /\ chan' = [chan EXCEPT ![p] = Nil]
  /\ kills' = kills + 1 /\ bad' = TRUE
  /\ UNCHANGED <<pipe, plock, sys, ret, buf, fileVars, job, treeVars>>

(* kill() between the test of p->killed and sleep(): p sleeps on. *)
KillLate(p) ==
  /\ kills = 0 /\ job \in Killable
  /\ PipeSleep(p)
  /\ killed' = [killed EXCEPT ![p] = TRUE]
  /\ kills' = kills + 1 /\ bad' = TRUE
  /\ UNCHANGED <<fileVars, job, treeVars>>

Syscall(p) ==
  /\ FileStep(p)
  /\ bad' = (bad \/ (sys[p].op \in {"pipe", "open"} /\ ret'[p] = -1))
  /\ UNCHANGED <<job, treeVars, kills>>

Run(p) == UserStep(p) \/ Syscall(p) \/ SysFork(p) \/ ExitClose(p) \/ ExitDone(p) \/ SysWait(p)

(* Everything has exited. *)
Finished == \A p \in Proc : state[p] = "unused"

Next == \E p \in Proc : Run(p) \/ Kill(p) \/ KillLate(p)

(* The scheduler runs some process as long as one can run. *)
Spec == Init /\ [][Next]_vars /\ WF_vars(\E p \in Proc : Run(p))

-----------------------------------------------------------------------------
(* A file's reference count is the number of descriptors for it; an end of a *)
(* pipe is open exactly while a file refers to it or the process that        *)
(* dropped the last reference is about to close it; no page is lost, freed   *)
(* twice or used when free.                                                  *)
EndOpen(pi, w) ==
  \/ \E f \in Ftable : file[f].ref > 0 /\ file[f].type = "pipe" /\ file[f].pipe = pi /\ file[f].writable = w
  \/ \E p \in Proc : sys[p] # Nil /\ sys[p].op = "pipeclose" /\ sys[p].pi = pi /\ sys[p].writable = w
RefsExact ==
  /\ \A f \in Ftable : file[f].ref = Cardinality({x \in Proc \X Fd : ofile[x[1]][x[2]] = f})
  /\ \A pi \in Pipes : IF pipe[pi] = Nil THEN ~ EndOpen(pi, TRUE) /\ ~ EndOpen(pi, FALSE)
                       ELSE pipe[pi].writeopen = EndOpen(pi, TRUE) /\ pipe[pi].readopen = EndOpen(pi, FALSE)

(* Nobody sleeps in a pipe without reason: a reader sleeps only while the    *)
(* pipe is empty and has a writer, a writer only while it is full and has a  *)
(* reader - or a writer holds the lock or was killed on the way out, before  *)
(* the bytes it stored were announced.                                       *)
SleepsForReason ==
  \A p \in Proc : chan[p] # Nil =>
    LET pi == chan[p][1] IN
    /\ pipe[pi] # Nil
    /\ plock[pi] = Nil /\ kills = 0 =>
         IF chan[p][2] = "nread" THEN Empty(pi) /\ pipe[pi].writeopen
                                 ELSE Full(pi) /\ pipe[pi].readopen

==============================================================================
