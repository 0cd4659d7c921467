-------------------------------- MODULE MCProc --------------------------------
EXTENDS Proc, TLC

(* The harts are interchangeable. *)
Symmetry == Permutations(CPU)

(* States that differ only in variables nobody reads again are the same: loop *)
(* variables outside their loops, and the thread of an UNUSED slot.           *)
Live(f, labels, dead) == [p \in Procs |-> IF pc[p] \in labels THEN f[p] ELSE dead]

Used(f, dead) == [p \in Procs |-> IF state[p] = "UNUSED" THEN dead ELSE f[p]]

View ==
  <<state, chan, plock, lock, cproc, spc, Used(pc, "user"), Used(yielded, TRUE),
    parent, pid, killed, nextpid,
    Live(widx, {"wake_init", "wake_parent"}, 0),
    Live(idx, {"fork_scan", "fork_parent", "fork_run", "reparent", "wake_init",
               "wait_scan"}, 0),
    Live(havekids, {"wait_scan"}, FALSE)>>
==============================================================================
