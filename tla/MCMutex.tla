------------------------------- MODULE MCMutex -------------------------------
(* Two instances of user/mutextest.c: 1 and 2 are parent and child of one     *)
(* program, 3 belongs to another one.                                         *)
EXTENDS Mutex

TwoPrograms == [p \in Pid |-> IF p = 3 THEN 2 ELSE 1]
==============================================================================
