-------------------------------- MODULE MCTty --------------------------------
(* TLC instance of Tty: two CPUs and scenarios that bring two parties to each *)
(* lock, buffer and wakeup, a transmit buffer of two bytes that fills, and    *)
(* ticks that wrap around during a sleep.                                     *)
EXTENDS Tty, TLC

Run2(a, b, ks, t, k, bd) ==
  [calls |-> (0 :> a @@ 1 :> b), keys |-> ks, ticks |-> t, now |-> WRAP - 1, kill |-> k, bad |-> bd]

MCScenario == {
  Run2(<<<<"read", 2>>>>, <<<<"read", 1>>>>, <<"x", "nl">>, 0, {1}, {0}),
  Run2(<<<<"read", 2>>, <<"read", 2>>>>, <<>>, <<"x", "^D", "y", "nl">>, 0, {}, {}),
  Run2(<<<<"read", 3>>>>, <<>>, <<"x", "^U", "x", "y", "^H", "nl">>, 0, {}, {}),
  Run2(<<<<"write", 3>>>>, <<<<"write", 3>>>>, <<"x">>, 1, {}, {}),
  Run2(<<<<"write", 2>>>>, <<<<"read", 2>>>>, <<"x", "^H">>, 0, {}, {0}),
  Run2(<<<<"sleep", 2>>>>, <<<<"sleep", 1>>, <<"sleep", 1>>>>, <<>>, 3, {1}, {}) }
==============================================================================
