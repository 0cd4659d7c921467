------------------------------- MODULE MCBcache -------------------------------
(* TLC instances of Bcache.  Two chains of descriptors fit: in MCBcache.cfg   *)
(* two requests are under way and a third process waits for descriptors; in   *)
(* MCBcacheLive.cfg there are more blocks than buffers.                       *)
EXTENDS Bcache, TLC
Symmetry == Permutations(Proc) \cup Permutations(Block)
==============================================================================
