CONSTANTS
  NPROC = 2
  CPU = {c1, c2}
  NoCPU = NoCPU
  NoProc = NoProc
  NoChan = NoChan
  lk = lk
  Lock = {lk}
SPECIFICATION FairSpec
INVARIANTS MutualExclusion NoLostWakeup OneCPUPerProcess NoPanic
PROPERTY SleeperWakes
