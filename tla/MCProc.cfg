CONSTANTS
  NPROC = 3
  CPU = {c1, c2}
  NoCPU = NoCPU
  NoProc = NoProc
  NoChan = NoChan
  wait_lock = wait_lock
  Lock = {wait_lock}
  MaxPid = 5
SYMMETRY Symmetry
VIEW View
SPECIFICATION Spec
INVARIANT NoMissedExit ParentAlive FreedOffCPU NoPanic
