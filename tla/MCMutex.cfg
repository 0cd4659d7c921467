CONSTANTS
  Pid = {1, 2, 3}
  Program <- TwoPrograms
  MAX_MUTEXES = 2
  NoPid = NoPid
SPECIFICATION Spec
INVARIANT HolderRecorded
