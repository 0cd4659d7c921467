CONSTANTS
  Proc = {1, 2, 3, 4, 5}
  Pipes = {"pi", "pj"}
  PIPESIZE = 2
  WRAP = 4
  Nil = Nil
  Name = {"f"}
  Console = "console"
  NFILE = 5
  NOFILE = 6
  BSIZE = 2
  MAXFILE = 8
  MaxWrite = 2
  UINT = 16
  MAXARGS = 5
  GrepSize = 4
  Chars <- CharsOf
  NBytes = 3
  BufSize = 2
  Mode <- ModeOf
  Killable <- MCKillable
  Job <- MCTrees
  Boot <- ShellMain
  Compute <- ShellCompute
SPECIFICATION Spec
INVARIANTS OutputIsMeaning RefsExact SleepsForReason
PROPERTY EverythingFinishes
CHECK_DEADLOCK FALSE
