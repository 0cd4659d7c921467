CONSTANTS
  Page <- MCPage
  PGSIZE = 2
  FAN = 3
  Nil = Nil
  Proc = {1, 2}
  Program <- MCProgram
  Incr <- MCIncr
  UINT64 = 64
  USERSTACK = 1
  NArgs = {1}
  Limit = 12
  MaxCalls = 6
SPECIFICATION Spec
INVARIANTS NoPanic PagesPartition ImageExact
CHECK_DEADLOCK FALSE
