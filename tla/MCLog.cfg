CONSTANTS
  Proc = {p1, p2}
  Block = {b1, b2}
  Val = {0, 1}
  InitVal = 0
  Absent = Absent
  NoBuf = NoBuf
  LOGSIZE = 4
  MAXOPBLOCKS = 2
  NLOG = 4
  OpBlocks = 1
SPECIFICATION LiveSpec
INVARIANT OutstandingExact LoggedStaysCached
PROPERTY RefinesAtomicDisk BeginOpWakes
