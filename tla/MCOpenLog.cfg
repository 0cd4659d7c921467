CONSTANTS
  Proc = {p1, p2}
  Block = {b1, b2}
  Val = {0, 1}
  InitVal = 0
  Absent = Absent
  NoBuf = NoBuf
  LOGSIZE = 6
  MAXOPBLOCKS = 3
  NLOG = 6
  OpBlocks = 2
SPECIFICATION OpenSpec
INVARIANT OutstandingExact
