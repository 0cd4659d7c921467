CONSTANTS
  NINODES = 5
  NBLOCKS = 8
  BSIZE = 2
  NDIRECT = 1
  NINDIRECT = 2
  Proc = {1, 2}
  NINODE = 6
  NOFILE = 1
  NDEV = 1
  MAXOPBLOCKS = 6
  Names <- MCNames
  Scenario <- MCScenario
  Nil = Nil
SPECIFICATION Spec
INVARIANTS NoPanic DiskConsistent TableExact NoCircularWait
