CONSTANTS
  Proc = {p1, p2}
  Block = {k1, k2, k3}
  MaxMod = 1
  NBUF = 2
  NUM = 6
  MaxPin = 0
  Nil = Nil
SPECIFICATION Spec
INVARIANT HolderSeesLastWrite
PROPERTY RequestReturns
