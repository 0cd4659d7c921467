CONSTANTS
  Proc = {p1, p2, p3}
  Block = {k1, k2, k3}
  MaxMod = 1
  NBUF = 3
  NUM = 6
  MaxPin = 1
  Nil = Nil
SPECIFICATION Spec
INVARIANTS NoPanic DeviceOwnsBuffer RefcntExact DescWaiterHasWaker
SYMMETRY Symmetry
