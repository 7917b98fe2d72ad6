SPECIFICATION Spec
CONSTANTS
  c1 = c1
  c2 = c2
  Cpus = {c1, c2}
  NrNodes = 2
  NodeOf <- NodeOfTwo
  Mms = {m1, m2}
  Backings = {b1, b2}
  NoBacking = NoBacking
  CpuMax = 1
  NodeMax = 1
  Batch = 2
  MaxRss = 2
SYMMETRY Symm
INVARIANTS OnePlace RssExact DeadHoldNothing
PROPERTY ImplementsBackingPool
