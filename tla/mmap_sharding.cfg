SPECIFICATION Spec
CONSTANTS
  m1 = m1
  m2 = m2
  v1 = v1
  v2 = v2
  Mms = {m1, m2}
  Walkers = {w1}
  Lockers = {l1}
  Vmas = {v1, v2}
  MmOf <- MmOfPair
  NrShards = 2
  ShardOf <- ShardOfTwo
  Eligible = TRUE
  Threshold = 2
INVARIANTS TreesExact AllLocksExclude NoDeadlock
PROPERTIES ImplementsVmaSet
