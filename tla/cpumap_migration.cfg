CONSTANTS
  A = A  B = B
  a1 = a1  a2 = a2  b1 = b1
  s1 = s1  s2 = s2  d1 = d1  d2 = d2
  Cpus = {A, B}
  HotCpus = {A}
  Entries = {a1, b1}
  CpuOf <- CpuOfDef
  Domains = {d1}
  Sources = {s1, s2}
  NoEntry = NoEntry
  NoDomain = NoDomain
  BulkSize = 1
  QueueSize = 2
  BatchSize = 2
  Weight = 3
  MaxPending = 2
  MaxPubs = 3
SPECIFICATION Spec
SYMMETRY Symm
INVARIANTS NoOvertaking
PROPERTIES ImplementsDomainFifo
\* After cpu_map_free nothing is left to do.
CHECK_DEADLOCK FALSE
