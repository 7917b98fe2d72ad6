CONSTANTS
  A = A  B = B
  a1 = a1  a2 = a2  b1 = b1
  s1 = s1  s2 = s2  d1 = d1  d2 = d2
  Cpus = {A}
  HotCpus = {}
  Entries = {a1, a2}
  CpuOf <- CpuOfDef
  Domains = {d1, d2}
  Sources = {s1, s2}
  NoEntry = NoEntry
  NoDomain = NoDomain
  BulkSize = 2
  QueueSize = 2
  BatchSize = 2
  Weight = 3
  MaxPending = 1
  MaxPubs = 2
SPECIFICATION Spec
SYMMETRY GenSymm
INVARIANTS StoppedIsUnused QuietDomain RefsExact WatermarkHanded
\* After cpu_map_free nothing is left to do.
CHECK_DEADLOCK FALSE
