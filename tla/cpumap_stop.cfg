CONSTANTS
  A = A  B = B
  a1 = a1  a2 = a2  b1 = b1
  s1 = s1  s2 = s2  d1 = d1  d2 = d2
  Cpus = {A}
  HotCpus = {}
  Entries = {a1, a2}
  CpuOf <- CpuOfDef
  Domains = {d1}
  Sources = {s1}
  NoEntry = NoEntry
  NoDomain = NoDomain
  BulkSize = 1
  QueueSize = 1
  BatchSize = 1
  Weight = 2
  MaxPending = 2
  MaxPubs = 2
SPECIFICATION FairSpec
PROPERTIES TeardownEnds TicketsComplete
\* After cpu_map_free nothing is left to do.
CHECK_DEADLOCK FALSE
