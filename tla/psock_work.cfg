SPECIFICATION FairSpec
CONSTANTS
  Psocks = {p1, p2}
  Skbs = {s1, s2}
  Egress = {s2}
  MaxCalls = 1
  MaxRedirects = 1
  MaxAgain = 1
  None = None
  s1 = s1
  s2 = s2
  p1 = p1
  p2 = p2
INVARIANTS LedgerExact RefsExact FreedUnused ChargedIsQueued
PROPERTIES CloseEnds UnlinkedIsFreed
CHECK_DEADLOCK FALSE
