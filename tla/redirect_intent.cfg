SPECIFICATION IntentSpec
CONSTANTS
  m1 = m1
  m2 = m2
  dev = dev
  CpuMaps <- MCCpuMaps
  DevMaps = {dev}
  Extra <- MCExtra
  EntriesOf <- MCEntriesOf
  MaxCpus = 2
  None = None
PROPERTY LastRequestDecides
CHECK_DEADLOCK FALSE
