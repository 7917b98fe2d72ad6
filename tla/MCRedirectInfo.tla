--------------------------- MODULE MCRedirectInfo ---------------------------
(* An ordered and an ordinary CPUMAP, the second with an entry missing.    *)
EXTENDS RedirectInfo

CONSTANTS m1, m2, dev

MCCpuMaps == {m1, m2}
MCExtra   == [m \in MCCpuMaps |-> IF m = m1 THEN 2 ELSE 0]
MCEntriesOf == [m \in MCCpuMaps |-> IF m = m1 THEN {0, 1} ELSE {1}]
=============================================================================
