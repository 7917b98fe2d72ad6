------------------------------ MODULE MCCpuMap ------------------------------
EXTENDS CpuMapProperties, TLC
CONSTANTS A, B, a1, a2, b1, s1, s2, d1, d2

CpuOfDef == [e \in Entries |-> IF e = b1 THEN B ELSE A]
Symm == Permutations(Sources) \cup Permutations(Domains)
(* Sound where all entries are generations of one CPU. *)
GenSymm == Symm \cup Permutations(Entries)
=============================================================================
