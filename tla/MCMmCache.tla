----------------------------- MODULE MCMmCache -----------------------------
(* Model values of the runs of MmCache. *)
EXTENDS MmCache, TLC

CONSTANTS c1, c2
NodeOfTwo == (c1 :> 1) @@ (c2 :> 2)
Symm == Permutations(Mms) \cup Permutations(Backings)
=============================================================================
