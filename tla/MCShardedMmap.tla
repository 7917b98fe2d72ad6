--------------------------- MODULE MCShardedMmap ---------------------------
(* Model values of the runs of ShardedMmap. *)
EXTENDS ShardedMmapProperties, TLC

CONSTANTS m1, m2, v1, v2
MmOfPair == (v1 :> m1) @@ (v2 :> m2)
ShardOfTwo == (m1 :> 1) @@ (m2 :> 2)
=============================================================================
