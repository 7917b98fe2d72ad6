----------------------------- MODULE MCPipapo ------------------------------
(* Model values of the runs of Pipapo. *)
EXTENDS PipapoProperties, TLC

CONSTANTS e1, e2, k1
OneKey == (e1 :> k1) @@ (e2 :> k1)
(* Elements are no symmetry: Flush records them in an order of CHOOSE. *)
Symm == Permutations(Tables)
=============================================================================
