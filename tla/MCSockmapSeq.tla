---------------------------- MODULE MCSockmapSeq ----------------------------
(* Instances of SockmapSeq: the constants are given in the configurations. *)
EXTENDS SockmapSeq
=============================================================================
